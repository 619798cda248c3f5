---------------------------- MODULE StorageProofs ---------------------------
(***************************************************************************)
(* Theorems about the files that outlive the server, for every number of   *)
(* calls, secrets, processes, versions, failures and crashes: the secret   *)
(* vault with its key, the database through upgrades and restores, the     *)
(* whisper.cpp builds.  One section per component gives its inductive      *)
(* invariant and a lemma per action; the last puts them together.          *)
(***************************************************************************)
EXTENDS MCLocal, FiniteSetTheorems, SequenceTheorems, WellFoundedInduction, TLAPS

-----------------------------------------------------------------------------
(* SecretVault                                                             *)

\* What a file holds and what a call holds; the bounds are not needed here.
VaultKind == [version : 0..2, keys : SUBSET (Nat \ {0}), secrets : [References -> Nat]]
CallKind == [op : {"none", "get", "set", "delete", "recover"},
             phase : {"idle", "init", "copy", "copying", "migrate", "read", "vaultKey", "create",
                      "fill", "entryKey", "write", "archiveVault", "archiveKey"},
             ref : References \cup {"none"}, after : SUBSET VaultCalls,
             document : VaultKind, key : Nat, stale : BOOLEAN]
VaultKinds ==
  /\ vault \in VaultKind /\ keyFile \in {Vault!PartialKey} \cup Nat
  /\ legacyCopy \in {"none", "partial", "whole"}
  /\ calls \in [VaultCalls -> CallKind]
  /\ memo \in [Vault!Processes -> {"none", "running", "done", "failed"}]
  /\ values \in Nat \ {0} /\ keys \in Nat /\ recovering \in BOOLEAN

\* The phases before a call has read the vault, those of the migration, and
\* those that follow the read.
Apart == {"idle", "init", "archiveVault", "archiveKey"}
Migrating == {"copy", "copying", "migrate"}
Holding == {"vaultKey", "create", "fill", "entryKey", "write"}

\* A document that still has a v0.x entry was read when its copy was whole.
Kept(d) == d.version = 2 /\ (\E r \in References : d.secrets[r] = Vault!LegacyValue)
             => legacyCopy = "whole"
\* What a call does fits where it is, and so does the document it holds.
CallFits(c) ==
  /\ c.op = "none" <=> c.phase = "idle"
  /\ c.op = "recover" <=> c.phase \in {"archiveVault", "archiveKey"}
  /\ c.phase \in {"entryKey", "write"} => c.op \in {"set", "delete"} /\ c.document.version = 2
  /\ c.phase # "init" => c.after = {}
  /\ c.phase \in Apart \cup {"read"} => c.document = Vault!NoVault /\ c.key = Vault!NoKey
  /\ c.phase \in {"vaultKey", "create", "fill"}
       => c.document = Vault!NoVault \/ c.document.version = 2
  /\ c.phase = "migrate" => legacyCopy = "whole"
  /\ Kept(c.document)
FileFits ==
  /\ vault.version = 0 => vault = Vault!NoVault
  /\ vault.version = 1 => vault.keys = {1}
  /\ Kept(vault)

\* Of two changes in one process one waits for the other.
QueueInv ==
  \A s, t \in VaultCalls :
    s # t /\ Vault!Mutating(s) /\ Vault!Mutating(t) /\ Vault!ProcessOf(s) = Vault!ProcessOf(t)
      => t \in calls[s].after \/ s \in calls[t].after

\* Without a recovery beside it: there is one key, nobody fills the key file
\* but its creator, a process initializes before it reads and once, and a
\* document of a change shows the vault as it is, or is known to be old.
KeyFits(c) == c.document.keys \subseteq {keyFile} /\ c.key \in {Vault!NoKey, keyFile}
MemoFits(s) ==
  /\ calls[s].phase \in Migrating => memo[Vault!ProcessOf(s)] = "running"
  /\ calls[s].phase \in Holding \cup {"read"} => memo[Vault!ProcessOf(s)] = "done"
Shown(c) ==
  c.op \in {"set", "delete"} /\ c.phase \in Holding /\ ~c.stale
    => c.document.secrets = vault.secrets
OrderlyInv ==
  /\ vault.keys \subseteq {keyFile}
  /\ \A s \in VaultCalls :
       /\ KeyFits(calls[s]) /\ MemoFits(s) /\ Shown(calls[s])
       /\ calls[s].phase = "fill" => keyFile = Vault!PartialKey
       /\ calls[s].phase = "archiveKey" => vault = Vault!NoVault
  /\ \A s, t \in VaultCalls : s # t =>
       /\ ~(calls[s].phase = "fill" /\ calls[t].phase = "fill")
       /\ calls[s].op = "recover" => calls[t].op = "none"
       /\ calls[s].phase \in Migrating /\ calls[t].phase \in Migrating
            => Vault!ProcessOf(s) # Vault!ProcessOf(t)
VaultInv ==
  /\ VaultKinds /\ (\A s \in VaultCalls : CallFits(calls[s])) /\ FileFits /\ QueueInv
  /\ ~recovering => OrderlyInv

\* What a step of slot s leaves to the other slots.
Others(s) ==
  \A t \in VaultCalls : t # s =>
    /\ calls'[t].op = calls[t].op /\ calls'[t].phase = calls[t].phase
    /\ calls'[t].document = calls[t].document /\ calls'[t].key = calls[t].key
    /\ calls[t].stale => calls'[t].stale
\* The call of slot s goes on, or ends.
Went(s) ==
  /\ calls'[s].op = calls[s].op /\ calls'[s].after = calls[s].after
  /\ Others(s) /\ \A t \in VaultCalls : t # s => calls'[t].after = calls[t].after
Ended(s) ==
  /\ calls'[s] = Vault!NoCall
  /\ Others(s) /\ \A t \in VaultCalls : t # s => calls'[t].after = calls[t].after \ {s}

\* The fields of an empty vault and of a slot without a call.
LEMMA EmptyKinds ==
  /\ Vault!NoVault \in VaultKind /\ Vault!NoCall \in CallKind
  /\ Vault!NoVault.version = 0 /\ Vault!NoVault.keys = {}
  /\ Vault!NoVault.secrets = [r \in References |-> 0]
  /\ Vault!NoCall.op = "none" /\ Vault!NoCall.phase = "idle" /\ Vault!NoCall.after = {}
  /\ Vault!NoCall.document = Vault!NoVault /\ Vault!NoCall.key = 0 /\ Vault!NoCall.ref = "none"
  /\ Vault!NoCall.stale = FALSE
<1>1. Vault!NoVault \in VaultKind
  BY DEF Vault!NoVault, VaultKind
<1> QED
  BY <1>1 DEF Vault!NoVault, Vault!NoCall, Vault!NoKey, CallKind

\* EndedIn: the slot is free again and nobody waits for its call any more.
LEMMA EndedCalls ==
  ASSUME NEW c \in [VaultCalls -> CallKind], NEW s \in VaultCalls
  PROVE  /\ Vault!EndedIn(c, s) \in [VaultCalls -> CallKind]
         /\ Vault!EndedIn(c, s)[s] = Vault!NoCall
         /\ \A t \in VaultCalls : t # s =>
              /\ Vault!EndedIn(c, s)[t].op = c[t].op /\ Vault!EndedIn(c, s)[t].phase = c[t].phase
              /\ Vault!EndedIn(c, s)[t].document = c[t].document
              /\ Vault!EndedIn(c, s)[t].key = c[t].key /\ Vault!EndedIn(c, s)[t].stale = c[t].stale
              /\ Vault!EndedIn(c, s)[t].after = c[t].after \ {s}
<1>1. ASSUME NEW t \in VaultCalls
      PROVE  /\ [c[t] EXCEPT !.after = @ \ {s}] \in CallKind
             /\ [c[t] EXCEPT !.after = @ \ {s}].op = c[t].op
             /\ [c[t] EXCEPT !.after = @ \ {s}].phase = c[t].phase
             /\ [c[t] EXCEPT !.after = @ \ {s}].document = c[t].document
             /\ [c[t] EXCEPT !.after = @ \ {s}].key = c[t].key
             /\ [c[t] EXCEPT !.after = @ \ {s}].stale = c[t].stale
             /\ [c[t] EXCEPT !.after = @ \ {s}].after = c[t].after \ {s}
  BY DEF CallKind
<1>2. Vault!NoCall \in CallKind
  BY EmptyKinds
<1> QED
  BY <1>1, <1>2 DEF Vault!EndedIn

\* Outdated: calls of the other process that hold the vault are marked, and
\* nothing else of a call changes.
LEMMA OutdatedCalls ==
  ASSUME NEW c \in [VaultCalls -> CallKind], NEW s \in VaultCalls
  PROVE  /\ Vault!Outdated(c, s) \in [VaultCalls -> CallKind]
         /\ Vault!Outdated(c, s)[s] = c[s]
         /\ \A t \in VaultCalls :
              /\ Vault!Outdated(c, s)[t].op = c[t].op /\ Vault!Outdated(c, s)[t].phase = c[t].phase
              /\ Vault!Outdated(c, s)[t].document = c[t].document
              /\ Vault!Outdated(c, s)[t].key = c[t].key
              /\ Vault!Outdated(c, s)[t].after = c[t].after
              /\ c[t].stale => Vault!Outdated(c, s)[t].stale
              /\ Vault!ProcessOf(t) # Vault!ProcessOf(s) /\ c[t].phase \in Holding
                   => Vault!Outdated(c, s)[t].stale
<1>1. ASSUME NEW t \in VaultCalls
      PROVE  /\ [c[t] EXCEPT !.stale = TRUE] \in CallKind
             /\ [c[t] EXCEPT !.stale = TRUE].op = c[t].op
             /\ [c[t] EXCEPT !.stale = TRUE].phase = c[t].phase
             /\ [c[t] EXCEPT !.stale = TRUE].document = c[t].document
             /\ [c[t] EXCEPT !.stale = TRUE].key = c[t].key
             /\ [c[t] EXCEPT !.stale = TRUE].after = c[t].after
             /\ [c[t] EXCEPT !.stale = TRUE].stale
  <2>1. PICK call \in CallKind : call = c[t]
    OBVIOUS
  <2>2. [call EXCEPT !.stale = TRUE] \in CallKind
    BY DEF CallKind
  <2>3. /\ [call EXCEPT !.stale = TRUE].op = call.op
        /\ [call EXCEPT !.stale = TRUE].phase = call.phase
        /\ [call EXCEPT !.stale = TRUE].document = call.document
        /\ [call EXCEPT !.stale = TRUE].key = call.key
        /\ [call EXCEPT !.stale = TRUE].after = call.after
    BY DEF CallKind
  <2>4. [call EXCEPT !.stale = TRUE].stale
    BY DEF CallKind
  <2> QED  BY <2>1, <2>2, <2>3, <2>4
<1>2. ASSUME NEW t \in VaultCalls, c[t].phase \in Holding
      PROVE  c[t].phase \notin {"idle", "init", "read"}
  BY <1>2 DEF Holding
<1> QED
  BY <1>1, <1>2 DEF Vault!Outdated

\* The invariants that one call does not disturb for the others.
LEMMA OtherCalls ==
  ASSUME VaultInv, NEW s \in VaultCalls, VaultKinds', Went(s) \/ Ended(s),
         legacyCopy = "whole" => legacyCopy' = "whole", CallFits(calls[s])'
  PROVE  (\A t \in VaultCalls : CallFits(calls[t]))' /\ QueueInv'
<1>1. ASSUME NEW t \in VaultCalls, t # s PROVE CallFits(calls[t])'
  <2>1. /\ calls'[t].op = calls[t].op /\ calls'[t].phase = calls[t].phase
        /\ calls'[t].document = calls[t].document /\ calls'[t].key = calls[t].key
        /\ calls'[t].after \subseteq calls[t].after
    BY <1>1 DEF Went, Ended, Others
  <2>2. CallFits(calls[t])
    BY DEF VaultInv
  <2>3. Kept(calls[t].document)'
    BY <2>1, <2>2 DEF CallFits, Kept
  <2> QED
    BY <2>1, <2>2, <2>3 DEF CallFits
<1>2. QueueInv'
  BY EmptyKinds DEF QueueInv, VaultInv, Went, Ended, Others, Vault!Mutating
<1> QED
  BY <1>1, <1>2
\* Goes, Ends and an assignment to a slot: what they leave of the calls.
Phases == {"idle", "init", "copy", "copying", "migrate", "read", "vaultKey", "create", "fill",
           "entryKey", "write", "archiveVault", "archiveKey"}
LEMMA GoesOn ==
  ASSUME VaultKinds, NEW s \in VaultCalls, NEW phase \in Phases, Vault!Goes(s, phase)
  PROVE  /\ calls' \in [VaultCalls -> CallKind] /\ Went(s) /\ calls'[s].phase = phase
         /\ calls'[s].document = calls[s].document /\ calls'[s].key = calls[s].key
         /\ calls'[s].stale = calls[s].stale
<1>1. PICK call \in CallKind : call = calls[s]
  BY DEF VaultKinds
<1>2. /\ [call EXCEPT !.phase = phase] \in CallKind
      /\ [call EXCEPT !.phase = phase].op = call.op
      /\ [call EXCEPT !.phase = phase].after = call.after
      /\ [call EXCEPT !.phase = phase].document = call.document
      /\ [call EXCEPT !.phase = phase].key = call.key
      /\ [call EXCEPT !.phase = phase].stale = call.stale
      /\ [call EXCEPT !.phase = phase].phase = phase
  BY DEF CallKind, Phases
<1>3. calls' = [calls EXCEPT ![s] = [call EXCEPT !.phase = phase]]
  BY <1>1 DEF Vault!Goes
<1> QED
  BY <1>1, <1>2, <1>3 DEF VaultKinds, Went, Others

LEMMA EndsHere ==
  ASSUME VaultKinds, NEW s \in VaultCalls, Vault!Ends(s)
  PROVE  calls' \in [VaultCalls -> CallKind] /\ Ended(s)
BY EndedCalls DEF VaultKinds, Vault!Ends, Ended, Others

LEMMA CallSet ==
  ASSUME VaultKinds, NEW s \in VaultCalls, NEW call \in CallKind,
         calls' = [calls EXCEPT ![s] = call]
  PROVE  /\ calls' \in [VaultCalls -> CallKind] /\ calls'[s] = call /\ Others(s)
         /\ \A t \in VaultCalls : t # s => calls'[t].after = calls[t].after
BY DEF VaultKinds, Others

\* A slot without a call asks for nothing.
LEMMA EndedFits ==
  ASSUME VaultKinds, NEW s \in VaultCalls, Ended(s)
  PROVE  CallFits(calls[s])' /\ (KeyFits(calls[s]) /\ MemoFits(s) /\ Shown(calls[s]))'
BY EmptyKinds DEF Ended, CallFits, Kept, KeyFits, MemoFits, Shown, Migrating, Holding, Apart,
                  Vault!NoKey

\* A step that leaves the vault alone, and the key file but to its creator.
LEMMA OrderlyCalls ==
  ASSUME VaultInv, OrderlyInv, VaultKinds', NEW s \in VaultCalls, Went(s) \/ Ended(s),
         UNCHANGED vault, CallFits(calls[s]), CallFits(calls[s])',
         \/ UNCHANGED keyFile
         \/ /\ keyFile \in {Vault!NoKey, Vault!PartialKey}
            /\ \A t \in VaultCalls : t # s => calls[t].phase # "fill",
         \A p \in Vault!Processes : p # Vault!ProcessOf(s) => memo'[p] = memo[p],
         \/ memo'[Vault!ProcessOf(s)] = memo[Vault!ProcessOf(s)]
         \/ memo[Vault!ProcessOf(s)] = "none" \/ calls[s].phase \in Migrating,
         (KeyFits(calls[s]) /\ MemoFits(s) /\ Shown(calls[s]))',
         calls'[s].phase = "fill"
           => keyFile' = Vault!PartialKey /\ \A t \in VaultCalls : t # s => calls[t].phase # "fill",
         calls'[s].phase = "archiveKey" => calls[s].phase = "archiveKey",
         calls'[s].phase \in Migrating
           => calls[s].phase \in Migrating \/ memo[Vault!ProcessOf(s)] = "none"
  PROVE  OrderlyInv'
<1>1. ASSUME NEW t \in VaultCalls, t # s PROVE (KeyFits(calls[t]) /\ Shown(calls[t]))'
  <2>1. /\ calls'[t].op = calls[t].op /\ calls'[t].phase = calls[t].phase
        /\ calls'[t].document = calls[t].document /\ calls'[t].key = calls[t].key
        /\ calls[t].stale => calls'[t].stale
        /\ KeyFits(calls[t]) /\ Shown(calls[t])
    BY <1>1 DEF OrderlyInv, Went, Ended, Others
  <2>2. calls[t].document.keys \subseteq Nat \ {0} /\ calls[t].key \in Nat
    BY DEF VaultInv, VaultKinds, CallKind, VaultKind
  <2>3. KeyFits(calls[t])'
    BY <2>1, <2>2 DEF KeyFits, Vault!NoKey, Vault!PartialKey
  <2> QED  BY <2>1, <2>3 DEF Shown
<1>2. ASSUME NEW t \in VaultCalls, t # s PROVE MemoFits(t)'
  <2>1. Vault!ProcessOf(t) \in Vault!Processes
    BY DEF Vault!ProcessOf, Vault!Processes
  <2>2. MemoFits(t) /\ MemoFits(s) /\ calls'[t].phase = calls[t].phase
    BY <1>2 DEF OrderlyInv, Went, Ended, Others
  <2>3. CASE memo'[Vault!ProcessOf(t)] = memo[Vault!ProcessOf(t)]
    BY <2>2, <2>3 DEF MemoFits
  <2>4. CASE Vault!ProcessOf(t) = Vault!ProcessOf(s) /\ memo[Vault!ProcessOf(s)] = "none"
    BY <2>2, <2>4 DEF MemoFits
  <2>5. CASE Vault!ProcessOf(t) = Vault!ProcessOf(s) /\ calls[s].phase \in Migrating
    <3>1. calls[t].phase \notin Migrating
      BY <1>2, <2>5 DEF OrderlyInv
    <3>2. calls[t].phase \notin Holding \cup {"read"}
      BY <2>2, <2>5 DEF MemoFits
    <3> QED  BY <2>2, <3>1, <3>2 DEF MemoFits
  <2> QED  BY <2>1, <2>3, <2>4, <2>5
<1>3. ASSUME NEW t \in VaultCalls
      PROVE  /\ calls'[t].phase = "fill" => keyFile' = Vault!PartialKey
             /\ calls'[t].phase = "archiveKey" => vault' = Vault!NoVault
             /\ calls'[t].op \in {calls[t].op, "none"}
             /\ t # s => calls'[t].phase = calls[t].phase
  BY EmptyKinds DEF OrderlyInv, Went, Ended, Others
<1>4. ASSUME NEW t \in VaultCalls, calls'[t].phase \in Migrating, t # s
      PROVE  /\ calls[t].phase \in Migrating
             /\ calls'[s].phase \in Migrating => Vault!ProcessOf(s) # Vault!ProcessOf(t)
  BY <1>4 DEF OrderlyInv, Went, Ended, Others, MemoFits
<1>5. ASSUME NEW t \in VaultCalls, NEW u \in VaultCalls, t # u
      PROVE  /\ ~(calls'[t].phase = "fill" /\ calls'[u].phase = "fill")
             /\ calls'[t].op = "recover" => calls'[u].op = "none"
             /\ calls'[t].phase \in Migrating /\ calls'[u].phase \in Migrating
                  => Vault!ProcessOf(t) # Vault!ProcessOf(u)
  BY <1>3, <1>4, <1>5 DEF OrderlyInv
<1>6. vault'.keys \subseteq {keyFile'}
  BY DEF OrderlyInv, VaultInv, VaultKinds, VaultKind, Vault!NoKey, Vault!PartialKey
<1> QED
  BY <1>1, <1>2, <1>3, <1>5, <1>6 DEF OrderlyInv

\* Reading, and what leads to it, changes no file but the copy.
LEMMA QuietCalls ==
  ASSUME VaultInv, NEW s \in VaultCalls, VaultKinds', Went(s) \/ Ended(s), CallFits(calls[s])',
         UNCHANGED <<vault, recovering>>, legacyCopy = "whole" => legacyCopy' = "whole",
         ~recovering => OrderlyInv'
  PROVE  VaultInv'
<1>1. FileFits'
  BY DEF VaultInv, FileFits, Kept
<1> QED  BY <1>1, OtherCalls DEF VaultInv

\* initialize(), by the first call of a process: its end, its begin, and the
\* copy of a v0.x vault between them.
LEMMA InitializedKeeps ==
  ASSUME VaultInv, NEW s \in VaultCalls, Vault!Initialized(s)
  PROVE  VaultInv'
<1> DEFINE p == Vault!ProcessOf(s)
<1>1. /\ calls[s] \in CallKind /\ calls[s].phase = "init" /\ calls[s].after = {}
      /\ CallFits(calls[s]) /\ VaultKinds
  BY DEF VaultInv, VaultKinds, Vault!Initialized, Vault!In
<1>2. CASE memo[p] = "failed"
  <2>1. calls' \in [VaultCalls -> CallKind] /\ Ended(s)
    BY <1>1, <1>2, EndsHere DEF Vault!Initialized
  <2>2. VaultKinds'
    BY <1>1, <2>1 DEF Vault!Initialized, VaultKinds
  <2>3. ASSUME ~recovering PROVE OrderlyInv'
    BY <1>1, <2>1, <2>2, <2>3, OrderlyCalls, EndedFits, EmptyKinds
    DEF VaultInv, Vault!Initialized, Ended, Migrating
  <2> QED
    BY <1>1, <2>1, <2>2, <2>3, QuietCalls, EndedFits DEF Vault!Initialized
<1>3. CASE memo[p] = "done" /\ Vault!Goes(s, "read")
  <2>1. /\ calls' \in [VaultCalls -> CallKind] /\ Went(s) /\ calls'[s].phase = "read"
        /\ calls'[s].document = calls[s].document /\ calls'[s].key = calls[s].key
    BY <1>1, <1>3, GoesOn DEF Phases
  <2>2. VaultKinds'
    BY <1>1, <2>1 DEF Vault!Initialized, VaultKinds
  <2>3. CallFits(calls[s])'
    BY <1>1, <2>1, EmptyKinds DEF CallFits, Kept, Apart, Went, Vault!Initialized
  <2>4. ASSUME ~recovering PROVE OrderlyInv'
    <3>1. KeyFits(calls[s])' /\ MemoFits(s)' /\ Shown(calls[s])'
      BY <1>1, <1>3, <2>1, <2>4 DEF VaultInv, OrderlyInv, KeyFits, MemoFits, Shown, Holding,
                                    Migrating,
                      Vault!Initialized
    <3> QED
      BY <1>1, <2>1, <2>2, <2>3, <2>4, <3>1, OrderlyCalls DEF VaultInv, Vault!Initialized, Migrating
  <2> QED
    BY <1>1, <2>1, <2>2, <2>3, <2>4, QuietCalls DEF Vault!Initialized
<1> QED
  BY <1>2, <1>3 DEF Vault!Initialized

LEMMA InitializeKeeps ==
  ASSUME VaultInv, NEW s \in VaultCalls, Vault!Initialize(s)
  PROVE  VaultInv'
<1> DEFINE p == Vault!ProcessOf(s)
<1>1. /\ calls[s] \in CallKind /\ calls[s].phase = "init" /\ calls[s].after = {}
      /\ CallFits(calls[s]) /\ VaultKinds /\ memo[p] = "none" /\ p \in Vault!Processes
  BY DEF VaultInv, VaultKinds, Vault!Initialize, Vault!In, Vault!ProcessOf, Vault!Processes
<1>2. CASE memo' = [memo EXCEPT ![p] = "done"] /\ Vault!Goes(s, "read")
  <2>1. /\ calls' \in [VaultCalls -> CallKind] /\ Went(s) /\ calls'[s].phase = "read"
        /\ calls'[s].document = calls[s].document /\ calls'[s].key = calls[s].key
    BY <1>1, <1>2, GoesOn DEF Phases
  <2>2. VaultKinds'
    BY <1>1, <1>2, <2>1 DEF Vault!Initialize, VaultKinds
  <2>3. CallFits(calls[s])'
    BY <1>1, <2>1, EmptyKinds DEF CallFits, Kept, Apart, Went, Vault!Initialize
  <2>4. ASSUME ~recovering PROVE OrderlyInv'
    <3>1. KeyFits(calls[s])' /\ MemoFits(s)' /\ Shown(calls[s])'
      BY <1>1, <1>2, <2>1, <2>4 DEF VaultInv, OrderlyInv, KeyFits, MemoFits, Shown, Holding,
                      Migrating, Vault!Initialize, VaultKinds
    <3>2. \A q \in Vault!Processes : q # p => memo'[q] = memo[q]
      BY <1>1, <1>2 DEF VaultKinds
    <3> QED
      BY <1>1, <2>1, <2>2, <2>3, <2>4, <3>1, <3>2, OrderlyCalls
      DEF VaultInv, Vault!Initialize, Migrating
  <2> QED
    BY <1>1, <2>1, <2>2, <2>3, <2>4, QuietCalls DEF Vault!Initialize
<1>3. CASE memo' = [memo EXCEPT ![p] = "failed"] /\ Vault!Ends(s)
  <2>1. calls' \in [VaultCalls -> CallKind] /\ Ended(s)
    BY <1>1, <1>3, EndsHere
  <2>2. VaultKinds'
    BY <1>1, <1>3, <2>1 DEF Vault!Initialize, VaultKinds
  <2>3. ASSUME ~recovering PROVE OrderlyInv'
    <3>1. \A q \in Vault!Processes : q # p => memo'[q] = memo[q]
      BY <1>1, <1>3 DEF VaultKinds
    <3> QED
      BY <1>1, <2>1, <2>2, <2>3, <3>1, OrderlyCalls, EndedFits, EmptyKinds
      DEF VaultInv, Vault!Initialize, Ended, Migrating
  <2> QED
    BY <1>1, <2>1, <2>2, <2>3, QuietCalls, EndedFits DEF Vault!Initialize
<1>4. CASE /\ vault.version = 1 /\ vault.keys \subseteq {keyFile}
           /\ memo' = [memo EXCEPT ![p] = "running"]
           /\ calls' = [calls EXCEPT ![s].phase = "copy", ![s].document = vault, ![s].key = keyFile]
  <2>1. keyFile = 1
    BY <1>1, <1>4 DEF VaultInv, FileFits
  <2>2. PICK call \in CallKind : call = calls[s]
    BY <1>1
  <2> DEFINE next == [call EXCEPT !.phase = "copy", !.document = vault, !.key = keyFile]
  <2>3. /\ next \in CallKind /\ next.op = call.op /\ next.after = call.after
        /\ next.phase = "copy" /\ next.document = vault /\ next.key = keyFile
    BY <1>1, <2>1 DEF CallKind, VaultKinds
  <2>4. calls' = [calls EXCEPT ![s] = next]
    BY <1>4, <2>2
  <2> HIDE DEF next
  <2>5. calls' \in [VaultCalls -> CallKind] /\ Went(s) /\ calls'[s] = next
    BY <1>1, <2>2, <2>3, <2>4, CallSet DEF Went
  <2>6. VaultKinds'
    BY <1>1, <1>4, <2>5 DEF Vault!Initialize, VaultKinds
  <2>7. CallFits(calls[s])'
    <3>1. Kept(vault)'
      BY DEF VaultInv, FileFits, Kept, Vault!Initialize
    <3>2. vault' = vault
      BY DEF Vault!Initialize
    <3> QED
      BY <1>1, <2>2, <2>3, <2>5, <3>1, <3>2 DEF CallFits, Kept, Apart
  <2>8. ASSUME ~recovering PROVE OrderlyInv'
    <3>1. \A q \in Vault!Processes : q # p => memo'[q] = memo[q]
      BY <1>1, <1>4 DEF VaultKinds
    <3>2. (KeyFits(calls[s]) /\ MemoFits(s) /\ Shown(calls[s]))'
      BY <1>1, <1>4, <2>3, <2>5, <2>8
      DEF VaultInv, OrderlyInv, KeyFits, MemoFits, Shown, Holding, Migrating, Vault!Initialize,
          VaultKinds
    <3> QED
      BY <1>1, <2>3, <2>5, <2>6, <2>7, <2>8, <3>1, <3>2, OrderlyCalls
      DEF VaultInv, Vault!Initialize
  <2> QED
    BY <1>1, <2>5, <2>6, <2>7, <2>8, QuietCalls DEF Vault!Initialize
<1> QED
  BY <1>2, <1>3, <1>4 DEF Vault!Initialize

LEMMA CopyKeeps ==
  ASSUME VaultInv, NEW s \in VaultCalls, Vault!CopyLegacy(s) \/ Vault!LegacyCopied(s)
  PROVE  VaultInv'
<1> DEFINE p == Vault!ProcessOf(s)
<1>1. /\ calls[s] \in CallKind /\ calls[s].phase \in {"copy", "copying"} /\ calls[s].after = {}
      /\ CallFits(calls[s]) /\ VaultKinds /\ p \in Vault!Processes
      /\ legacyCopy = "whole" => legacyCopy' = "whole"
      /\ UNCHANGED <<vault, keyFile, values, keys, recovering>>
      /\ legacyCopy' \in {"none", "partial", "whole"}
  BY DEF VaultInv, VaultKinds, Vault!CopyLegacy, Vault!LegacyCopied, Vault!In, Vault!ProcessOf,
         Vault!Processes
<1>2. ASSUME NEW phase \in {"copying", "migrate"}, Vault!Goes(s, phase), UNCHANGED memo,
             phase = "migrate" => legacyCopy' = "whole"
      PROVE  VaultInv'
  <2>1. /\ calls' \in [VaultCalls -> CallKind] /\ Went(s) /\ calls'[s].phase = phase
        /\ calls'[s].document = calls[s].document /\ calls'[s].key = calls[s].key
    BY <1>1, <1>2, GoesOn DEF Phases
  <2>2. VaultKinds'
    BY <1>1, <1>2, <2>1 DEF VaultKinds
  <2>3. CallFits(calls[s])'
    BY <1>1, <1>2, <2>1 DEF CallFits, Kept, Apart, Went
  <2>4. ASSUME ~recovering PROVE OrderlyInv'
    <3>1. (KeyFits(calls[s]) /\ MemoFits(s) /\ Shown(calls[s]))'
      BY <1>1, <1>2, <2>1, <2>4
      DEF VaultInv, OrderlyInv, KeyFits, MemoFits, Shown, Holding, Migrating
    <3> QED
      BY <1>1, <1>2, <2>1, <2>2, <2>3, <2>4, <3>1, OrderlyCalls DEF VaultInv, Migrating
  <2> QED
    BY <1>1, <2>1, <2>2, <2>3, <2>4, QuietCalls
<1>3. CASE memo' = [memo EXCEPT ![p] = "failed"] /\ Vault!Ends(s)
  <2>1. calls' \in [VaultCalls -> CallKind] /\ Ended(s)
    BY <1>1, <1>3, EndsHere
  <2>2. VaultKinds'
    BY <1>1, <1>3, <2>1 DEF VaultKinds
  <2>3. ASSUME ~recovering PROVE OrderlyInv'
    <3>1. \A q \in Vault!Processes : q # p => memo'[q] = memo[q]
      BY <1>1, <1>3 DEF VaultKinds
    <3>2. calls[s].phase \in Migrating
      BY <1>1 DEF Migrating
    <3> QED
      BY <1>1, <2>1, <2>2, <2>3, <3>1, <3>2, OrderlyCalls, EndedFits, EmptyKinds
      DEF VaultInv, Ended
  <2> QED
    BY <1>1, <2>1, <2>2, <2>3, QuietCalls, EndedFits
<1> QED
  BY <1>2, <1>3 DEF Vault!CopyLegacy, Vault!LegacyCopied

\* readVault: a missing vault reads as an empty one, a v1 vault not at all.
LEMMA ReadKeeps ==
  ASSUME VaultInv, NEW s \in VaultCalls, Vault!Read(s)
  PROVE  VaultInv'
<1> DEFINE p == Vault!ProcessOf(s)
<1>1. /\ calls[s] \in CallKind /\ calls[s].phase = "read" /\ calls[s].after = {}
      /\ CallFits(calls[s]) /\ VaultKinds /\ Kept(vault) /\ vault \in VaultKind
      /\ UNCHANGED <<vault, keyFile, legacyCopy, memo, values, keys, recovering>>
  BY DEF VaultInv, VaultKinds, FileFits, Vault!Read, Vault!In
<1>2. CASE Vault!Ends(s)
  <2>1. calls' \in [VaultCalls -> CallKind] /\ Ended(s)
    BY <1>1, <1>2, EndsHere
  <2>2. VaultKinds'
    BY <1>1, <2>1 DEF VaultKinds
  <2>3. ASSUME ~recovering PROVE OrderlyInv'
    BY <1>1, <2>1, <2>2, <2>3, OrderlyCalls, EndedFits, EmptyKinds DEF VaultInv, Ended, Migrating
  <2> QED
    BY <1>1, <2>1, <2>2, <2>3, QuietCalls, EndedFits
<1>3. CASE vault = Vault!NoVault /\ Vault!Goes(s, "vaultKey")
  <2>1. /\ calls' \in [VaultCalls -> CallKind] /\ Went(s) /\ calls'[s].phase = "vaultKey"
        /\ calls'[s].document = calls[s].document /\ calls'[s].key = calls[s].key
    BY <1>1, <1>3, GoesOn DEF Phases
  <2>2. VaultKinds'
    BY <1>1, <2>1 DEF VaultKinds
  <2>3. CallFits(calls[s])'
    BY <1>1, <2>1 DEF CallFits, Kept, Apart, Went
  <2>4. ASSUME ~recovering PROVE OrderlyInv'
    <3>1. (KeyFits(calls[s]) /\ MemoFits(s) /\ Shown(calls[s]))'
      BY <1>1, <1>3, <2>1, <2>4
      DEF VaultInv, OrderlyInv, KeyFits, MemoFits, Shown, Holding, Migrating, CallFits
    <3> QED
      BY <1>1, <2>1, <2>2, <2>3, <2>4, <3>1, OrderlyCalls DEF VaultInv, Migrating
  <2> QED
    BY <1>1, <2>1, <2>2, <2>3, <2>4, QuietCalls
<1>4. ASSUME NEW phase \in {"entryKey", "write"}, calls[s].op # "get", vault.version = 2,
             calls' = [calls EXCEPT ![s].document = vault, ![s].stale = FALSE, ![s].phase = phase]
      PROVE  VaultInv'
  <2>1. PICK call \in CallKind : call = calls[s]
    BY <1>1
  <2> DEFINE next == [call EXCEPT !.document = vault, !.stale = FALSE, !.phase = phase]
  <2>2. /\ next \in CallKind /\ next.op = call.op /\ next.after = call.after
        /\ next.phase = phase /\ next.document = vault /\ next.key = call.key
    BY <1>1 DEF CallKind
  <2>3. calls' = [calls EXCEPT ![s] = next]
    BY <1>4, <2>1
  <2> HIDE DEF next
  <2>4. calls' \in [VaultCalls -> CallKind] /\ Went(s) /\ calls'[s] = next
    BY <1>1, <2>1, <2>2, <2>3, CallSet DEF Went
  <2>5. VaultKinds'
    BY <1>1, <2>4 DEF VaultKinds
  <2>6. CallFits(calls[s])'
    <3>1. call.op \in {"set", "delete"}
      BY <1>1, <1>4, <2>1 DEF CallFits, CallKind
    <3> QED
      BY <1>1, <1>4, <2>1, <2>2, <2>4, <3>1 DEF CallFits, Kept, Apart
  <2>7. ASSUME ~recovering PROVE OrderlyInv'
    <3>1. (KeyFits(calls[s]) /\ MemoFits(s) /\ Shown(calls[s]))'
      BY <1>1, <1>4, <2>1, <2>2, <2>4, <2>7
      DEF VaultInv, OrderlyInv, KeyFits, MemoFits, Shown, Holding, Migrating
    <3> QED
      BY <1>1, <1>4, <2>2, <2>4, <2>5, <2>6, <2>7, <3>1, OrderlyCalls DEF VaultInv, Migrating
  <2> QED
    BY <1>1, <2>4, <2>5, <2>6, <2>7, QuietCalls
<1>5. \/ Vault!Ends(s)
      \/ vault = Vault!NoVault /\ Vault!Goes(s, "vaultKey")
      \/ /\ vault # Vault!NoVault /\ vault.version # 1 /\ calls[s].op # "get"
         /\ calls' = [calls EXCEPT ![s].document = vault, ![s].stale = FALSE,
                             ![s].phase = IF calls[s].op = "set" THEN "entryKey" ELSE "write"]
  BY DEF Vault!Read
<1>6. vault # Vault!NoVault /\ vault.version # 1 => vault.version = 2
  BY <1>1 DEF VaultInv, FileFits, VaultKind
<1> QED
  BY <1>2, <1>3, <1>4, <1>5, <1>6

\* A loaded key is taken for the document made up, or for the new entry.
LEMMA LoadedCalls ==
  ASSUME VaultInv, NEW s \in VaultCalls, NEW k \in Nat \ {0},
         calls[s].phase \in {"vaultKey", "entryKey", "create", "fill"}, UNCHANGED legacyCopy,
         calls' = Vault!Loaded(s, calls, k)
  PROVE  /\ calls' \in [VaultCalls -> CallKind] /\ CallFits(calls[s])'
         /\ \/ Ended(s)
            \/ /\ Went(s) /\ calls'[s].phase \in {"entryKey", "write"}
               /\ calls'[s].document.keys \subseteq calls[s].document.keys \cup {k}
               /\ calls'[s].document.secrets = calls[s].document.secrets
               /\ calls'[s].key \in {calls[s].key, k} /\ calls'[s].stale = calls[s].stale
<1>1. calls[s] \in CallKind /\ CallFits(calls[s]) /\ VaultKinds
  BY DEF VaultInv, VaultKinds
<1>2. PICK call \in CallKind : call = calls[s]
  BY <1>1
<1>3. call.op \in {"get", "set", "delete"} /\ call.after = {}
  BY <1>1, <1>2 DEF CallFits, CallKind
<1>4. CASE call.op \in {"get", "delete"}
  <2>1. Vault!Ends(s)
    BY <1>2, <1>4 DEF Vault!Loaded, Vault!Ends
  <2> QED
    BY <1>1, <2>1, EndsHere, EndedFits
<1>5. CASE call.op = "set" /\ call.document = Vault!NoVault
  <2> DEFINE made == [Vault!NoVault EXCEPT !.version = 2, !.keys = {k}]
             next == [call EXCEPT !.document = made, !.phase = "entryKey"]
  <2>1. /\ made \in VaultKind /\ made.version = 2 /\ made.keys = {k}
        /\ made.secrets = Vault!NoVault.secrets
    <3>1. PICK none \in VaultKind : none = Vault!NoVault
      BY EmptyKinds
    <3>2. {k} \in SUBSET (Nat \ {0}) /\ 2 \in 0..2
      OBVIOUS
    <3> QED
      BY <3>1, <3>2 DEF VaultKind
  <2> HIDE DEF made
  <2>2. /\ next \in CallKind /\ next.op = call.op /\ next.after = call.after
        /\ next.phase = "entryKey" /\ next.document = made /\ next.key = call.key
    BY <2>1 DEF CallKind
  <2>3. next.stale = call.stale
    BY DEF CallKind
  <2>4. calls' = [calls EXCEPT ![s] = next]
    BY <1>2, <1>5 DEF Vault!Loaded, made
  <2> HIDE DEF next
  <2>5. calls' \in [VaultCalls -> CallKind] /\ Went(s) /\ calls'[s] = next
    BY <1>1, <1>2, <2>2, <2>4, CallSet DEF Went
  <2>6. CallFits(calls[s])'
    <3>1. ~\E r \in References : made.secrets[r] = Vault!LegacyValue
      BY <2>1, EmptyKinds DEF Vault!LegacyValue
    <3> QED
      BY <1>3, <1>5, <2>1, <2>2, <2>5, <3>1 DEF CallFits, Kept, Apart
  <2> QED
    BY <1>2, <1>5, <2>1, <2>2, <2>3, <2>5, <2>6
<1>6. CASE call.op = "set" /\ call.document # Vault!NoVault
  <2> DEFINE next == [call EXCEPT !.key = k, !.phase = "write"]
  <2>1. /\ next \in CallKind /\ next.op = call.op /\ next.after = call.after
        /\ next.phase = "write" /\ next.document = call.document /\ next.key = k
    BY DEF CallKind
  <2>2. next.stale = call.stale
    BY DEF CallKind
  <2>3. calls' = [calls EXCEPT ![s] = next]
    BY <1>2, <1>6 DEF Vault!Loaded
  <2> HIDE DEF next
  <2>4. calls' \in [VaultCalls -> CallKind] /\ Went(s) /\ calls'[s] = next
    BY <1>1, <1>2, <2>1, <2>3, CallSet DEF Went
  <2>5. CallFits(calls[s])'
    BY <1>1, <1>2, <1>3, <1>6, <2>1, <2>4 DEF CallFits, Kept, Apart
  <2> QED
    BY <1>2, <2>1, <2>2, <2>4, <2>5
<1> QED
  BY <1>3, <1>4, <1>5, <1>6

\* What a loaded key does to the invariant, with the key file.
LEMMA LoadedKeeps ==
  ASSUME VaultInv, NEW s \in VaultCalls, NEW k \in Nat \ {0},
         calls[s].phase \in {"vaultKey", "entryKey", "create", "fill"},
         calls' = Vault!Loaded(s, calls, k),
         UNCHANGED <<vault, legacyCopy, memo, values, recovering>>, keys' \in Nat,
         keyFile' \in Nat \cup {Vault!PartialKey},
         ~recovering => /\ keyFile' = k
                        /\ \/ keyFile = k
                           \/ keyFile = Vault!PartialKey /\ calls[s].phase = "fill"
  PROVE  VaultInv'
<1>1. /\ calls' \in [VaultCalls -> CallKind] /\ CallFits(calls[s])' /\ CallFits(calls[s])
      /\ \/ Ended(s)
         \/ /\ Went(s) /\ calls'[s].phase \in {"entryKey", "write"}
            /\ calls'[s].document.keys \subseteq calls[s].document.keys \cup {k}
            /\ calls'[s].document.secrets = calls[s].document.secrets
            /\ calls'[s].key \in {calls[s].key, k} /\ calls'[s].stale = calls[s].stale
  BY LoadedCalls DEF VaultInv
<1>2. VaultKinds'
  BY <1>1 DEF VaultInv, VaultKinds
<1>3. ASSUME ~recovering PROVE OrderlyInv'
  <2>1. \A t \in VaultCalls : t # s => keyFile = keyFile' \/ calls[t].phase # "fill"
    BY <1>3 DEF VaultInv, OrderlyInv
  <2>2. CASE Ended(s)
    BY <1>1, <1>2, <1>3, <2>1, <2>2, OrderlyCalls, EndedFits, EmptyKinds
    DEF VaultInv, Ended, Migrating
  <2>3. CASE Went(s) /\ ~Ended(s)
    <3>1. calls[s].document.keys \subseteq Nat \ {0} /\ calls[s].key \in Nat
      BY DEF VaultInv, VaultKinds, CallKind, VaultKind
    <3>2. KeyFits(calls[s]) /\ MemoFits(s) /\ Shown(calls[s])
      BY <1>3 DEF VaultInv, OrderlyInv
    <3>3. calls[s].document.keys \subseteq {k} /\ calls[s].key \in {Vault!NoKey, k}
      BY <1>3, <3>1, <3>2 DEF KeyFits, Vault!PartialKey, Vault!NoKey
    <3>4. KeyFits(calls[s])'
      BY <1>1, <1>3, <2>3, <3>3 DEF KeyFits
    <3>5. MemoFits(s)'
      BY <1>1, <2>3, <3>2 DEF MemoFits, Holding, Migrating
    <3>6. Shown(calls[s])'
      BY <1>1, <2>3, <3>2 DEF Shown, Holding, Went
    <3> QED
      BY <1>1, <1>2, <1>3, <2>1, <2>3, <3>4, <3>5, <3>6, OrderlyCalls DEF VaultInv, Migrating
  <2> QED
    BY <1>1, <2>2, <2>3
<1> QED
  BY <1>1, <1>2, <1>3, QuietCalls

\* loadKey: the key file is read, or created exclusively and then filled.
LEMMA LoadKeyKeeps ==
  ASSUME VaultInv, NEW s \in VaultCalls,
         Vault!LoadKey(s) \/ Vault!CreateKey(s) \/ Vault!FillKey(s)
  PROVE  VaultInv'
<1>1. /\ calls[s] \in CallKind /\ calls[s].phase \in {"vaultKey", "entryKey", "create", "fill"}
      /\ calls[s].after = {} /\ CallFits(calls[s]) /\ VaultKinds
      /\ UNCHANGED <<vault, legacyCopy, memo, values, recovering>>
      /\ keyFile \in {Vault!PartialKey} \cup Nat /\ keys \in Nat
  BY DEF VaultInv, VaultKinds, Vault!LoadKey, Vault!CreateKey, Vault!FillKey, Vault!In
<1>2. CASE Vault!Ends(s) /\ UNCHANGED <<keyFile, keys>>
  <2>1. calls' \in [VaultCalls -> CallKind] /\ Ended(s)
    BY <1>1, <1>2, EndsHere
  <2>2. VaultKinds'
    BY <1>1, <1>2, <2>1 DEF VaultKinds
  <2>3. ASSUME ~recovering PROVE OrderlyInv'
    BY <1>1, <1>2, <2>1, <2>2, <2>3, OrderlyCalls, EndedFits, EmptyKinds
    DEF VaultInv, Ended, Migrating
  <2> QED
    BY <1>1, <2>1, <2>2, <2>3, QuietCalls, EndedFits
<1>3. CASE calls' = Vault!Loaded(s, calls, keyFile) /\ keyFile > 0 /\ UNCHANGED <<keyFile, keys>>
  <2>1. keyFile \in Nat \ {0}
    BY <1>1, <1>3 DEF Vault!PartialKey
  <2> QED
    BY <1>1, <1>3, <2>1, LoadedKeeps
<1>4. ASSUME NEW phase \in {"create", "fill"}, Vault!Goes(s, phase), UNCHANGED keys,
             phase = "create" => keyFile' = keyFile,
             phase = "fill" => keyFile = Vault!NoKey /\ keyFile' = Vault!PartialKey
                               /\ calls[s].phase = "create",
             phase = "create" => \/ calls[s].phase = "vaultKey" \/ calls[s].phase = "entryKey"
      PROVE  VaultInv'
  <2>1. /\ calls' \in [VaultCalls -> CallKind] /\ Went(s) /\ calls'[s].phase = phase
        /\ calls'[s].document = calls[s].document /\ calls'[s].key = calls[s].key
        /\ calls'[s].stale = calls[s].stale
    BY <1>1, <1>4, GoesOn DEF Phases
  <2>2. VaultKinds'
    BY <1>1, <1>4, <2>1 DEF VaultKinds
  <2>3. CallFits(calls[s])'
    BY <1>1, <1>4, <2>1 DEF CallFits, Kept, Apart, Went
  <2>4. ASSUME ~recovering PROVE OrderlyInv'
    <3>1. calls[s].document.keys \subseteq Nat \ {0} /\ calls[s].key \in Nat
      BY <1>1 DEF CallKind, VaultKind
    <3>2. KeyFits(calls[s]) /\ MemoFits(s) /\ Shown(calls[s])
      BY <2>4 DEF VaultInv, OrderlyInv
    <3>3. KeyFits(calls[s])'
      BY <1>4, <2>1, <3>1, <3>2 DEF KeyFits, Vault!NoKey, Vault!PartialKey
    <3>4. MemoFits(s)' /\ Shown(calls[s])'
      BY <1>1, <2>1, <3>2 DEF MemoFits, Shown, Holding, Migrating, Went
    <3>5. phase = "fill" => \A t \in VaultCalls : calls[t].phase # "fill"
      BY <1>4, <2>4 DEF VaultInv, OrderlyInv, Vault!NoKey, Vault!PartialKey
    <3> QED
      BY <1>1, <1>4, <2>1, <2>2, <2>3, <2>4, <3>3, <3>4, <3>5, OrderlyCalls
      DEF VaultInv, Migrating
  <2> QED
    BY <1>1, <2>1, <2>2, <2>3, <2>4, QuietCalls
<1>5. CASE Vault!FillKey(s)
  <2>1. /\ keys + 1 \in Nat \ {0} /\ keys' = keys + 1 /\ calls[s].phase = "fill"
        /\ calls' = Vault!Loaded(s, calls, keys + 1)
        /\ keyFile' = IF keyFile = Vault!PartialKey THEN keys + 1 ELSE keyFile
    BY <1>1, <1>5 DEF Vault!FillKey, Vault!In
  <2>2. ~recovering => keyFile = Vault!PartialKey
    BY <2>1 DEF VaultInv, OrderlyInv
  <2> QED
    BY <1>1, <2>1, <2>2, LoadedKeeps
<1>6. CASE Vault!LoadKey(s)
  <2>1. /\ calls[s].phase \in {"vaultKey", "entryKey"} /\ UNCHANGED <<keyFile, keys>>
        /\ \/ calls' = Vault!Loaded(s, calls, keyFile) /\ keyFile > 0
           \/ Vault!Ends(s)
           \/ Vault!Goes(s, "create")
    BY <1>6 DEF Vault!LoadKey, Vault!In, Vault!Ends, Vault!Goes
  <2> QED
    BY <1>2, <1>3, <1>4, <2>1
<1>7. CASE Vault!CreateKey(s)
  <2>1. /\ calls[s].phase = "create" /\ UNCHANGED keys
        /\ \/ keyFile = Vault!NoKey /\ keyFile' = Vault!PartialKey /\ Vault!Goes(s, "fill")
           \/ /\ UNCHANGED keyFile
              /\ \/ calls' = Vault!Loaded(s, calls, keyFile) /\ keyFile > 0
                 \/ Vault!Ends(s)
    BY <1>7 DEF Vault!CreateKey, Vault!In, Vault!Ends
  <2> QED
    BY <1>2, <1>3, <1>4, <2>1
<1> QED
  BY <1>5, <1>6, <1>7

\* The vault changes hands in one step, by a call that nobody of its process
\* is beside.
LEMMA WrittenOrderly ==
  ASSUME VaultInv, OrderlyInv, NEW s \in VaultCalls, calls[s].op \in {"get", "set", "delete"},
         calls[s].phase \in {"migrate", "write"},
         Others(s), UNCHANGED keyFile, vault'.keys \subseteq {keyFile},
         calls'[s].op \in {calls[s].op, "none"}, calls'[s].phase \in {"idle", "read"},
         calls'[s].document = Vault!NoVault, calls'[s].key = Vault!NoKey,
         memo' = IF calls[s].phase = "migrate"
                 THEN [memo EXCEPT ![Vault!ProcessOf(s)] = "done"] ELSE memo,
         \A t \in VaultCalls :
           Vault!ProcessOf(t) # Vault!ProcessOf(s) /\ calls[t].phase \in Holding => calls'[t].stale
  PROVE  OrderlyInv'
<1>a. memo \in [Vault!Processes -> {"none", "running", "done", "failed"}]
      /\ \A t \in VaultCalls : Vault!ProcessOf(t) \in Vault!Processes
  BY DEF VaultInv, VaultKinds, Vault!ProcessOf, Vault!Processes
<1>1. ASSUME NEW t \in VaultCalls, t # s, Vault!ProcessOf(t) = Vault!ProcessOf(s)
      PROVE  /\ MemoFits(t)'
             /\ ~(calls[t].op \in {"set", "delete"} /\ calls[t].phase \in Holding)
  <2>1. calls'[t].phase = calls[t].phase /\ MemoFits(t) /\ MemoFits(s)
    BY <1>1 DEF OrderlyInv, Others
  <2>2. CASE calls[s].phase = "migrate"
    <3>1. memo[Vault!ProcessOf(s)] = "running"
      BY <2>1, <2>2 DEF MemoFits, Migrating
    <3>2. calls[t].phase \notin Migrating
      BY <1>1, <2>2 DEF OrderlyInv, Migrating
    <3>3. calls[t].phase \notin Holding \cup {"read"}
      BY <1>1, <2>1, <3>1 DEF MemoFits
    <3> QED  BY <2>1, <3>2, <3>3 DEF MemoFits
  <2>3. CASE calls[s].phase = "write"
    <3>1. MemoFits(t)'
      BY <2>1, <2>3, <1>a DEF MemoFits
    <3>2. ASSUME calls[t].op \in {"set", "delete"}, calls[t].phase \in Holding PROVE FALSE
      <4>1. CallFits(calls[s]) /\ CallFits(calls[t])
        BY DEF VaultInv
      <4>2. calls[s].after = {} /\ calls[t].after = {} /\ calls[s].op \in {"set", "delete"}
        BY <2>3, <3>2, <4>1 DEF CallFits, Holding
      <4> QED
        BY <1>1, <3>2, <4>2 DEF VaultInv, QueueInv, Vault!Mutating
    <3> QED  BY <3>1, <3>2
  <2> QED  BY <2>2, <2>3
<1>2. ASSUME NEW t \in VaultCalls, t # s, Vault!ProcessOf(t) # Vault!ProcessOf(s)
      PROVE  MemoFits(t)'
  BY <1>2, <1>a DEF MemoFits, OrderlyInv, Others
<1>3. ASSUME NEW t \in VaultCalls, t # s
      PROVE  /\ KeyFits(calls[t])' /\ Shown(calls[t])'
             /\ calls'[t].phase = "fill" => keyFile = Vault!PartialKey
             /\ calls'[t].phase # "archiveKey" /\ calls'[t].op = calls[t].op
             /\ calls'[t].phase = calls[t].phase
  <2>1. /\ calls'[t].op = calls[t].op /\ calls'[t].phase = calls[t].phase
        /\ calls'[t].document = calls[t].document /\ calls'[t].key = calls[t].key
        /\ KeyFits(calls[t]) /\ CallFits(calls[t])
        /\ calls[t].op # "recover" \/ calls[s].op = "none"
    BY <1>3 DEF OrderlyInv, Others, VaultInv
  <2>2. KeyFits(calls[t])'
    BY <2>1 DEF KeyFits
  <2>3. Shown(calls[t])'
    BY <1>1, <1>3, <2>1 DEF Shown
  <2> QED
    BY <2>1, <2>2, <2>3 DEF OrderlyInv, CallFits
<1>4. KeyFits(calls[s])' /\ MemoFits(s)' /\ Shown(calls[s])'
  <2>1. calls'[s].phase = "read" => memo'[Vault!ProcessOf(s)] = "done"
    BY <1>a DEF OrderlyInv, MemoFits, Holding
  <2> QED
    BY <2>1, EmptyKinds DEF KeyFits, MemoFits, Shown, Migrating, Holding, Vault!NoKey
<1>5. calls'[s].phase \notin Migrating \cup {"fill", "archiveKey"}
      /\ calls'[s].op # "recover" /\ calls[s].op # "none"
  BY DEF Migrating
<1>6. ASSUME NEW t \in VaultCalls, NEW u \in VaultCalls, t # u
      PROVE  /\ ~(calls'[t].phase = "fill" /\ calls'[u].phase = "fill")
             /\ calls'[t].op = "recover" => calls'[u].op = "none"
             /\ calls'[t].phase \in Migrating /\ calls'[u].phase \in Migrating
                  => Vault!ProcessOf(t) # Vault!ProcessOf(u)
  BY <1>3, <1>5, <1>6 DEF OrderlyInv
<1> QED
  BY <1>1, <1>2, <1>3, <1>4, <1>5, <1>6 DEF OrderlyInv

\* A v0.x vault whose copy is whole becomes a vault of version 2.
LEMMA MigrateKeeps ==
  ASSUME VaultInv, NEW s \in VaultCalls, Vault!Migrate(s)
  PROVE  VaultInv'
<1> DEFINE p == Vault!ProcessOf(s)
<1>1. /\ calls[s] \in CallKind /\ calls[s].phase = "migrate" /\ calls[s].after = {}
      /\ CallFits(calls[s]) /\ VaultKinds /\ p \in Vault!Processes /\ legacyCopy = "whole"
      /\ UNCHANGED <<keyFile, legacyCopy, values, keys, recovering>>
      /\ vault' = [calls[s].document EXCEPT !.version = 2]
      /\ memo' = [memo EXCEPT ![p] = "done"]
  BY DEF VaultInv, VaultKinds, CallFits, Vault!Migrate, Vault!In, Vault!ProcessOf, Vault!Processes
<1>2. /\ vault' \in VaultKind /\ vault'.version = 2 /\ vault'.keys = calls[s].document.keys
  <2>1. PICK d \in VaultKind : d = calls[s].document
    BY <1>1 DEF CallKind
  <2>2. [d EXCEPT !.version = 2] \in VaultKind /\ [d EXCEPT !.version = 2].version = 2
        /\ [d EXCEPT !.version = 2].keys = d.keys
    BY DEF VaultKind
  <2> QED  BY <1>1, <2>1, <2>2
<1> DEFINE others == Vault!Outdated(calls, s)
<1>3. /\ others \in [VaultCalls -> CallKind] /\ others[s] = calls[s]
      /\ \A t \in VaultCalls :
           /\ others[t].op = calls[t].op /\ others[t].phase = calls[t].phase
           /\ others[t].document = calls[t].document /\ others[t].key = calls[t].key
           /\ others[t].after = calls[t].after /\ (calls[t].stale => others[t].stale)
           /\ Vault!ProcessOf(t) # p /\ calls[t].phase \in Holding => others[t].stale
  BY <1>1, OutdatedCalls DEF VaultKinds
<1>4. PICK call \in CallKind : call = calls[s]
  BY <1>1
<1> DEFINE next == [call EXCEPT !.phase = "read", !.document = Vault!NoVault,
                                !.key = Vault!NoKey, !.stale = FALSE]
<1>5. /\ next \in CallKind /\ next.op = call.op /\ next.after = call.after
      /\ next.phase = "read" /\ next.document = Vault!NoVault /\ next.key = Vault!NoKey
  BY EmptyKinds DEF CallKind, Vault!NoKey
<1>6. calls' = [others EXCEPT ![s] = next]
  BY <1>3, <1>4 DEF Vault!Migrate
<1> HIDE DEF next, others
<1>7. /\ calls' \in [VaultCalls -> CallKind] /\ Went(s) /\ calls'[s] = next
      /\ \A t \in VaultCalls : t # s => calls'[t] = others[t]
  BY <1>1, <1>3, <1>4, <1>5, <1>6 DEF Went, Others
<1>8. VaultKinds'
  BY <1>1, <1>2, <1>7 DEF VaultKinds
<1>9. CallFits(calls[s])'
  BY <1>1, <1>4, <1>5, <1>7, EmptyKinds DEF CallFits, Kept, Apart
<1>10. FileFits'
  BY <1>1, <1>2 DEF FileFits, Kept
<1>11. ASSUME ~recovering PROVE OrderlyInv'
  <2>1. vault'.keys \subseteq {keyFile}
    BY <1>2, <1>11 DEF VaultInv, OrderlyInv, KeyFits
  <2>2. \A t \in VaultCalls :
          Vault!ProcessOf(t) # p /\ calls[t].phase \in Holding => calls'[t].stale
    BY <1>3, <1>7
  <2>3. calls[s].op \in {"get", "set", "delete"}
    BY <1>1 DEF CallFits, CallKind
  <2>4. calls'[s].op \in {calls[s].op, "none"} /\ calls'[s].phase \in {"idle", "read"}
        /\ calls'[s].document = Vault!NoVault /\ calls'[s].key = Vault!NoKey
    BY <1>4, <1>5, <1>7
  <2> QED
    BY <1>1, <1>7, <1>11, <2>1, <2>2, <2>3, <2>4, WrittenOrderly DEF VaultInv, Went
<1> QED
  BY <1>1, <1>7, <1>8, <1>9, <1>10, <1>11, OtherCalls DEF VaultInv

\* What a write leaves: the document the call read, with its own secret changed.
Wrote(s) ==
  LET c == calls[s]
      v == IF c.op = "set" THEN values + 1 ELSE 0 IN
  /\ vault' = [c.document EXCEPT !.secrets[c.ref] = v,
                                 !.keys = @ \cup ({c.key} \ {Vault!NoKey})]
  /\ calls' = Vault!EndedIn(Vault!Outdated(calls, s), s)
  /\ values' = IF c.op = "set" THEN values + 1 ELSE values
\* The vault after it shows what the call had read, but for its own reference.
LEMMA WriteFacts ==
  ASSUME VaultInv, NEW s \in VaultCalls, calls[s].phase = "write", Wrote(s)
  PROVE  /\ vault' \in VaultKind /\ vault'.version = 2
         /\ vault'.keys \subseteq calls[s].document.keys \cup ({calls[s].key} \ {Vault!NoKey})
         /\ \A r \in References \ {calls[s].ref} : vault'.secrets[r] = calls[s].document.secrets[r]
         /\ \A r \in References : vault'.secrets[r] = Vault!LegacyValue
              => calls[s].document.secrets[r] = Vault!LegacyValue
         /\ values' \in Nat \ {0}
         /\ \A r \in References :
              vault'.secrets[r] <= values' \/ vault'.secrets[r] = calls[s].document.secrets[r]
         /\ calls' = Vault!EndedIn(Vault!Outdated(calls, s), s)
<1>1. /\ calls[s] \in CallKind /\ calls[s].phase = "write" /\ CallFits(calls[s])
      /\ values \in Nat \ {0}
  BY DEF VaultInv, VaultKinds
<1>2. PICK call \in CallKind : call = calls[s]
  BY <1>1
<1>3. call.document \in VaultKind /\ call.key \in Nat /\ call.document.version = 2
  BY <1>1, <1>2 DEF CallKind, CallFits
<1> DEFINE v == IF call.op = "set" THEN values + 1 ELSE 0
           d == [call.document EXCEPT !.secrets[call.ref] = v,
                                      !.keys = @ \cup ({call.key} \ {Vault!NoKey})]
<1>4. /\ v \in Nat /\ v # Vault!LegacyValue
      /\ v <= IF call.op = "set" THEN values + 1 ELSE values
  BY <1>1 DEF Vault!LegacyValue
<1>5. /\ vault' = d
      /\ values' = IF call.op = "set" THEN values + 1 ELSE values
      /\ calls' = Vault!EndedIn(Vault!Outdated(calls, s), s)
  BY <1>2 DEF Wrote
<1> HIDE DEF v
<1>6. d.version = 2 /\ d.keys = call.document.keys \cup ({call.key} \ {Vault!NoKey})
      /\ d.secrets = [call.document.secrets EXCEPT ![call.ref] = v]
  BY <1>3 DEF VaultKind
<1>7. d \in VaultKind
  <2>1. PICK e \in VaultKind : e = call.document
    BY <1>3
  <2> DEFINE held == e.keys \cup ({call.key} \ {Vault!NoKey})
             written == [e.secrets EXCEPT ![call.ref] = v]
  <2>2. held \in SUBSET (Nat \ {0})
    BY <1>3, <2>1 DEF VaultKind, Vault!NoKey
  <2>3. written \in [References -> Nat]
    BY <1>4 DEF VaultKind
  <2>4. d = [e EXCEPT !.secrets = written, !.keys = held]
    BY <2>1
  <2> HIDE DEF d, held, written
  <2>5. [e EXCEPT !.secrets = written, !.keys = held] \in VaultKind
    BY <2>2, <2>3 DEF VaultKind
  <2> QED
    BY <2>4, <2>5
<1>8. \A r \in References : d.secrets[r] = IF r = call.ref THEN v ELSE call.document.secrets[r]
  BY <1>3, <1>6 DEF VaultKind
<1> HIDE DEF d
<1>9. values' \in Nat \ {0}
  BY <1>1, <1>5
<1> QED
  BY <1>2, <1>4, <1>5, <1>6, <1>7, <1>8, <1>9

\* writeVault: who had read the vault in the other process is now out of date.
LEMMA WriteKeeps ==
  ASSUME VaultInv, NEW s \in VaultCalls, Vault!Write(s)
  PROVE  VaultInv'
<1>1. /\ calls[s] \in CallKind /\ calls[s].phase = "write" /\ calls[s].after = {}
      /\ CallFits(calls[s]) /\ VaultKinds
      /\ UNCHANGED <<keyFile, legacyCopy, memo, keys, recovering>>
  BY DEF VaultInv, VaultKinds, Vault!Write, Vault!In
<1>2. CASE Vault!Ends(s) /\ vault' = vault /\ values' = values
  <2>1. calls' \in [VaultCalls -> CallKind] /\ Ended(s)
    BY <1>1, <1>2, EndsHere
  <2>2. VaultKinds'
    BY <1>1, <1>2, <2>1 DEF VaultKinds
  <2>3. ASSUME ~recovering PROVE OrderlyInv'
    BY <1>1, <1>2, <2>1, <2>2, <2>3, OrderlyCalls, EndedFits, EmptyKinds
    DEF VaultInv, Ended, Migrating
  <2> QED
    BY <1>1, <1>2, <2>1, <2>2, <2>3, QuietCalls, EndedFits
<1>3. CASE Wrote(s)
  <2>1. /\ vault' \in VaultKind /\ vault'.version = 2 /\ values' \in Nat \ {0}
        /\ vault'.keys \subseteq calls[s].document.keys \cup ({calls[s].key} \ {Vault!NoKey})
        /\ \A r \in References : vault'.secrets[r] = Vault!LegacyValue
             => calls[s].document.secrets[r] = Vault!LegacyValue
        /\ calls' = Vault!EndedIn(Vault!Outdated(calls, s), s)
    BY <1>1, <1>3, WriteFacts
  <2> DEFINE others == Vault!Outdated(calls, s)
  <2>2. /\ others \in [VaultCalls -> CallKind] /\ others[s] = calls[s]
        /\ \A t \in VaultCalls :
             /\ others[t].op = calls[t].op /\ others[t].phase = calls[t].phase
             /\ others[t].document = calls[t].document /\ others[t].key = calls[t].key
             /\ others[t].after = calls[t].after /\ (calls[t].stale => others[t].stale)
             /\ Vault!ProcessOf(t) # Vault!ProcessOf(s) /\ calls[t].phase \in Holding
                  => others[t].stale
    BY <1>1, OutdatedCalls DEF VaultKinds
  <2>3. calls' = Vault!EndedIn(others, s)
    BY <2>1
  <2> HIDE DEF others
  <2>4. /\ calls' \in [VaultCalls -> CallKind] /\ Ended(s)
        /\ \A t \in VaultCalls : t # s => calls'[t].stale = others[t].stale
    <3>1. /\ calls' \in [VaultCalls -> CallKind] /\ calls'[s] = Vault!NoCall
          /\ \A t \in VaultCalls : t # s =>
               /\ calls'[t].op = others[t].op /\ calls'[t].phase = others[t].phase
               /\ calls'[t].document = others[t].document
               /\ calls'[t].key = others[t].key /\ calls'[t].stale = others[t].stale
               /\ calls'[t].after = others[t].after \ {s}
      BY <2>2, <2>3, EndedCalls
    <3>2. \A t \in VaultCalls : t # s =>
            (calls[t].stale => calls'[t].stale) /\ calls'[t].after = calls[t].after \ {s}
      BY <2>2, <3>1
    <3>3. Others(s)
      BY <2>2, <3>1, <3>2 DEF Others
    <3> QED
      BY <3>1, <3>2, <3>3 DEF Ended
  <2>5. VaultKinds'
    BY <1>1, <2>1, <2>4 DEF VaultKinds
  <2>6. FileFits'
    BY <1>1, <2>1 DEF FileFits, Kept, CallFits
  <2>7. ASSUME ~recovering PROVE OrderlyInv'
    <3>1. vault'.keys \subseteq {keyFile}
      BY <2>1, <2>7 DEF VaultInv, OrderlyInv, KeyFits
    <3>2. \A t \in VaultCalls : Vault!ProcessOf(t) # Vault!ProcessOf(s) /\ calls[t].phase \in Holding
            => calls'[t].stale
      BY <2>2, <2>4
    <3>3. calls[s].op \in {"get", "set", "delete"}
      BY <1>1 DEF CallFits
    <3>4. calls'[s].op = "none" /\ calls'[s].phase = "idle"
          /\ calls'[s].document = Vault!NoVault /\ calls'[s].key = Vault!NoKey
      BY <2>4, EmptyKinds DEF Ended, Vault!NoKey
    <3> QED
      BY <1>1, <2>4, <2>7, <3>1, <3>2, <3>3, <3>4, WrittenOrderly DEF VaultInv, Ended
  <2> QED
    BY <1>1, <2>4, <2>5, <2>6, <2>7, OtherCalls, EndedFits DEF VaultInv
<1> QED
  BY <1>2, <1>3 DEF Vault!Write, Wrote

\* A recovery that has anybody beside it gives the rest up.
LEMMA AskKeeps ==
  ASSUME VaultInv, NEW s \in VaultCalls,
         \/ \E op \in {"set", "delete"} : \E r \in References : Vault!Ask(s, op, r)
         \/ Vault!Ask(s, "get", "none") \/ Vault!Recover(s)
  PROVE  VaultInv'
<1>1. PICK op \in {"get", "set", "delete", "recover"}, r \in References \cup {"none"} :
        IF op = "recover" THEN Vault!Recover(s) ELSE Vault!Ask(s, op, r)
  OBVIOUS
<1> DEFINE after == IF op = "recover" THEN {} ELSE Vault!Earlier(s)
           phase == IF op = "recover" THEN "archiveVault" ELSE "init"
<1>2. after \in SUBSET VaultCalls /\ phase \in {"init", "archiveVault"}
  BY DEF Vault!Earlier
<1>3. PICK call \in CallKind : /\ calls' = [calls EXCEPT ![s] = call]
                               /\ call.op = op /\ call.phase = phase /\ call.after = after
                               /\ call.document = Vault!NoVault /\ call.key = Vault!NoKey
  <2>1. PICK none \in CallKind : none = Vault!NoCall
    BY EmptyKinds
  <2>2. none.after = {} /\ none.document = Vault!NoVault /\ none.key = Vault!NoKey
    BY <2>1, EmptyKinds DEF Vault!NoKey
  <2> HIDE DEF after, phase
  <2>3. LET e == [none EXCEPT !.op = op, !.phase = phase, !.ref = r, !.after = after] IN
        /\ e \in CallKind /\ e.op = op /\ e.phase = phase /\ e.after = after
        /\ e.document = none.document /\ e.key = none.key
    BY <1>2 DEF CallKind
  <2>4. LET e == [none EXCEPT !.op = op, !.phase = phase] IN
        /\ e \in CallKind /\ e.op = op /\ e.phase = phase /\ e.after = none.after
        /\ e.document = none.document /\ e.key = none.key
    BY <1>2 DEF CallKind
  <2>5. CASE op = "recover"
    <3>1. after = {} /\ calls' = [calls EXCEPT ![s] = [none EXCEPT !.op = op, !.phase = phase]]
      BY <1>1, <2>1, <2>5 DEF after, phase, Vault!Recover
    <3> QED  BY <2>2, <2>4, <3>1
  <2>6. CASE op # "recover"
    <3>1. calls' = [calls EXCEPT ![s] = [none EXCEPT !.op = op, !.phase = phase, !.ref = r,
                                                     !.after = after]]
      BY <1>1, <2>1, <2>6 DEF after, phase, Vault!Ask
    <3> QED  BY <2>2, <2>3, <3>1
  <2> QED  BY <2>5, <2>6
<1>4. /\ UNCHANGED <<vault, keyFile, legacyCopy, memo, values, keys>> /\ recovering' \in BOOLEAN
      /\ VaultKinds /\ calls[s].op = "none"
      /\ ~recovering' => /\ ~recovering
                         /\ \A t \in VaultCalls : calls[t].op # "recover"
                         /\ op = "recover" => \A t \in VaultCalls : t # s => calls[t].op = "none"
  BY <1>1 DEF VaultInv, VaultKinds, Vault!Ask, Vault!Recover, Vault!Busy, Vault!NextSlot
<1>5. calls' \in [VaultCalls -> CallKind] /\ calls'[s] = call
      /\ \A t \in VaultCalls : t # s => calls'[t] = calls[t]
  BY <1>3, <1>4 DEF VaultKinds
<1>6. VaultKinds'
  BY <1>4, <1>5 DEF VaultKinds
<1>7. FileFits' /\ \A t \in VaultCalls : CallFits(calls[t])'
  <2>1. Kept(Vault!NoVault)'
    BY EmptyKinds DEF Kept
  <2>2. CallFits(calls[s])'
    BY <1>2, <1>3, <1>5, <2>1 DEF CallFits, Apart
  <2>3. ASSUME NEW t \in VaultCalls, t # s PROVE CallFits(calls[t])'
    BY <1>4, <1>5, <2>3 DEF VaultInv, CallFits, Kept
  <2> QED
    BY <1>4, <2>2, <2>3 DEF VaultInv, FileFits, Kept
<1>8. QueueInv'
  <2>1. ASSUME NEW t \in VaultCalls, t # s, op \in {"set", "delete"}, Vault!Mutating(t),
               Vault!ProcessOf(t) = Vault!ProcessOf(s)
        PROVE  t \in calls'[s].after
    BY <1>3, <1>5, <2>1 DEF Vault!Earlier
  <2> QED
    BY <1>3, <1>5, <2>1 DEF VaultInv, QueueInv, Vault!Mutating
<1>9. ASSUME ~recovering' PROVE OrderlyInv'
  <2>1. OrderlyInv
    BY <1>4, <1>9 DEF VaultInv
  <2>2. /\ KeyFits(calls[s])' /\ MemoFits(s)' /\ Shown(calls[s])'
        /\ calls'[s].phase \notin Migrating \cup {"fill", "archiveKey"}
    BY <1>2, <1>3, <1>5, EmptyKinds DEF KeyFits, MemoFits, Shown, Migrating, Holding
  <2>3. ASSUME NEW t \in VaultCalls, t # s
        PROVE  /\ KeyFits(calls[t])' /\ MemoFits(t)' /\ Shown(calls[t])'
               /\ calls'[t].phase = "fill" => keyFile' = Vault!PartialKey
               /\ calls'[t].phase # "archiveKey"
    BY <1>4, <1>5, <1>9, <2>1, <2>3
    DEF OrderlyInv, KeyFits, MemoFits, Shown, VaultInv, CallFits
  <2>4. ASSUME NEW t \in VaultCalls, NEW u \in VaultCalls, t # u
        PROVE  /\ ~(calls'[t].phase = "fill" /\ calls'[u].phase = "fill")
               /\ calls'[t].op = "recover" => calls'[u].op = "none"
               /\ calls'[t].phase \in Migrating /\ calls'[u].phase \in Migrating
                    => Vault!ProcessOf(t) # Vault!ProcessOf(u)
    BY <1>3, <1>4, <1>5, <1>9, <2>1, <2>2, <2>4 DEF OrderlyInv
  <2> QED
    BY <1>4, <2>1, <2>2, <2>3, <2>4 DEF OrderlyInv
<1> QED
  BY <1>6, <1>7, <1>8, <1>9 DEF VaultInv

\* recoverLocked: the vault, then its key are archived.
LEMMA ArchiveKeeps ==
  ASSUME VaultInv, NEW s \in VaultCalls, Vault!ArchiveVault(s) \/ Vault!ArchiveKey(s)
  PROVE  VaultInv'
<1>1. /\ calls[s] \in CallKind /\ calls[s].after = {} /\ CallFits(calls[s]) /\ VaultKinds
      /\ calls[s].phase \in {"archiveVault", "archiveKey"} /\ recovering' \in BOOLEAN
      /\ UNCHANGED <<legacyCopy, values, keys>>
      /\ ~recovering' => ~recovering /\ \A t \in VaultCalls : t # s => calls[t].op = "none"
  BY DEF VaultInv, VaultKinds, Vault!ArchiveVault, Vault!ArchiveKey, Vault!In, Vault!Busy
<1>2. /\ calls' \in [VaultCalls -> CallKind] /\ CallFits(calls[s])' /\ vault' \in VaultKind
      /\ \/ /\ calls[s].phase = "archiveVault"
            /\ Went(s) /\ calls'[s].phase = "archiveKey" /\ vault' = Vault!NoVault
            /\ calls'[s].document = Vault!NoVault /\ calls'[s].key = Vault!NoKey
            /\ UNCHANGED <<keyFile, memo>>
         \/ /\ calls[s].phase = "archiveKey"
            /\ Ended(s) /\ vault' = vault /\ keyFile' = Vault!NoKey
            /\ memo' = [memo EXCEPT ![Vault!ProcessOf(s)] = "none"]
  <2>1. CASE Vault!ArchiveVault(s)
    <3>1. /\ calls' \in [VaultCalls -> CallKind] /\ Went(s) /\ calls'[s].phase = "archiveKey"
          /\ calls'[s].document = calls[s].document /\ calls'[s].key = calls[s].key
      BY <1>1, <2>1, GoesOn DEF Phases, Vault!ArchiveVault
    <3> QED
      BY <1>1, <2>1, <3>1, EmptyKinds DEF CallFits, Kept, Apart, Went, Vault!ArchiveVault, Vault!In
  <2>2. CASE Vault!ArchiveKey(s)
    BY <1>1, <2>2, EndsHere, EndedFits DEF Vault!ArchiveKey, Vault!In, VaultKinds
  <2> QED  BY <2>1, <2>2
<1>3. VaultKinds'
  BY <1>1, <1>2 DEF VaultKinds, Vault!NoKey
<1>4. FileFits'
  BY <1>1, <1>2, EmptyKinds DEF VaultInv, FileFits, Kept
<1>5. ASSUME ~recovering' PROVE OrderlyInv'
  <2>1. OrderlyInv
    BY <1>1, <1>5 DEF VaultInv
  <2>2. ASSUME NEW t \in VaultCalls, t # s
        PROVE  /\ calls'[t].op = "none" /\ calls'[t].phase = "idle"
               /\ calls'[t].document = Vault!NoVault /\ calls'[t].key = Vault!NoKey
    BY <1>1, <1>2, <1>5, <2>2 DEF Went, Ended, Others, VaultInv, CallFits, Apart
  <2>3. /\ calls'[s].op \in {"recover", "none"} /\ calls'[s].phase \in {"archiveKey", "idle"}
        /\ calls'[s].document = Vault!NoVault /\ calls'[s].key = Vault!NoKey
    BY <1>1, <1>2, EmptyKinds DEF Went, Ended, CallFits, Vault!NoKey
  <2>4. vault' = Vault!NoVault
    BY <1>2, <2>1 DEF OrderlyInv
  <2>5. ASSUME NEW t \in VaultCalls
        PROVE  /\ KeyFits(calls[t])' /\ MemoFits(t)' /\ Shown(calls[t])'
               /\ calls'[t].phase \notin Migrating \cup {"fill"}
    BY <2>2, <2>3, EmptyKinds DEF KeyFits, MemoFits, Shown, Migrating, Holding
  <2> QED
    BY <2>2, <2>3, <2>4, <2>5, EmptyKinds DEF OrderlyInv
<1> QED
  BY <1>1, <1>2, <1>3, <1>4, <1>5, OtherCalls DEF VaultInv

\* A process that ends takes its calls and its memory along.
LEMMA ProcessEndsKeeps ==
  ASSUME VaultInv, NEW p \in Vault!Processes, Vault!ProcessEnds(p)
  PROVE  VaultInv'
<1>1. /\ VaultKinds /\ UNCHANGED <<vault, keyFile, legacyCopy, values, keys, recovering>>
      /\ calls' = [s \in VaultCalls |-> IF Vault!ProcessOf(s) = p THEN Vault!NoCall ELSE calls[s]]
      /\ memo' = [memo EXCEPT ![p] = "none"]
  BY DEF VaultInv, Vault!ProcessEnds
<1>2. /\ calls' \in [VaultCalls -> CallKind]
      /\ \A s \in VaultCalls : \/ Vault!ProcessOf(s) = p /\ calls'[s] = Vault!NoCall
                               \/ Vault!ProcessOf(s) # p /\ calls'[s] = calls[s]
  BY <1>1, EmptyKinds DEF VaultKinds
<1>3. VaultKinds'
  BY <1>1, <1>2 DEF VaultKinds
<1>4. ASSUME NEW s \in VaultCalls PROVE CallFits(calls[s])'
  <2>1. CASE calls'[s] = calls[s]
    BY <1>1, <2>1 DEF VaultInv, CallFits, Kept
  <2>2. CASE calls'[s] = Vault!NoCall
    BY <2>2, EmptyKinds DEF CallFits, Kept, Apart, Vault!NoKey
  <2> QED  BY <1>2, <2>1, <2>2
<1>5. FileFits'
  BY <1>1 DEF VaultInv, FileFits, Kept
<1>6. QueueInv'
  BY <1>2, EmptyKinds DEF VaultInv, QueueInv, Vault!Mutating
<1>7. ASSUME ~recovering' PROVE OrderlyInv'
  <2>1. OrderlyInv
    BY <1>1, <1>7 DEF VaultInv
  <2>2. ASSUME NEW s \in VaultCalls
        PROVE  /\ (KeyFits(calls[s]) /\ MemoFits(s) /\ Shown(calls[s]))'
               /\ calls'[s].phase = "fill" => keyFile' = Vault!PartialKey
               /\ calls'[s].phase = "archiveKey" => vault' = Vault!NoVault
    <3>1. CASE Vault!ProcessOf(s) # p /\ calls'[s] = calls[s]
      BY <1>1, <2>1, <3>1 DEF OrderlyInv, KeyFits, MemoFits, Shown, VaultKinds
    <3>2. CASE calls'[s] = Vault!NoCall
      BY <3>2, EmptyKinds DEF KeyFits, MemoFits, Shown, Migrating, Holding, Vault!NoKey
    <3> QED  BY <1>2, <3>1, <3>2
  <2>3. ASSUME NEW s \in VaultCalls, NEW t \in VaultCalls, s # t
        PROVE  /\ ~(calls'[s].phase = "fill" /\ calls'[t].phase = "fill")
               /\ calls'[s].op = "recover" => calls'[t].op = "none"
               /\ calls'[s].phase \in Migrating /\ calls'[t].phase \in Migrating
                    => Vault!ProcessOf(s) # Vault!ProcessOf(t)
    BY <1>2, <2>1, <2>3, EmptyKinds DEF OrderlyInv, Migrating
  <2> QED
    BY <1>1, <2>1, <2>2, <2>3 DEF OrderlyInv
<1> QED
  BY <1>3, <1>4, <1>5, <1>6, <1>7 DEF VaultInv

\* Every step of the server and of CLI commands on the vault keeps it.
LEMMA VaultStep ==
  ASSUME VaultInv, [Vault!VaultNext]_Vault!vaultVars
  PROVE  VaultInv'
<1>1. CASE UNCHANGED Vault!vaultVars
  <2>1. /\ UNCHANGED <<vault, keyFile, legacyCopy, calls, memo, values, keys, recovering>>
    BY <1>1 DEF Vault!vaultVars
  <2> QED
    BY <2>1 DEF VaultInv, VaultKinds, CallFits, FileFits, Kept, QueueInv, OrderlyInv, KeyFits,
                MemoFits, Shown, Vault!Mutating
<1> QED
  BY <1>1, InitializedKeeps, InitializeKeeps, CopyKeeps, MigrateKeeps, ReadKeeps, LoadKeyKeeps,
     WriteKeeps, AskKeeps, ArchiveKeeps, ProcessEndsKeeps
  DEF Vault!VaultNext

\* There is no vault at first, or one of v0.x with its key.
LEMMA VaultBegins ==
  ASSUME Vault!VaultInit
  PROVE  VaultInv
<1>1. /\ calls = [s \in VaultCalls |-> Vault!NoCall] /\ values = 1 /\ legacyCopy = "none"
      /\ memo = [p \in Vault!Processes |-> "none"] /\ recovering = FALSE
      /\ \/ vault = Vault!NoVault /\ keyFile = 0 /\ keys = 0
         \/ vault = Vault!Legacy /\ keyFile = 1 /\ keys = 1
  BY DEF Vault!VaultInit, Vault!LegacyValue, Vault!NoKey
<1>2. /\ Vault!Legacy \in VaultKind /\ Vault!Legacy.version = 1 /\ Vault!Legacy.keys = {1}
  BY DEF Vault!Legacy, VaultKind, Vault!LegacyValue
<1>3. VaultKinds
  <2>1. calls \in [VaultCalls -> CallKind] /\ vault \in VaultKind
    BY <1>1, <1>2, EmptyKinds
  <2>2. memo \in [Vault!Processes -> {"none", "running", "done", "failed"}]
    BY <1>1
  <2>3. keyFile \in Nat /\ keys \in Nat /\ values \in Nat \ {0}
    BY <1>1
  <2> QED
    BY <1>1, <2>1, <2>2, <2>3 DEF VaultKinds
<1>4. FileFits
  BY <1>1, <1>2, EmptyKinds DEF FileFits, Kept
<1>5. ASSUME NEW s \in VaultCalls
      PROVE  /\ CallFits(calls[s]) /\ KeyFits(calls[s]) /\ MemoFits(s) /\ Shown(calls[s])
             /\ calls[s].phase \notin {"fill", "archiveKey"} \cup Migrating /\ calls[s].op = "none"
  BY <1>1, EmptyKinds
  DEF CallFits, Kept, Apart, KeyFits, MemoFits, Shown, Migrating, Holding, Vault!NoKey
<1>6. QueueInv /\ OrderlyInv
  BY <1>1, <1>2, <1>5, EmptyKinds DEF QueueInv, OrderlyInv, Vault!Mutating
<1> QED
  BY <1>3, <1>4, <1>5, <1>6 DEF VaultInv

\* VaultReadable is part of what FileFits and OrderlyInv say of the vault.
LEMMA VaultHolds ==
  ASSUME VaultInv
  PROVE  Vault!VaultReadable
BY DEF VaultInv, OrderlyInv, FileFits, Kept, Vault!VaultReadable

\* Only the write of a call changes the vault as the call ends.
LEMMA SecretsKeptStep ==
  ASSUME VaultInv, [Vault!VaultNext]_Vault!vaultVars, NEW s \in VaultCalls,
         Vault!In(s, "write"), calls'[s] = Vault!NoCall, vault' # vault, ~calls[s].stale, ~recovering,
         NEW r \in References \ {calls[s].ref}
  PROVE  vault'.secrets[r] = vault.secrets[r]
<1>1. /\ calls[s].phase = "write" /\ calls[s].op \in {"set", "delete"} /\ VaultKinds
      /\ Shown(calls[s])
  BY DEF VaultInv, CallFits, OrderlyInv, Vault!In
<1>2. calls'[s].op # calls[s].op
  BY <1>1, EmptyKinds
<1>3. ASSUME NEW t \in VaultCalls, Vault!Migrate(t) PROVE FALSE
  <2>1. t # s
    BY <1>1, <1>3 DEF Vault!Migrate, Vault!In
  <2>2. calls'[s].op = Vault!Outdated(calls, t)[s].op
    BY <1>1, <1>3, <2>1, OutdatedCalls DEF Vault!Migrate, VaultKinds
  <2> QED
    BY <1>1, <1>2, <2>2, OutdatedCalls DEF VaultKinds
<1>4. ASSUME NEW t \in VaultCalls, Vault!ArchiveVault(t) PROVE FALSE
  <2>1. t # s
    BY <1>1, <1>4 DEF Vault!ArchiveVault, Vault!In
  <2> QED
    BY <1>1, <1>2, <1>4, <2>1 DEF Vault!ArchiveVault, Vault!Goes, VaultKinds
<1>5. ASSUME NEW t \in VaultCalls, t # s, Vault!Write(t) PROVE FALSE
  <2> DEFINE others == Vault!Outdated(calls, t)
  <2>1. CASE calls' = Vault!EndedIn(others, t)
    <3>1. others \in [VaultCalls -> CallKind] /\ others[s].op = calls[s].op
      BY <1>1, OutdatedCalls DEF VaultKinds
    <3> HIDE DEF others
    <3>2. calls'[s].op = others[s].op
      BY <1>5, <2>1, <3>1, EndedCalls
    <3> QED  BY <1>2, <3>1, <3>2
  <2> QED
    BY <1>5, <2>1 DEF Vault!Write
<1>6. Vault!Write(s)
  BY <1>3, <1>4, <1>5
  DEF Vault!VaultNext, Vault!vaultVars, Vault!Ask, Vault!Initialized, Vault!Initialize,
      Vault!CopyLegacy, Vault!LegacyCopied, Vault!Read, Vault!LoadKey, Vault!CreateKey,
      Vault!FillKey, Vault!Recover, Vault!ArchiveKey, Vault!ProcessEnds
<1>7. Wrote(s)
  BY <1>6 DEF Vault!Write, Wrote
<1>8. vault'.secrets[r] = calls[s].document.secrets[r]
  BY <1>1, <1>7, WriteFacts
<1>9. calls[s].document.secrets = vault.secrets
  BY <1>1 DEF Shown, Holding
<1> QED  BY <1>8, <1>9

\* Every value set so far was asked for, and the sets that are under way are
\* still to come; what a file or a call holds is one of those values and keys.
Setting == {s \in VaultCalls : calls[s].op = "set"}
Held(d) == (\A k \in d.keys : k <= keys) /\ \A r \in References : d.secrets[r] <= values
VaultCounts ==
  /\ asked \in 0..CallBound /\ vaultCrashes \in 0..VaultCrashBound
  /\ values + Cardinality(Setting) <= asked + 1
  /\ keys <= KeyBound /\ keyFile <= keys
  /\ Held(vault) /\ \A s \in VaultCalls : Held(calls[s].document) /\ calls[s].key <= keys

\* Sets under way can be counted.
LEMMA SettingCounts == IsFiniteSet(Setting) /\ Cardinality(Setting) \in Nat
<1>1. Setting \subseteq VaultCalls
  BY DEF Setting
<1> QED  BY <1>1, VaultAssumption, FS_Subset, FS_CardinalityType

\* A step of one slot that sets nothing.
LEMMA SlotCounts ==
  ASSUME VaultKinds, VaultKinds', VaultCounts, NEW s \in VaultCalls, Others(s),
         calls'[s].op \in {calls[s].op, "none"}, UNCHANGED <<asked, values, vaultCrashes>>,
         keys <= keys', keys' <= KeyBound, keyFile' <= keys', Held(vault)',
         Held(calls[s].document)', calls'[s].key <= keys'
  PROVE  VaultCounts'
<1>1. Setting' \subseteq Setting
  BY DEF Setting, Others
<1>2. Cardinality(Setting') <= Cardinality(Setting) /\ Cardinality(Setting') \in Nat
      /\ Cardinality(Setting) \in Nat
  BY <1>1, SettingCounts, FS_Subset, FS_CardinalityType
<1>3. keys \in Nat /\ keys' \in Nat /\ values \in Nat
  BY DEF VaultKinds
<1>4. ASSUME NEW t \in VaultCalls, t # s
      PROVE  Held(calls[t].document)' /\ calls'[t].key <= keys'
  <2>1. calls'[t].document = calls[t].document /\ calls'[t].key = calls[t].key
    BY <1>4 DEF Others
  <2>2. calls[t] \in CallKind /\ Held(calls[t].document) /\ calls[t].key <= keys
    BY DEF VaultCounts, VaultKinds
  <2>3. \A k \in calls[t].document.keys : k \in Nat
    BY <2>2 DEF CallKind, VaultKind
  <2>4. calls[t].key \in Nat
    BY <2>2 DEF CallKind
  <2> QED  BY <1>3, <2>1, <2>2, <2>3, <2>4 DEF Held
<1>5. asked' + 1 >= values' + Cardinality(Setting')
  BY <1>2, <1>3 DEF VaultCounts
<1> QED  BY <1>2, <1>3, <1>4, <1>5 DEF VaultCounts

\* An empty vault holds nothing that was not set.
LEMMA EmptyHeld == ASSUME values \in Nat PROVE Held(Vault!NoVault)
BY EmptyKinds DEF Held

\* The same without a key, and with the vault as it was.
LEMMA QuietCounts ==
  ASSUME VaultKinds, VaultKinds', VaultCounts, NEW s \in VaultCalls, Went(s) \/ Ended(s),
         UNCHANGED <<asked, values, vaultCrashes, keys, keyFile, vault>>,
         Went(s) => Held(calls[s].document)' /\ calls'[s].key <= keys
  PROVE  VaultCounts'
<1>1. values \in Nat /\ keys \in Nat
  BY DEF VaultKinds
<1>2. /\ Others(s) /\ calls'[s].op \in {calls[s].op, "none"}
      /\ Held(calls[s].document)' /\ calls'[s].key <= keys'
  <2>1. CASE Went(s)
    BY <2>1 DEF Went
  <2>2. CASE Ended(s)
    <3>1. calls'[s].document = Vault!NoVault /\ calls'[s].key = 0 /\ calls'[s].op = "none"
      BY <2>2, EmptyKinds DEF Ended
    <3> QED  BY <1>1, <2>2, <3>1, EmptyHeld DEF Ended, Held
  <2> QED  BY <2>1, <2>2
<1>3. Held(vault)'
  BY DEF VaultCounts, Held
<1> QED  BY <1>1, <1>2, <1>3, SlotCounts DEF VaultCounts

\* Goes and Ends.
LEMMA MovedCounts ==
  ASSUME VaultKinds, VaultKinds', VaultCounts, NEW s \in VaultCalls,
         Vault!Ends(s) \/ \E phase \in Phases : Vault!Goes(s, phase),
         UNCHANGED <<asked, values, vaultCrashes, keys, keyFile, vault>>
  PROVE  VaultCounts'
<1>1. CASE Vault!Ends(s)
  <2>1. Ended(s)
    BY <1>1, EndsHere
  <2>2. ~Went(s) \/ (Held(calls[s].document)' /\ calls'[s].key <= keys)
    <3>1. calls'[s].document = Vault!NoVault /\ calls'[s].key = 0
      BY <2>1, EmptyKinds DEF Ended
    <3> QED  BY <3>1, EmptyHeld DEF Held, VaultKinds
  <2> QED  BY <2>1, <2>2, QuietCounts
<1>2. ASSUME NEW phase \in Phases, Vault!Goes(s, phase) PROVE VaultCounts'
  <2>1. Went(s) /\ calls'[s].document = calls[s].document /\ calls'[s].key = calls[s].key
    BY <1>2, GoesOn
  <2> QED  BY <2>1, QuietCounts DEF VaultCounts, Held
<1> QED  BY <1>1, <1>2

\* A slot that takes the vault as it is.
LEMMA TakenCounts ==
  ASSUME VaultKinds, VaultKinds', VaultCounts, NEW s \in VaultCalls,
         NEW call \in CallKind, calls' = [calls EXCEPT ![s] = call],
         call.op = calls[s].op, call.document = vault, call.key <= keys,
         UNCHANGED <<asked, values, vaultCrashes, keys, keyFile, vault>>
  PROVE  VaultCounts'
<1>1. Others(s) /\ calls'[s] = call
  BY CallSet
<1>2. Held(vault)' /\ Held(calls[s].document)'
  BY <1>1 DEF VaultCounts, Held
<1> QED  BY <1>1, <1>2, SlotCounts DEF VaultCounts, VaultKinds

\* A process that initializes sets no value.
LEMMA InitializeCounts ==
  ASSUME VaultInv, VaultInv', VaultCounts, NEW s \in VaultCalls,
         \/ Vault!Initialized(s) \/ Vault!Initialize(s)
         \/ Vault!CopyLegacy(s) \/ Vault!LegacyCopied(s) \/ Vault!Read(s)
  PROVE  VaultCounts'
<1>1. /\ VaultKinds /\ VaultKinds'
      /\ UNCHANGED <<asked, values, vaultCrashes, keys, keyFile, vault>>
  BY DEF VaultInv, Vault!Initialized, Vault!Initialize, Vault!CopyLegacy, Vault!LegacyCopied,
         Vault!Read
<1>2. CASE Vault!Ends(s) \/ \E phase \in Phases : Vault!Goes(s, phase)
  BY <1>1, <1>2, MovedCounts
<1>3. PICK call \in CallKind : call = calls[s]
  BY <1>1 DEF VaultKinds
<1>4. CASE /\ vault.version = 1
           /\ vault.keys \subseteq {keyFile}
           /\ calls' = [calls EXCEPT ![s].phase = "copy", ![s].document = vault, ![s].key = keyFile]
  <2> DEFINE next == [call EXCEPT !.phase = "copy", !.document = vault, !.key = keyFile]
  <2>1. keyFile \in Nat /\ vault \in VaultKind
    BY <1>4 DEF VaultInv, FileFits, VaultKinds
  <2>2. /\ next \in CallKind /\ next.op = call.op /\ next.document = vault /\ next.key = keyFile
    BY <2>1 DEF CallKind
  <2>3. calls' = [calls EXCEPT ![s] = next]
    BY <1>3, <1>4
  <2>4. next.key <= keys
    BY <2>2 DEF VaultCounts
  <2> HIDE DEF next
  <2> QED  BY <1>1, <1>3, <2>2, <2>3, <2>4, TakenCounts
<1>5. ASSUME NEW phase \in {"entryKey", "write"},
             calls' = [calls EXCEPT ![s].document = vault, ![s].stale = FALSE, ![s].phase = phase]
      PROVE  VaultCounts'
  <2> DEFINE next == [call EXCEPT !.document = vault, !.stale = FALSE, !.phase = phase]
  <2>1. vault \in VaultKind
    BY <1>1 DEF VaultKinds
  <2>2. /\ next \in CallKind /\ next.op = call.op /\ next.document = vault /\ next.key = call.key
    BY <2>1 DEF CallKind
  <2>3. calls' = [calls EXCEPT ![s] = next]
    BY <1>3, <1>5
  <2>4. next.key <= keys
    BY <1>3, <2>2 DEF VaultCounts
  <2> HIDE DEF next
  <2> QED  BY <1>1, <1>3, <2>2, <2>3, <2>4, TakenCounts
<1>6. CASE Vault!Initialized(s)
  BY <1>2, <1>6 DEF Vault!Initialized, Phases
<1>7. CASE Vault!Initialize(s)
  BY <1>2, <1>4, <1>7 DEF Vault!Initialize, Phases
<1>8. CASE Vault!CopyLegacy(s) \/ Vault!LegacyCopied(s)
  BY <1>2, <1>8 DEF Vault!CopyLegacy, Vault!LegacyCopied, Phases
<1>9. CASE Vault!Read(s)
  <2>1. \/ Vault!Ends(s) \/ Vault!Goes(s, "vaultKey")
        \/ calls' = [calls EXCEPT ![s].document = vault, ![s].stale = FALSE,
                            ![s].phase = IF calls[s].op = "set" THEN "entryKey" ELSE "write"]
    BY <1>9 DEF Vault!Read
  <2> QED  BY <1>2, <1>5, <2>1 DEF Phases
<1> QED  BY <1>6, <1>7, <1>8, <1>9

\* A key that is loaded is one of those generated.
LEMMA LoadedCounts ==
  ASSUME VaultInv, VaultInv', VaultCounts, NEW s \in VaultCalls, NEW k \in Nat \ {0},
         calls[s].phase \in {"vaultKey", "entryKey", "create", "fill"}, UNCHANGED legacyCopy,
         calls' = Vault!Loaded(s, calls, k), UNCHANGED <<asked, values, vaultCrashes, vault>>,
         keys <= keys', keys' <= KeyBound, keyFile' <= keys', k <= keys'
  PROVE  VaultCounts'
<1>1. \/ Ended(s)
      \/ /\ Went(s)
         /\ calls'[s].document.keys \subseteq calls[s].document.keys \cup {k}
         /\ calls'[s].document.secrets = calls[s].document.secrets
         /\ calls'[s].key \in {calls[s].key, k}
  BY LoadedCalls
<1>2. /\ VaultKinds /\ VaultKinds' /\ calls[s] \in CallKind /\ Held(calls[s].document)
      /\ calls[s].key <= keys /\ values \in Nat /\ keys \in Nat /\ keys' \in Nat
  BY DEF VaultInv, VaultCounts, VaultKinds
<1>3. (\A n \in calls[s].document.keys : n \in Nat) /\ calls[s].key \in Nat
  BY <1>2 DEF CallKind, VaultKind
<1>4. \A n \in vault.keys : n \in Nat
  BY <1>2 DEF VaultKinds, VaultKind
<1>5. Held(vault)'
  BY <1>2, <1>4 DEF VaultCounts, Held
<1>6. /\ Others(s) /\ calls'[s].op \in {calls[s].op, "none"}
      /\ Held(calls[s].document)' /\ calls'[s].key <= keys'
  <2>1. CASE Ended(s)
    <3>1. calls'[s].document = Vault!NoVault /\ calls'[s].key = 0 /\ calls'[s].op = "none"
      BY <2>1, EmptyKinds DEF Ended
    <3>2. Held(Vault!NoVault)'
      BY <1>2, EmptyKinds DEF Held
    <3> QED  BY <1>2, <2>1, <3>1, <3>2 DEF Ended, Held
  <2>2. CASE ~Ended(s)
    BY <1>1, <1>2, <1>3, <2>2 DEF Went, Held
  <2> QED  BY <2>1, <2>2
<1> QED  BY <1>2, <1>5, <1>6, SlotCounts

\* A key that is made is the next one.
LEMMA KeyCounts ==
  ASSUME VaultInv, VaultInv', VaultCounts, NEW s \in VaultCalls,
         Vault!LoadKey(s) \/ Vault!CreateKey(s) \/ Vault!FillKey(s)
  PROVE  VaultCounts'
<1>1. /\ VaultKinds /\ VaultKinds' /\ UNCHANGED <<vault, legacyCopy, asked, values, vaultCrashes>>
      /\ calls[s].phase \in {"vaultKey", "entryKey", "create", "fill"}
      /\ keyFile \in {Vault!PartialKey} \cup Nat /\ keys \in Nat /\ keyFile <= keys /\ keys <= KeyBound
  BY DEF VaultInv, VaultKinds, VaultCounts, Vault!LoadKey, Vault!CreateKey, Vault!FillKey, Vault!In
<1>2. ASSUME keyFile > 0, calls' = Vault!Loaded(s, calls, keyFile), UNCHANGED <<keys, keyFile>>
      PROVE  VaultCounts'
  <2>1. keyFile \in Nat \ {0}
    BY <1>1, <1>2 DEF Vault!PartialKey
  <2> QED  BY <1>1, <1>2, <2>1, LoadedCounts
<1>3. CASE Vault!LoadKey(s)
  <2>1. UNCHANGED <<keys, keyFile>>
    BY <1>3 DEF Vault!LoadKey
  <2>2. \/ keyFile > 0 /\ calls' = Vault!Loaded(s, calls, keyFile)
        \/ Vault!Ends(s) \/ Vault!Goes(s, "create")
    BY <1>3 DEF Vault!LoadKey, Vault!Ends, Vault!Goes
  <2> QED  BY <1>1, <1>2, <2>1, <2>2, MovedCounts DEF Phases
<1>4. CASE Vault!CreateKey(s)
  <2>1. CASE keyFile = Vault!NoKey /\ keyFile' = Vault!PartialKey /\ Vault!Goes(s, "fill")
    <3>1. /\ Went(s) /\ calls'[s].document = calls[s].document /\ calls'[s].key = calls[s].key
          /\ UNCHANGED keys
      BY <1>1, <1>4, <2>1, GoesOn DEF Phases, Vault!CreateKey
    <3>2. /\ Held(vault)' /\ Held(calls[s].document)' /\ calls'[s].key <= keys'
      BY <1>1, <3>1 DEF VaultCounts, Held
    <3>3. keyFile' <= keys'
      BY <1>1, <2>1, <3>1 DEF Vault!PartialKey
    <3> QED  BY <1>1, <3>1, <3>2, <3>3, SlotCounts DEF Went
  <2>2. \/ keyFile > 0 /\ calls' = Vault!Loaded(s, calls, keyFile) /\ UNCHANGED <<keys, keyFile>>
        \/ Vault!Ends(s) /\ UNCHANGED <<keys, keyFile>>
        \/ keyFile = Vault!NoKey /\ keyFile' = Vault!PartialKey /\ Vault!Goes(s, "fill")
    BY <1>4 DEF Vault!CreateKey, Vault!Ends
  <2> QED  BY <1>1, <1>2, <2>1, <2>2, MovedCounts
<1>5. CASE Vault!FillKey(s)
  <2>1. /\ keys < KeyBound /\ keys' = keys + 1 /\ calls' = Vault!Loaded(s, calls, keys + 1)
        /\ keyFile' \in {keys + 1, keyFile}
    BY <1>5 DEF Vault!FillKey
  <2>2. keys + 1 \in Nat \ {0} /\ keys <= keys' /\ keys' <= KeyBound /\ keyFile' <= keys'
    BY <1>1, <2>1, VaultAssumption DEF Vault!PartialKey
  <2> QED  BY <1>1, <2>1, <2>2, LoadedCounts
<1> QED  BY <1>3, <1>4, <1>5

\* A vault that is migrated keeps what it holds.
LEMMA MigrateCounts ==
  ASSUME VaultInv, VaultInv', VaultCounts, NEW s \in VaultCalls, Vault!Migrate(s)
  PROVE  VaultCounts'
<1>1. /\ VaultKinds /\ VaultKinds' /\ calls[s] \in CallKind /\ Held(calls[s].document)
      /\ UNCHANGED <<keyFile, asked, values, keys, vaultCrashes>>
      /\ vault' = [calls[s].document EXCEPT !.version = 2]
  BY DEF VaultInv, VaultKinds, VaultCounts, Vault!Migrate
<1>2. PICK d \in VaultKind : d = calls[s].document
  BY <1>1 DEF CallKind
<1>3. [d EXCEPT !.version = 2].keys = d.keys /\ [d EXCEPT !.version = 2].secrets = d.secrets
  BY DEF VaultKind
<1>4. Held(vault)'
  BY <1>1, <1>2, <1>3 DEF Held
<1> DEFINE others == Vault!Outdated(calls, s)
<1>5. /\ others \in [VaultCalls -> CallKind] /\ others[s] = calls[s]
      /\ \A t \in VaultCalls :
           /\ others[t].op = calls[t].op /\ others[t].phase = calls[t].phase
           /\ others[t].document = calls[t].document /\ others[t].key = calls[t].key
           /\ (calls[t].stale => others[t].stale)
  BY <1>1, OutdatedCalls DEF VaultKinds
<1>6. PICK call \in CallKind : call = calls[s]
  BY <1>1
<1> DEFINE next == [call EXCEPT !.phase = "read", !.document = Vault!NoVault,
                                !.key = Vault!NoKey, !.stale = FALSE]
<1>7. next.op = call.op /\ next.document = Vault!NoVault /\ next.key = 0
  BY DEF CallKind, Vault!NoKey
<1>8. calls' = [others EXCEPT ![s] = next]
  BY <1>5, <1>6 DEF Vault!Migrate
<1> HIDE DEF next, others
<1>9. Others(s) /\ calls'[s] = next
  BY <1>5, <1>8 DEF Others
<1>10. Held(Vault!NoVault)' /\ keys \in Nat
  BY <1>1, EmptyKinds DEF Held, VaultKinds
<1>11. Held(calls[s].document)' /\ calls'[s].key <= keys' /\ calls'[s].op = calls[s].op
  BY <1>1, <1>6, <1>7, <1>9, <1>10 DEF Held
<1> QED  BY <1>1, <1>4, <1>9, <1>11, SlotCounts DEF VaultCounts, VaultKinds

\* A value that is written was counted as under way.
LEMMA WriteCounts ==
  ASSUME VaultInv, VaultInv', VaultCounts, NEW s \in VaultCalls, Vault!Write(s)
  PROVE  VaultCounts'
<1>1. /\ VaultKinds /\ VaultKinds' /\ calls[s] \in CallKind /\ calls[s].phase = "write"
      /\ UNCHANGED <<keyFile, asked, keys, vaultCrashes>> /\ CallFits(calls[s])
      /\ keys \in Nat /\ values \in Nat /\ Held(calls[s].document) /\ calls[s].key <= keys
  BY DEF VaultInv, VaultKinds, VaultCounts, Vault!Write, Vault!In
<1>2. CASE Vault!Ends(s) /\ UNCHANGED <<vault, values>>
  BY <1>1, <1>2, MovedCounts
<1>3. CASE Wrote(s)
  <2>1. /\ vault' \in VaultKind
        /\ vault'.keys \subseteq calls[s].document.keys \cup {calls[s].key}
        /\ \A r \in References :
             vault'.secrets[r] <= values' \/ vault'.secrets[r] = calls[s].document.secrets[r]
        /\ values' = IF calls[s].op = "set" THEN values + 1 ELSE values
        /\ calls' = Vault!EndedIn(Vault!Outdated(calls, s), s)
    BY <1>1, <1>3, WriteFacts DEF Wrote
  <2> DEFINE others == Vault!Outdated(calls, s)
  <2>2. /\ others \in [VaultCalls -> CallKind] /\ calls' = Vault!EndedIn(others, s)
        /\ \A t \in VaultCalls :
             /\ others[t].op = calls[t].op /\ others[t].document = calls[t].document
             /\ others[t].key = calls[t].key
    BY <1>1, <2>1, OutdatedCalls DEF VaultKinds
  <2> HIDE DEF others
  <2>3. /\ calls'[s] = Vault!NoCall
        /\ \A t \in VaultCalls : t # s =>
             /\ calls'[t].op = calls[t].op /\ calls'[t].document = calls[t].document
             /\ calls'[t].key = calls[t].key
    BY <2>2, EndedCalls
  <2>4. values \in Nat /\ values' \in Nat /\ values <= values'
    BY <1>1, <2>1
  <2>5. Held(vault)'
    <3>1. \A r \in References : calls[s].document.secrets[r] \in Nat
      BY <1>1 DEF CallKind, VaultKind
    <3>2. \A k \in vault'.keys : k <= keys
      BY <1>1, <2>1 DEF Held
    <3>3. \A r \in References : vault'.secrets[r] <= values'
      BY <1>1, <2>1, <2>4, <3>1 DEF Held
    <3> QED  BY <1>1, <3>2, <3>3 DEF Held
  <2>6. ASSUME NEW t \in VaultCalls PROVE Held(calls[t].document)' /\ calls'[t].key <= keys'
    <3>1. CASE t = s
      BY <1>1, <2>3, <2>4, <3>1, EmptyKinds DEF Held
    <3>2. CASE t # s
      <4>1. calls[t] \in CallKind /\ Held(calls[t].document) /\ calls[t].key <= keys
        BY DEF VaultInv, VaultKinds, VaultCounts
      <4>2. \A r \in References : calls[t].document.secrets[r] \in Nat
        BY <4>1 DEF CallKind, VaultKind
      <4> QED  BY <1>1, <2>3, <2>4, <3>2, <4>1, <4>2 DEF Held
    <3> QED  BY <3>1, <3>2
  <2>7. values' + Cardinality(Setting') <= values + Cardinality(Setting)
    <3>0. IsFiniteSet(Setting) /\ Cardinality(Setting) \in Nat /\ s \notin Setting'
          /\ Setting' \subseteq Setting
      BY <2>3, SettingCounts, EmptyKinds DEF Setting
    <3>1. CASE calls[s].op = "set"
      <4>1. s \in Setting /\ Setting' \subseteq Setting \ {s}
        BY <3>0, <3>1 DEF Setting
      <4>2. IsFiniteSet(Setting \ {s}) /\ Cardinality(Setting \ {s}) = Cardinality(Setting) - 1
        BY <3>0, <4>1, FS_RemoveElement
      <4>3. Cardinality(Setting') <= Cardinality(Setting \ {s}) /\ Cardinality(Setting') \in Nat
        BY <4>1, <4>2, FS_Subset, FS_CardinalityType
      <4> QED  BY <1>1, <2>1, <3>0, <3>1, <4>2, <4>3
    <3>2. CASE calls[s].op # "set"
      <4>1. Cardinality(Setting') <= Cardinality(Setting) /\ Cardinality(Setting') \in Nat
        BY <3>0, FS_Subset, FS_CardinalityType
      <4> QED  BY <1>1, <2>1, <3>0, <3>2, <4>1
    <3> QED  BY <3>1, <3>2
  <2>8. Cardinality(Setting) \in Nat /\ IsFiniteSet(Setting') /\ Cardinality(Setting') \in Nat
    <3>1. Setting' \subseteq VaultCalls
      BY DEF Setting
    <3> QED  BY <3>1, SettingCounts, VaultAssumption, FS_Subset, FS_CardinalityType
  <2>9. values' + Cardinality(Setting') <= asked' + 1
    BY <1>1, <2>4, <2>7, <2>8 DEF VaultCounts
  <2> QED  BY <1>1, <2>5, <2>6, <2>9 DEF VaultCounts
<1> QED  BY <1>2, <1>3 DEF Vault!Write, Wrote

\* A call that begins was asked for.
LEMMA AskCounts ==
  ASSUME VaultInv, VaultInv', VaultCounts, NEW s \in VaultCalls,
         \/ \E op \in {"set", "delete"} : \E r \in References : Vault!Ask(s, op, r)
         \/ Vault!Ask(s, "get", "none") \/ Vault!Recover(s)
  PROVE  VaultCounts'
<1>1. /\ VaultKinds /\ VaultKinds' /\ asked < CallBound /\ asked' = asked + 1
      /\ UNCHANGED <<vault, keyFile, values, keys, vaultCrashes>>
      /\ calls[s].op = "none" /\ keys \in Nat /\ values \in Nat
  BY DEF VaultInv, VaultKinds, Vault!Ask, Vault!Recover, Vault!NextSlot, Vault!Busy
<1>2. calls'[s].document = Vault!NoVault /\ calls'[s].key = 0
  <2>1. PICK none \in CallKind : none = Vault!NoCall
    BY EmptyKinds
  <2>2. none.document = Vault!NoVault /\ none.key = 0
    BY <2>1, EmptyKinds
  <2>3. calls \in [VaultCalls -> CallKind]
    BY <1>1 DEF VaultKinds
  <2>4. ASSUME NEW op, NEW r, Vault!Ask(s, op, r)
        PROVE  calls'[s].document = none.document /\ calls'[s].key = none.key
    <3> DEFINE next == [none EXCEPT !.op = op, !.phase = "init", !.ref = r,
                                    !.after = Vault!Earlier(s)]
    <3>1. next.document = none.document /\ next.key = none.key
      BY DEF CallKind
    <3>2. calls'[s] = next
      BY <2>1, <2>3, <2>4 DEF Vault!Ask
    <3> QED  BY <3>1, <3>2
  <2>5. ASSUME Vault!Recover(s)
        PROVE  calls'[s].document = none.document /\ calls'[s].key = none.key
    <3> DEFINE next == [none EXCEPT !.op = "recover", !.phase = "archiveVault"]
    <3>1. next.document = none.document /\ next.key = none.key
      BY DEF CallKind
    <3>2. calls'[s] = next
      BY <2>1, <2>3, <2>5 DEF Vault!Recover
    <3> QED  BY <3>1, <3>2
  <2> QED  BY <2>2, <2>4, <2>5
<1>3. \A t \in VaultCalls : t # s => calls'[t] = calls[t]
  BY <1>1 DEF VaultKinds, Vault!Ask, Vault!Recover
<1>4. ASSUME NEW t \in VaultCalls PROVE Held(calls[t].document)' /\ calls'[t].key <= keys'
  BY <1>1, <1>2, <1>3, EmptyHeld DEF VaultCounts, Held
<1>5. Cardinality(Setting') <= Cardinality(Setting) + 1 /\ Cardinality(Setting') \in Nat
      /\ Cardinality(Setting) \in Nat
  <2>1. Setting' \subseteq Setting \cup {s} /\ s \notin Setting
    BY <1>1, <1>3 DEF Setting
  <2>2. IsFiniteSet(Setting \cup {s}) /\ Cardinality(Setting \cup {s}) = Cardinality(Setting) + 1
    BY <2>1, SettingCounts, FS_AddElement
  <2> QED  BY <2>1, <2>2, SettingCounts, FS_Subset, FS_CardinalityType
<1>6. Held(vault)'
  BY <1>1 DEF VaultCounts, Held
<1>7. asked' \in 0..CallBound /\ values' + Cardinality(Setting') <= asked' + 1
  BY <1>1, <1>5, VaultAssumption DEF VaultCounts
<1> QED  BY <1>1, <1>4, <1>6, <1>7 DEF VaultCounts

\* A file that is moved aside leaves none.
LEMMA ArchiveCounts ==
  ASSUME VaultInv, VaultInv', VaultCounts, NEW s \in VaultCalls,
         Vault!ArchiveVault(s) \/ Vault!ArchiveKey(s)
  PROVE  VaultCounts'
<1>1. /\ VaultKinds /\ VaultKinds' /\ UNCHANGED <<asked, values, keys, vaultCrashes>>
      /\ values \in Nat /\ keys \in Nat
  BY DEF VaultInv, VaultKinds, Vault!ArchiveVault, Vault!ArchiveKey
<1>2. CASE Vault!ArchiveVault(s)
  <2>1. /\ Went(s) /\ calls'[s].document = calls[s].document /\ calls'[s].key = calls[s].key
    BY <1>1, <1>2, GoesOn DEF Phases, Vault!ArchiveVault
  <2>2. Held(vault)' /\ Held(calls[s].document)'
    BY <1>1, <1>2, <2>1, EmptyKinds DEF Vault!ArchiveVault, Held, VaultCounts
  <2> QED  BY <1>1, <1>2, <2>1, <2>2, SlotCounts DEF Vault!ArchiveVault, VaultCounts, Went
<1>3. CASE Vault!ArchiveKey(s)
  <2>1. /\ Ended(s) /\ calls'[s].document = Vault!NoVault /\ calls'[s].key = 0
        /\ calls'[s].op = "none"
    BY <1>1, <1>3, EndsHere, EmptyKinds DEF Vault!ArchiveKey, Ended
  <2>2. Held(vault)' /\ Held(calls[s].document)' /\ keyFile' = 0
    BY <1>1, <1>3, <2>1, EmptyKinds DEF Vault!ArchiveKey, Vault!NoKey, Held, VaultCounts
  <2> QED  BY <1>1, <2>1, <2>2, SlotCounts DEF VaultCounts, Ended
<1> QED  BY <1>2, <1>3

\* Calls of a process that dies set nothing any more.
LEMMA ProcessEndsCounts ==
  ASSUME VaultInv, VaultInv', VaultCounts, NEW p \in Vault!Processes, Vault!ProcessEnds(p)
  PROVE  VaultCounts'
<1>1. /\ VaultKinds /\ VaultKinds' /\ UNCHANGED <<asked, values, keys, vault, keyFile>>
      /\ values \in Nat /\ keys \in Nat
  BY DEF VaultInv, VaultKinds, Vault!ProcessEnds
<1>2. \A s \in VaultCalls : calls'[s] \in {calls[s], Vault!NoCall}
  BY DEF Vault!ProcessEnds
<1>3. ASSUME NEW t \in VaultCalls PROVE Held(calls[t].document)' /\ calls'[t].key <= keys'
  BY <1>1, <1>2, EmptyKinds DEF VaultCounts, Held
<1>4. Setting' \subseteq Setting
  BY <1>2, EmptyKinds DEF Setting
<1>5. Cardinality(Setting') <= Cardinality(Setting) /\ Cardinality(Setting') \in Nat
      /\ Cardinality(Setting) \in Nat
  BY <1>4, SettingCounts, FS_Subset, FS_CardinalityType
<1>6. Held(vault)' /\ vaultCrashes' \in 0..VaultCrashBound
  BY <1>1, VaultAssumption DEF VaultCounts, Held, Vault!ProcessEnds
<1>7. values' + Cardinality(Setting') <= asked' + 1
  BY <1>1, <1>5 DEF VaultCounts
<1> QED  BY <1>1, <1>3, <1>6, <1>7 DEF VaultCounts

\* Every step of the vault keeps the counts.
LEMMA VaultCountStep ==
  ASSUME VaultInv, VaultInv', VaultCounts, [Vault!VaultNext]_Vault!vaultVars
  PROVE  VaultCounts'
<1>1. CASE UNCHANGED Vault!vaultVars
  BY <1>1 DEF Vault!vaultVars, VaultCounts, Held, Setting
<1> QED
  BY <1>1, InitializeCounts, MigrateCounts, KeyCounts, WriteCounts, AskCounts, ArchiveCounts,
     ProcessEndsCounts
  DEF Vault!VaultNext

\* They hold at the beginning.
LEMMA VaultCountsBegin == Vault!VaultInit => VaultCounts
<1> SUFFICES ASSUME Vault!VaultInit PROVE VaultCounts
  OBVIOUS
<1>1. /\ calls = [s \in VaultCalls |-> Vault!NoCall] /\ values = 1 /\ asked = 0
      /\ vaultCrashes = 0
      /\ \/ vault = Vault!NoVault /\ keyFile = 0 /\ keys = 0
         \/ vault = Vault!Legacy /\ keyFile = 1 /\ keys = 1
  BY DEF Vault!VaultInit, Vault!LegacyValue, Vault!NoKey
<1>2. Setting = {}
  BY <1>1, EmptyKinds DEF Setting
<1>3. Cardinality(Setting) = 0
  BY <1>2, FS_EmptySet
<1>4. Held(vault)
  BY <1>1, EmptyKinds DEF Held, Vault!Legacy, Vault!LegacyValue
<1>5. \A s \in VaultCalls : Held(calls[s].document) /\ calls[s].key <= keys
  BY <1>1, EmptyKinds DEF Held
<1> QED  BY <1>1, <1>3, <1>4, <1>5, VaultAssumption DEF VaultCounts

\* With the invariant they give the variables their types.
LEMMA VaultTypes == VaultInv /\ VaultCounts => Vault!VaultTypeOK
<1> SUFFICES ASSUME VaultInv, VaultCounts PROVE Vault!VaultTypeOK
  OBVIOUS
<1>1. VaultKinds /\ Cardinality(Setting) \in Nat
  BY SettingCounts DEF VaultInv
<1>2. values <= CallBound + 1 /\ keys \in 0..KeyBound /\ values \in 0..CallBound + 1
  BY <1>1, VaultAssumption DEF VaultKinds, VaultCounts
<1>3. ASSUME NEW d \in VaultKind, Held(d) PROVE d \in Vault!VaultFile
  <2>1. d.keys \subseteq 1..KeyBound
    BY <1>2, <1>3, VaultAssumption DEF VaultKind, Held
  <2>2. d.secrets \in [References -> 0..CallBound + 1]
    BY <1>1, <1>2, <1>3, VaultAssumption DEF VaultKind, Held, VaultKinds
  <2> QED  BY <2>1, <2>2 DEF VaultKind, Vault!VaultFile
<1>4. vault \in Vault!VaultFile
  BY <1>1, <1>3 DEF VaultKinds, VaultCounts
<1>5. ASSUME NEW s \in VaultCalls
      PROVE  /\ calls[s] \in CallKind /\ calls[s].document \in Vault!VaultFile
             /\ calls[s].key \in 0..KeyBound
  <2>1. calls[s] \in CallKind
    BY <1>1 DEF VaultKinds
  <2>2. calls[s].document \in VaultKind /\ calls[s].key \in Nat
    BY <2>1 DEF CallKind
  <2> QED  BY <1>2, <1>3, <2>1, <2>2, VaultAssumption DEF VaultCounts
<1>6. keyFile \in {Vault!NoKey, Vault!PartialKey} \cup 1..KeyBound
  BY <1>1, <1>2, VaultAssumption DEF VaultKinds, VaultCounts, Vault!NoKey
<1> QED
  BY <1>1, <1>2, <1>4, <1>5, <1>6 DEF VaultKinds, VaultCounts, CallKind, Vault!VaultTypeOK

-----------------------------------------------------------------------------
(* SchemaUpgrade                                                           *)

\* The database of version n: its first n migrations are applied, once each.
Version(n) == [m \in 1..Latest |-> IF m <= n THEN 1 ELSE 0]

\* The database was at version v0 and is at version v.  What a process still
\* has to apply is what is missing from a version in between; of two processes
\* one is in a transaction; nobody gets past the copy, and no version past v0,
\* without a copy of the database as it was.
UpgradedTo(v0, v) ==
  /\ v0 \in 0..Latest /\ v \in v0..Latest
  /\ initial.applied = Version(v0) /\ applied = Version(v)
  /\ \A p \in Migrators :
       migrator[p].phase # "away" => \E k \in v0..v : migrator[p].pending = (k + 1)..Latest
  /\ \A p \in Migrators : migrator[p].phase = "transaction" => migrator[p].pending # {}
  /\ \A p \in Migrators : migrator[p].phase = "serving" => migrator[p].pending = {}
  /\ \A p, q \in Migrators :
       migrator[p].phase = "transaction" /\ migrator[q].phase = "transaction" => p = q
  /\ v0 >= 1 /\ v = v0 /\ v < Latest =>
       /\ rows = initial.rows
       /\ \A p \in Migrators :
            /\ migrator[p].phase = "copy" => file = initial \/ initial \in copies
            /\ migrator[p].phase \in {"migrate", "transaction"} => initial \in copies
  /\ v0 >= 1 /\ v > v0 => initial \in copies
MigratorType == [phase : {"away", "checkpoint", "copy", "migrate", "transaction", "serving"},
                 pending : SUBSET (1..Latest)]
UpgradeInv ==
  /\ Upgrade!UpgradeTypeOK
  /\ \E v0 \in 0..Latest : \E v \in 0..Latest : UpgradedTo(v0, v)

\* The next version has one more migration.
LEMMA NextVersion ==
  ASSUME NEW n \in Nat, n + 1 \in 1..Latest
  PROVE  [Version(n) EXCEPT ![n + 1] = 1] = Version(n + 1)
<1>1. \A m \in 1..Latest : m # n + 1 => (m <= n <=> m <= n + 1)
  BY UpgradeAssumption
<1>2. n + 1 <= n + 1
  OBVIOUS
<1> QED  BY <1>1, <1>2 DEF Version

\* The cardinality that the types name.
LEMMA MigratorCount == Upgrade!Cardinality(Migrators) \in Nat /\ Upgrade!Cardinality(Migrators) >= 1
<1>1. Upgrade!Cardinality(Migrators) = Cardinality(Migrators)
  BY DEF Cardinality, Upgrade!Cardinality
<1> QED  BY <1>1, UpgradeAssumption, FS_CardinalityType, FS_EmptySet

\* A process goes to its next step and keeps what it has to apply.
LEMMA PhaseChanges ==
  ASSUME migrator \in [Migrators -> MigratorType], NEW p \in Migrators,
         NEW phase \in {"away", "checkpoint", "copy", "migrate", "transaction", "serving"},
         migrator' = [migrator EXCEPT ![p].phase = phase]
  PROVE  /\ migrator' \in [Migrators -> MigratorType]
         /\ \A q \in Migrators : q # p => migrator'[q] = migrator[q]
         /\ migrator'[p].phase = phase /\ migrator'[p].pending = migrator[p].pending
<1> DEFINE call == migrator[p]
<1>1. call \in MigratorType
  OBVIOUS
<1>2. migrator' = [migrator EXCEPT ![p] = [call EXCEPT !.phase = phase]]
  OBVIOUS
<1> HIDE DEF call
<1>3. /\ [call EXCEPT !.phase = phase] \in MigratorType
      /\ [call EXCEPT !.phase = phase].phase = phase
      /\ [call EXCEPT !.phase = phase].pending = call.pending
  BY <1>1 DEF MigratorType
<1> QED  BY <1>2, <1>3 DEF call

\* runMigrations keeps it, whoever else runs it at the same time and whoever
\* crashes.
LEMMA UpgradeStep ==
  ASSUME UpgradeInv, [Upgrade!UpgradeNext]_Upgrade!upgradeVars
  PROVE  UpgradeInv'
<1>a. /\ [applied |-> applied, rows |-> rows] \in Upgrade!Databases
      /\ file \in Upgrade!Databases /\ initial \in Upgrade!Databases
      /\ copies \subseteq Upgrade!Databases /\ migrator \in [Migrators -> MigratorType]
      /\ upgradeCrashes \in 0..UpgradeCrashBound
  BY DEF UpgradeInv, Upgrade!UpgradeTypeOK, MigratorType, Upgrade!Migrations, Upgrade!Database
<1>p. PICK v0 \in 0..Latest : \E v \in 0..Latest : UpgradedTo(v0, v)
  BY DEF UpgradeInv
<1>b. PICK v \in 0..Latest : UpgradedTo(v0, v)
  BY <1>p
<1>t. ASSUME /\ [applied |-> applied', rows |-> rows'] \in Upgrade!Databases
             /\ file' \in Upgrade!Databases /\ initial' \in Upgrade!Databases
             /\ copies' \subseteq Upgrade!Databases /\ migrator' \in [Migrators -> MigratorType]
             /\ upgradeCrashes' \in 0..UpgradeCrashBound,
             NEW n \in 0..Latest, UpgradedTo(v0, n)'
      PROVE  UpgradeInv'
  BY <1>t DEF UpgradeInv, Upgrade!UpgradeTypeOK, MigratorType, Upgrade!Migrations, Upgrade!Database
<1> USE UpgradeAssumption
<1>1. ASSUME NEW p \in Migrators, Upgrade!ReadLedger(p) PROVE UpgradeInv'
  <2>1. Upgrade!Migrations \ Upgrade!Recorded = (v + 1)..Latest
    BY <1>b DEF Upgrade!Migrations, Upgrade!Recorded, Version, UpgradedTo
  <2>2. PICK phase \in {"checkpoint", "migrate"} :
          /\ migrator' = [migrator EXCEPT ![p] = [phase |-> phase, pending |-> (v + 1)..Latest]]
          /\ phase = "migrate" => Upgrade!Recorded = {} \/ (v + 1)..Latest = {}
    BY <1>1, <2>1 DEF Upgrade!ReadLedger
  <2>3. v >= 1 => 1 \in Upgrade!Recorded
    BY <1>b DEF Upgrade!Migrations, Upgrade!Recorded, Version, UpgradedTo
  <2>4. phase = "migrate" /\ v >= 1 => v = Latest
    BY <2>2, <2>3, <1>b DEF UpgradedTo
  <2>5. /\ migrator' \in [Migrators -> MigratorType]
        /\ \A q \in Migrators : q # p => migrator'[q] = migrator[q]
        /\ migrator'[p].phase = phase /\ migrator'[p].pending = (v + 1)..Latest
    <3>1. [phase |-> phase, pending |-> (v + 1)..Latest] \in MigratorType
      BY DEF MigratorType
    <3> HIDE DEF MigratorType
    <3> QED  BY <2>2, <1>a, <3>1
  <2>6. UNCHANGED <<applied, rows, file, copies, initial, upgradeCrashes>>
    BY <1>1 DEF Upgrade!ReadLedger
  <2> HIDE DEF MigratorType
  <2>7. UpgradedTo(v0, v)'
    BY <1>b, <2>4, <2>5, <2>6 DEF UpgradedTo
  <2> QED  BY <1>t, <1>a, <2>5, <2>6, <2>7
<1>2. ASSUME NEW p \in Migrators, Upgrade!Checkpoint(p) PROVE UpgradeInv'
  <2>1. migrator' = [migrator EXCEPT ![p].phase = "copy"] /\ migrator[p].phase # "away"
    BY <1>2 DEF Upgrade!Checkpoint, Upgrade!Phase
  <2>2. /\ migrator' \in [Migrators -> MigratorType]
        /\ \A q \in Migrators : q # p => migrator'[q] = migrator[q]
        /\ migrator'[p].phase = "copy" /\ migrator'[p].pending = migrator[p].pending
    BY <2>1, <1>a, PhaseChanges
  <2>3. /\ migrator[p].phase = "checkpoint" /\ UNCHANGED <<applied, rows, copies, initial, upgradeCrashes>>
        /\ file' = IF Upgrade!InTransaction = {} THEN Upgrade!Database ELSE file
    BY <1>2 DEF Upgrade!Checkpoint
  <2>4. file' \in Upgrade!Databases
    BY <1>a, <2>3 DEF Upgrade!Database
  <2>5. v0 >= 1 /\ v = v0 /\ v < Latest => file' = initial \/ initial \in copies
    <3>1. CASE Upgrade!InTransaction = {}
      BY <3>1, <2>3, <1>a, <1>b DEF Upgrade!Database, Upgrade!Databases, UpgradedTo
    <3>2. CASE Upgrade!InTransaction # {}
      BY <3>2, <1>b DEF Upgrade!InTransaction, UpgradedTo
    <3> QED  BY <3>1, <3>2
  <2> HIDE DEF MigratorType
  <2>6. UpgradedTo(v0, v)'
    <3>1. \A q \in Migrators :
            migrator'[q].phase \in {"away", "migrate", "transaction", "serving"} => migrator'[q] = migrator[q]
      BY <2>2
    <3> QED  BY <1>b, <2>1, <2>2, <2>3, <2>5, <3>1 DEF UpgradedTo
  <2> QED  BY <1>t, <1>a, <2>2, <2>3, <2>4, <2>6
<1>3. ASSUME NEW p \in Migrators, Upgrade!Copy(p) PROVE UpgradeInv'
  <2>1. migrator' = [migrator EXCEPT ![p].phase = "migrate"] /\ migrator[p].phase # "away"
    BY <1>3 DEF Upgrade!Copy, Upgrade!Phase
  <2>2. /\ migrator' \in [Migrators -> MigratorType]
        /\ \A q \in Migrators : q # p => migrator'[q] = migrator[q]
        /\ migrator'[p].phase = "migrate" /\ migrator'[p].pending = migrator[p].pending
    BY <2>1, <1>a, PhaseChanges
  <2>3. /\ migrator[p].phase = "copy" /\ copies' = copies \cup {file}
        /\ UNCHANGED <<applied, rows, file, initial, upgradeCrashes>>
    BY <1>3 DEF Upgrade!Copy
  <2> HIDE DEF MigratorType
  <2>4. v0 >= 1 /\ v = v0 /\ v < Latest => initial \in copies'
    BY <2>3, <1>b DEF UpgradedTo
  <2>5. UpgradedTo(v0, v)'
    BY <1>b, <2>1, <2>2, <2>3, <2>4 DEF UpgradedTo
  <2> QED  BY <1>t, <1>a, <2>2, <2>3, <2>5
<1>4. ASSUME NEW p \in Migrators, Upgrade!BeginMigration(p) PROVE UpgradeInv'
  <2>1. migrator' = [migrator EXCEPT ![p].phase = "transaction"] /\ migrator[p].phase # "away"
    BY <1>4 DEF Upgrade!BeginMigration, Upgrade!Phase
  <2>2. /\ migrator' \in [Migrators -> MigratorType]
        /\ \A q \in Migrators : q # p => migrator'[q] = migrator[q]
        /\ migrator'[p].phase = "transaction" /\ migrator'[p].pending = migrator[p].pending
    BY <2>1, <1>a, PhaseChanges
  <2>3. /\ migrator[p].phase = "migrate" /\ migrator[p].pending # {}
        /\ \A q \in Migrators : migrator[q].phase # "transaction"
        /\ UNCHANGED <<applied, rows, file, copies, initial, upgradeCrashes>>
    BY <1>4 DEF Upgrade!BeginMigration, Upgrade!InTransaction
  <2> HIDE DEF MigratorType
  <2>4. UpgradedTo(v0, v)'
    BY <1>b, <2>1, <2>2, <2>3 DEF UpgradedTo
  <2> QED  BY <1>t, <1>a, <2>2, <2>3, <2>4
<1>5. ASSUME NEW p \in Migrators, Upgrade!Migrate(p) PROVE UpgradeInv'
  <2>1. PICK k \in v0..v : migrator[p].pending = (k + 1)..Latest /\ k < Latest
    BY <1>5, <1>b DEF Upgrade!Migrate, UpgradedTo
  <2>2. Upgrade!NextOf(p) = k + 1
    <3> DEFINE First(m) == \A n \in (k + 1)..Latest : m <= n
    <3>1. k + 1 \in (k + 1)..Latest /\ First(k + 1)
      BY <2>1, <1>b DEF UpgradedTo
    <3>2. PICK m \in (k + 1)..Latest : m = Upgrade!NextOf(p) /\ First(m)
      BY <2>1, <3>1 DEF Upgrade!NextOf
    <3> QED  BY <2>1, <3>1, <3>2, <1>b DEF UpgradedTo
  <2>3. k = v
    BY <1>5, <2>1, <2>2, <1>b DEF Upgrade!Migrate, Upgrade!Recorded, Upgrade!Migrations,
                                  UpgradedTo, Version
  <2>4. applied' = Version(v + 1) /\ v + 1 \in v0..Latest /\ v + 1 > v0
    <3>1. /\ applied' = [applied EXCEPT ![v + 1] = 1] /\ applied = Version(v)
          /\ v + 1 \in 1..Latest /\ v0 \in 0..v
      BY <1>5, <2>1, <2>2, <2>3, <1>b DEF Upgrade!Migrate, UpgradedTo
    <3>2. [Version(v) EXCEPT ![v + 1] = 1] = Version(v + 1)
      <4>1. v \in Nat
        OBVIOUS
      <4> QED  BY <3>1, <4>1, NextVersion
    <3> QED  BY <3>1, <3>2
  <2>5. /\ migrator' \in [Migrators -> MigratorType]
        /\ \A q \in Migrators : q # p => migrator'[q] = migrator[q]
        /\ migrator'[p].phase = "migrate" /\ migrator'[p].pending = (v + 2)..Latest
    <3> DEFINE call == migrator[p]
    <3>1. call \in MigratorType /\ call.pending = (v + 1)..Latest
      BY <1>a, <2>1, <2>3
    <3>2. migrator' = [migrator EXCEPT ![p].phase = "migrate", ![p].pending = @ \ {v + 1}]
      BY <1>5, <2>2, <2>3 DEF Upgrade!Migrate
    <3>3. migrator' = [migrator EXCEPT ![p] = [call EXCEPT !.phase = "migrate", !.pending = @ \ {v + 1}]]
      BY <3>2, <1>a
    <3> HIDE DEF call
    <3>4. /\ [call EXCEPT !.phase = "migrate", !.pending = @ \ {v + 1}] \in MigratorType
          /\ [call EXCEPT !.phase = "migrate", !.pending = @ \ {v + 1}].phase = "migrate"
          /\ [call EXCEPT !.phase = "migrate", !.pending = @ \ {v + 1}].pending = call.pending \ {v + 1}
      BY <3>1 DEF MigratorType
    <3>5. call.pending \ {v + 1} = (v + 2)..Latest
      BY <3>1, <1>b DEF UpgradedTo
    <3> QED  BY <1>a, <3>3, <3>4, <3>5
  <2>6. /\ file' = file \/ file' = [applied |-> applied', rows |-> rows]
        /\ migrator[p].phase = "transaction"
        /\ UNCHANGED <<rows, copies, initial, upgradeCrashes>>
    BY <1>5 DEF Upgrade!Migrate
  <2>7. applied' \in [Upgrade!Migrations -> 0..Upgrade!Cardinality(Migrators)]
    BY <2>4, MigratorCount DEF Upgrade!Migrations, Version
  <2>8. file' \in Upgrade!Databases /\ [applied |-> applied', rows |-> rows'] \in Upgrade!Databases
    <3>1. rows \in 0..RowBound
      BY <1>a DEF Upgrade!Databases
    <3>2. [applied |-> applied', rows |-> rows] \in Upgrade!Databases
      BY <2>7, <3>1 DEF Upgrade!Databases
    <3> QED  BY <2>6, <3>2, <1>a
  <2>9. v0 >= 1 => initial \in copies
    BY <2>1, <2>3, <2>6, <1>b DEF UpgradedTo
  <2>10. \A q \in Migrators : migrator'[q].phase = "transaction" => FALSE
    BY <1>b, <2>5, <2>6 DEF UpgradedTo
  <2> HIDE DEF MigratorType
  <2>11. \A q \in Migrators :
           migrator'[q].phase # "away" => \E j \in v0..(v + 1) : migrator'[q].pending = (j + 1)..Latest
    <3> SUFFICES ASSUME NEW q \in Migrators, migrator'[q].phase # "away"
                 PROVE  \E j \in v0..(v + 1) : migrator'[q].pending = (j + 1)..Latest
      OBVIOUS
    <3>1. CASE q = p
      <4>1. v + 1 \in v0..(v + 1) /\ (v + 1) + 1 = v + 2
        BY <1>b DEF UpgradedTo
      <4> QED  BY <2>5, <3>1, <4>1
    <3>2. CASE q # p
      <4>1. PICK j \in v0..v : migrator[q].pending = (j + 1)..Latest
        BY <2>5, <3>2, <1>b DEF UpgradedTo
      <4>2. j \in v0..(v + 1)
        BY <1>b DEF UpgradedTo
      <4> QED  BY <2>5, <3>2, <4>1, <4>2
    <3> QED  BY <3>1, <3>2
  <2>12. UpgradedTo(v0, v + 1)'
    BY <1>b, <2>4, <2>5, <2>6, <2>9, <2>10, <2>11 DEF UpgradedTo
  <2>13. v + 1 \in 0..Latest
    BY <2>4, <1>b DEF UpgradedTo
  <2> QED  BY <1>t, <1>a, <2>5, <2>6, <2>8, <2>12, <2>13
<1>6. ASSUME NEW p \in Migrators, Upgrade!RolledBack(p) PROVE UpgradeInv'
  <2>1. /\ migrator' = [migrator EXCEPT ![p] = [phase |-> "away", pending |-> {}]]
        /\ UNCHANGED <<applied, rows, file, copies, initial>>
        /\ upgradeCrashes' \in 0..UpgradeCrashBound
    BY <1>6, <1>a DEF Upgrade!RolledBack, Upgrade!Away
  <2>2. /\ migrator' \in [Migrators -> MigratorType]
        /\ \A q \in Migrators : q # p => migrator'[q] = migrator[q]
        /\ migrator'[p].phase = "away" /\ migrator'[p].pending = {}
    <3>1. [phase |-> "away", pending |-> {}] \in MigratorType
      BY DEF MigratorType
    <3> QED  BY <2>1, <1>a, <3>1
  <2> HIDE DEF MigratorType
  <2>3. UpgradedTo(v0, v)'
    BY <1>b, <2>1, <2>2 DEF UpgradedTo
  <2> QED  BY <1>t, <1>a, <2>1, <2>2, <2>3
<1>7. ASSUME NEW p \in Migrators, Upgrade!Serve(p) PROVE UpgradeInv'
  <2>1. migrator' = [migrator EXCEPT ![p].phase = "serving"] /\ migrator[p].phase # "away"
    BY <1>7 DEF Upgrade!Serve, Upgrade!Phase
  <2>2. /\ migrator' \in [Migrators -> MigratorType]
        /\ \A q \in Migrators : q # p => migrator'[q] = migrator[q]
        /\ migrator'[p].phase = "serving" /\ migrator'[p].pending = migrator[p].pending
    BY <2>1, <1>a, PhaseChanges
  <2>3. /\ migrator[p].pending = {}
        /\ UNCHANGED <<applied, rows, file, copies, initial, upgradeCrashes>>
    BY <1>7 DEF Upgrade!Serve
  <2> HIDE DEF MigratorType
  <2>4. UpgradedTo(v0, v)'
    BY <1>b, <2>1, <2>2, <2>3 DEF UpgradedTo
  <2> QED  BY <1>t, <1>a, <2>2, <2>3, <2>4
<1>8. ASSUME NEW p \in Migrators, Upgrade!CommitRow(p) PROVE UpgradeInv'
  <2>1. /\ migrator[p].phase = "serving" /\ rows' = rows + 1 /\ rows < RowBound
        /\ UNCHANGED <<applied, file, copies, migrator, initial, upgradeCrashes>>
    BY <1>8 DEF Upgrade!CommitRow
  <2>2. PICK k \in v0..v : migrator[p].pending = (k + 1)..Latest /\ migrator[p].pending = {}
    BY <2>1, <1>b DEF UpgradedTo
  <2>3. v = Latest
    <3>1. ~(k < Latest)
      <4>1. k < Latest => k + 1 \in (k + 1)..Latest
        BY <1>b DEF UpgradedTo
      <4> QED  BY <2>2, <4>1
    <3> QED  BY <3>1, <1>b DEF UpgradedTo
  <2>4. [applied |-> applied', rows |-> rows'] \in Upgrade!Databases
    BY <1>a, <2>1 DEF Upgrade!Databases
  <2>5. UpgradedTo(v0, v)'
    BY <1>b, <2>1, <2>3 DEF UpgradedTo
  <2> QED  BY <1>t, <1>a, <2>1, <2>4, <2>5
<1>9. ASSUME NEW p \in Migrators, Upgrade!Exit(p) PROVE UpgradeInv'
  <2>1. /\ migrator' = [migrator EXCEPT ![p] = [phase |-> "away", pending |-> {}]]
        /\ UNCHANGED <<applied, rows, file, copies, initial>>
        /\ upgradeCrashes' \in 0..UpgradeCrashBound
    BY <1>9, <1>a DEF Upgrade!Exit, Upgrade!Away
  <2>2. /\ migrator' \in [Migrators -> MigratorType]
        /\ \A q \in Migrators : q # p => migrator'[q] = migrator[q]
        /\ migrator'[p].phase = "away" /\ migrator'[p].pending = {}
    <3>1. [phase |-> "away", pending |-> {}] \in MigratorType
      BY DEF MigratorType
    <3> QED  BY <2>1, <1>a, <3>1
  <2> HIDE DEF MigratorType
  <2>3. UpgradedTo(v0, v)'
    BY <1>b, <2>1, <2>2 DEF UpgradedTo
  <2> QED  BY <1>t, <1>a, <2>1, <2>2, <2>3
<1>10. CASE UNCHANGED Upgrade!upgradeVars
  <2>1. UpgradedTo(v0, v)'
    BY <1>10, <1>b DEF Upgrade!upgradeVars, UpgradedTo
  <2> QED  BY <1>t, <1>10, <1>a, <2>1 DEF Upgrade!upgradeVars
<1> QED
  BY <1>1, <1>2, <1>3, <1>4, <1>5, <1>6, <1>7, <1>8, <1>9, <1>10
  DEF Upgrade!UpgradeNext

\* Some version is found.
LEMMA UpgradeBegins == Upgrade!UpgradeInit => UpgradeInv
<1> USE UpgradeAssumption
<1> SUFFICES ASSUME Upgrade!UpgradeInit PROVE UpgradeInv
  OBVIOUS
<1>1. PICK v \in 0..Latest : applied = Version(v)
  BY DEF Upgrade!UpgradeInit, Version, Upgrade!Migrations
<1>2. applied \in [Upgrade!Migrations -> 0..Upgrade!Cardinality(Migrators)]
  BY <1>1, MigratorCount DEF Version, Upgrade!Migrations
<1>3. rows \in 0..1 /\ 0..rows \subseteq 0..RowBound /\ rows \in 0..RowBound
  BY DEF Upgrade!UpgradeInit
<1>4. /\ initial = [applied |-> applied, rows |-> rows]
      /\ \E r \in 0..rows : file = [applied |-> applied, rows |-> r]
      /\ copies = {} /\ upgradeCrashes = 0
      /\ migrator = [p \in Migrators |-> [phase |-> "away", pending |-> {}]]
  BY DEF Upgrade!UpgradeInit, Upgrade!Database, Upgrade!Away
<1>5. \A r \in 0..RowBound : [applied |-> applied, rows |-> r] \in Upgrade!Databases
  BY <1>2 DEF Upgrade!Databases
<1>6. Upgrade!UpgradeTypeOK
  <2>1. [phase |-> "away", pending |-> {}] \in
          [phase : {"away", "checkpoint", "copy", "migrate", "transaction", "serving"},
           pending : SUBSET Upgrade!Migrations]
    OBVIOUS
  <2> QED  BY <1>3, <1>4, <1>5, <2>1 DEF Upgrade!UpgradeTypeOK, Upgrade!Database
<1>7. UpgradedTo(v, v)
  <2>1. initial.applied = applied /\ initial.rows = rows
    BY <1>4
  <2>2. \A p \in Migrators : migrator[p].phase = "away"
    BY <1>4
  <2> QED  BY <1>1, <2>1, <2>2 DEF UpgradedTo
<1> QED  BY <1>6, <1>7 DEF UpgradeInv

\* The ledger is a prefix, and a changed database has its copy.
LEMMA UpgradeHolds == UpgradeInv => Upgrade!UpgradeIsRecoverable
<1> USE UpgradeAssumption
<1> SUFFICES ASSUME UpgradeInv PROVE Upgrade!UpgradeIsRecoverable
  OBVIOUS
<1>1. PICK v0 \in 0..Latest : \E v \in 0..Latest : UpgradedTo(v0, v)
  BY DEF UpgradeInv
<1>2. PICK v \in 0..Latest : UpgradedTo(v0, v)
  BY <1>1
<1>3. \A m \in 1..Latest : /\ applied[m] = IF m <= v THEN 1 ELSE 0
                          /\ initial.applied[m] = IF m <= v0 THEN 1 ELSE 0
  BY <1>2 DEF UpgradedTo, Version
<1>4. \A m \in 1..Latest : applied[m] <= 1 /\ (m > 1 => applied[m] <= applied[m - 1])
  <2> TAKE m \in 1..Latest
  <2>1. m > 1 => m - 1 \in 1..Latest
    OBVIOUS
  <2> QED  BY <1>3, <2>1
<1>5. initial.applied[1] = 1 /\ applied # initial.applied => initial \in copies
  <2>1. initial.applied[1] = 1 => v0 >= 1
    BY <1>3
  <2>2. applied # initial.applied => v > v0
    BY <1>2 DEF UpgradedTo
  <2> QED  BY <2>1, <2>2, <1>2 DEF UpgradedTo
<1> QED  BY <1>4, <1>5 DEF Upgrade!UpgradeIsRecoverable, Upgrade!Migrations

-----------------------------------------------------------------------------
(* DatabaseRestore                                                         *)

\* What was committed to the old database, and whether the copy has what the
\* restore found.
Total == old.commits + old.logged
CopyServes == copy.file = "whole" /\ copy.commits + copy.logged >= due

\* A log is lost only with its file, or when it is empty; a database that is not
\* at the path any more has a copy, torn only if it was not damaged.
FilesInv ==
  /\ Total <= CommitBound
  /\ server.busy => server.open = "old" /\ Total < CommitBound
  /\ server.open = "old" => ~damaged
  /\ old.file # "gone" /\ old.log = "gone" => old.logged = 0 /\ server.open # "old"
  /\ old.file = "path" => old.log # "aside"
  /\ old.file # "path" => CopyServes \/ copy.file = "torn"
  /\ Total >= due \/ CopyServes
  /\ ~damaged => old.commits >= due
  /\ damaged => copy.file # "torn"
  /\ export.file # "raw"
\* Where the restore is, and what it has seen to by then.
CommandInv ==
  /\ command \in {"lock", "copy", "copying", "copyLog", "setAside"} => old.file = "path"
  /\ command \in {"copy", "copying", "copyLog"} => Total >= due
  /\ command = "copyLog" => /\ copy.file \in {"torn", "whole"}
                            /\ damaged => copy.commits = old.commits
                            /\ ~damaged => copy.commits >= due
  /\ command = "setAside" => CopyServes \/ copy.file = "torn"
  /\ command \in {"setLogAside", "delete"} \/ (command \in {"replace", "restrict"} /\ displaced)
       => old.file = "aside"
  /\ command = "deleteLog" => old.file = "gone"
  /\ command = "write" => export.snapshot = "sanitized"
RestoreInv == Restore!RestoreTypeOK /\ FilesInv /\ CommandInv

\* Changes of the old database.
OldType == [file : Restore!Places, commits : Int, log : Restore!Places, logged : Int]
\* Each of them is a database again.
LEMMA OldChanged ==
  ASSUME NEW o \in OldType, NEW c \in Int, NEW l \in Restore!Places, NEW g \in Int
  PROVE  /\ [o EXCEPT !.commits = c, !.logged = g, !.log = l] \in OldType
         /\ [o EXCEPT !.log = l, !.logged = g] \in OldType
         /\ [o EXCEPT !.log = l] \in OldType
BY DEF OldType

\* createPortableBackup, restorePortableBackup and a server beside them keep it,
\* wherever they fail or die.
LEMMA RestoreStep ==
  ASSUME RestoreInv, [Restore!RestoreNext]_Restore!restoreVars
  PROVE  RestoreInv'
<1> USE RestoreAssumption DEF RestoreInv, Total, CopyServes, Restore!RestoreTypeOK, Restore!Places,
            Restore!Then, Restore!Failure
<1>a. /\ old.commits \in Nat /\ old.logged \in Nat /\ due \in Nat
      /\ copy.commits \in Nat /\ copy.logged \in Nat /\ CommitBound \in Nat
      /\ 0 \in Restore!Commits /\ old.commits \in Restore!Commits /\ old.logged \in Restore!Commits
      /\ copy.commits \in Restore!Commits
      /\ old \in [file : Restore!Places, commits : Int, log : Restore!Places, logged : Int]
      /\ old \in OldType
  BY DEF Restore!Commits, OldType
<1>1. CASE Restore!ServerStart
  <2>1. /\ server'.open \in {"old", "new", "fresh"}
        /\ server'.open = "old" <=> old.file = "path"
        /\ ~server'.busy
        /\ old'.file = old.file
        /\ old'.commits = old.commits
        /\ old.file = "path" /\ old.log = "gone" => old'.log = "path" /\ old'.logged = old.logged
        /\ old.file # "path" /\ old.log = "path" /\ old' # old => old'.log = "gone" /\ old'.logged = 0
        /\ ~(old.file = "path" /\ old.log = "gone") /\ ~(old.file # "path" /\ old.log = "path")
             => old' = old
    BY <1>1, <1>a DEF Restore!ServerStart, Restore!AtPath
  <2>2. old' \in OldType
    <3>1. \/ old' = old \/ old' = [old EXCEPT !.log = "path"]
          \/ old' = [old EXCEPT !.log = "gone", !.logged = 0]
      BY <1>1 DEF Restore!ServerStart, Restore!AtPath
    <3>2. "path" \in Restore!Places /\ "gone" \in Restore!Places /\ 0 \in Int
      OBVIOUS
    <3>3. /\ [old EXCEPT !.log = "path"] \in OldType
          /\ [old EXCEPT !.log = "gone", !.logged = 0] \in OldType
      BY <3>2, <1>a, OldChanged
    <3> QED  BY <3>1, <3>3, <1>a
  <2>3. old'.commits \in Restore!Commits /\ old'.logged \in Restore!Commits
    BY <1>1, <2>1, <1>a DEF Restore!ServerStart, FilesInv, Restore!Commits
  <2>4. old' \in [file : Restore!Places, commits : Restore!Commits,
                 log : Restore!Places, logged : Restore!Commits]
    BY <2>2, <2>3 DEF OldType
  <2>5. server' \in [open : {"none", "old", "new", "fresh"}, busy : BOOLEAN]
    BY <1>1, <1>a DEF Restore!ServerStart, Restore!AtPath
  <2>6. Restore!RestoreTypeOK'
    BY <1>1, <2>1, <2>4, <2>5, <1>a DEF Restore!ServerStart, FilesInv, Restore!Commits
  <2>7. FilesInv'
    BY <1>1, <2>1, <2>6, <1>a DEF Restore!ServerStart, FilesInv, CommandInv, Restore!Commits
  <2>8. CommandInv'
    BY <1>1, <2>1, <2>6, <1>a DEF Restore!ServerStart, FilesInv, CommandInv, Restore!Commits
  <2> QED  BY <2>6, <2>7, <2>8
<1>2. CASE Restore!Begin
  <2>1. /\ server'.busy
        /\ server'.open = "old"
    BY <1>2, <1>a DEF Restore!Begin, Restore!AtPath
  <2>2. server' \in [open : {"none", "old", "new", "fresh"}, busy : BOOLEAN]
    BY <1>2, <1>a DEF Restore!Begin, Restore!AtPath
  <2>3. Restore!RestoreTypeOK'
    BY <1>2, <2>1, <2>2, <1>a DEF Restore!Begin, FilesInv, Restore!Commits
  <2>4. FilesInv'
    BY <1>2, <2>1, <2>3, <1>a DEF Restore!Begin, FilesInv, CommandInv, Restore!Commits
  <2>5. CommandInv'
    BY <1>2, <2>1, <2>3, <1>a DEF Restore!Begin, FilesInv, CommandInv, Restore!Commits
  <2> QED  BY <2>3, <2>4, <2>5
<1>3. CASE Restore!Commit
  <2>1. /\ ~server'.busy
        /\ server'.open = server.open
        /\ old'.file = old.file
        /\ old'.commits = old.commits
        /\ old'.log = old.log
        /\ old'.logged = old.logged + 1
    BY <1>3, <1>a DEF Restore!Commit, Restore!AtPath
  <2>2. old' \in OldType
    BY <1>3, <1>a DEF Restore!Commit, OldType
  <2>3. old'.commits \in Restore!Commits /\ old'.logged \in Restore!Commits
    BY <1>3, <2>1, <1>a DEF Restore!Commit, FilesInv, Restore!Commits
  <2>4. old' \in [file : Restore!Places, commits : Restore!Commits,
                 log : Restore!Places, logged : Restore!Commits]
    BY <2>2, <2>3 DEF OldType
  <2>5. server' \in [open : {"none", "old", "new", "fresh"}, busy : BOOLEAN]
    BY <1>3, <1>a DEF Restore!Commit, Restore!AtPath
  <2>6. Restore!RestoreTypeOK'
    BY <1>3, <2>1, <2>4, <2>5, <1>a DEF Restore!Commit, FilesInv, Restore!Commits
  <2>7. FilesInv'
    BY <1>3, <2>1, <2>6, <1>a DEF Restore!Commit, FilesInv, CommandInv, Restore!Commits
  <2>8. CommandInv'
    BY <1>3, <2>1, <2>6, <1>a DEF Restore!Commit, FilesInv, CommandInv, Restore!Commits
  <2> QED  BY <2>6, <2>7, <2>8
<1>4. ASSUME Restore!ServerStop \/ Restore!Checkpoint PROVE RestoreInv'
  <2>1. CASE server.open = "old"
    <3>1. PICK log \in Restore!Places :
            /\ Restore!WriteLog(log)
            /\ \/ log = old.log /\ server' = server
               \/ /\ log = (IF old.log = "path" THEN "gone" ELSE old.log)
                  /\ server' = [open |-> "none", busy |-> FALSE]
            /\ ~server.busy
            /\ UNCHANGED <<damaged, new, fresh, export, command, displaced, due, restores,
                           restoreCrashes>>
      BY <1>4, <1>a, <2>1 DEF Restore!ServerStop, Restore!Checkpoint
    <3>2. PICK total \in Nat : total = old.commits + old.logged
      BY <1>a
    <3>3. old' = [old EXCEPT !.commits = total, !.logged = 0, !.log = log]
      BY <3>1, <3>2 DEF Restore!WriteLog
    <3>4. old' \in OldType
      <4>1. 0 \in Int /\ total \in Int
        BY <3>2
      <4>2. [old EXCEPT !.commits = total, !.logged = 0, !.log = log] \in OldType
        BY <1>a, <4>1, OldChanged
      <4> QED  BY <3>3, <4>2
    <3>5. old'.file = old.file /\ old'.commits = total /\ old'.logged = 0 /\ old'.log = log
      BY <1>a, <3>3 DEF OldType
    <3>6. /\ copy' \in [file : {"none", "partial", "torn", "whole"}, commits : Restore!Commits,
                         logged : Restore!Commits]
          /\ copy'.commits = copy.commits /\ copy'.logged = copy.logged
          /\ copy' = copy \/ (copy'.file = "torn" /\ command = "copying")
      BY <3>1 DEF Restore!WriteLog
    <3>7. total \in Restore!Commits /\ 0 \in Restore!Commits
      BY <1>a, <3>2 DEF FilesInv, Restore!Commits
    <3>8. Restore!RestoreTypeOK'
      <4>1. old' \in [file : Restore!Places, commits : Restore!Commits,
                      log : Restore!Places, logged : Restore!Commits]
        BY <3>4, <3>5, <3>7 DEF OldType
      <4>2. server' \in [open : {"none", "old", "new", "fresh"}, busy : BOOLEAN]
        <5>1. server' = server \/ server' = [open |-> "none", busy |-> FALSE]
          BY <3>1
        <5>2. server \in [open : {"none", "old", "new", "fresh"}, busy : BOOLEAN]
          OBVIOUS
        <5>3. [open |-> "none", busy |-> FALSE]
                \in [open : {"none", "old", "new", "fresh"}, busy : BOOLEAN]
          OBVIOUS
        <5> QED  BY <5>1, <5>2, <5>3
      <4> QED  BY <3>1, <3>6, <4>1, <4>2
    <3>9. ~damaged /\ old.commits >= due /\ total >= due /\ total <= CommitBound
      BY <1>a, <2>1, <3>2 DEF FilesInv
    <3>10. command = "copying" => old.file = "path"
      BY DEF CommandInv
    <3>11. FilesInv'
      BY <1>a, <2>1, <3>1, <3>2, <3>5, <3>6, <3>9, <3>10 DEF FilesInv
    <3>12. CommandInv'
      BY <1>a, <2>1, <3>1, <3>2, <3>5, <3>6, <3>9 DEF CommandInv
    <3> QED  BY <3>8, <3>11, <3>12
  <2>2. CASE server.open # "old"
    <3>1. /\ server' = [open |-> "none", busy |-> FALSE]
          /\ UNCHANGED <<damaged, old, new, fresh, copy, export, command, displaced, due, restores,
                         restoreCrashes>>
      BY <1>4, <2>2 DEF Restore!ServerStop, Restore!Checkpoint
    <3>2. FilesInv' /\ CommandInv'
      BY <2>2, <3>1 DEF FilesInv, CommandInv
    <3> QED  BY <3>1, <3>2
  <2> QED  BY <2>1, <2>2
<1>5. CASE Restore!ServerDies
  <2>1. /\ ~server'.busy
        /\ server'.open = "none"
    BY <1>5, <1>a DEF Restore!ServerDies, Restore!AtPath
  <2>2. server' \in [open : {"none", "old", "new", "fresh"}, busy : BOOLEAN]
    BY <1>5, <1>a DEF Restore!ServerDies, Restore!AtPath
  <2>3. Restore!RestoreTypeOK'
    BY <1>5, <2>1, <2>2, <1>a DEF Restore!ServerDies, FilesInv, Restore!Commits
  <2>4. FilesInv'
    BY <1>5, <2>1, <2>3, <1>a DEF Restore!ServerDies, FilesInv, CommandInv, Restore!Commits
  <2>5. CommandInv'
    BY <1>5, <2>1, <2>3, <1>a DEF Restore!ServerDies, FilesInv, CommandInv, Restore!Commits
  <2> QED  BY <2>3, <2>4, <2>5
<1>6. CASE Restore!Snapshot
  <2>1. /\ export'.snapshot = "raw"
        /\ export'.file = export.file
    BY <1>6, <1>a DEF Restore!Snapshot, Restore!AtPath
  <2>2. export' \in [snapshot : {"none", "raw", "sanitized"}, file : {"none", "raw", "sanitized"}]
    BY <1>6, <1>a DEF Restore!Snapshot, Restore!AtPath
  <2>3. Restore!RestoreTypeOK'
    BY <1>6, <2>1, <2>2, <1>a DEF Restore!Snapshot, FilesInv, Restore!Commits
  <2>4. FilesInv'
    BY <1>6, <2>1, <2>3, <1>a DEF Restore!Snapshot, FilesInv, CommandInv, Restore!Commits
  <2>5. CommandInv'
    BY <1>6, <2>1, <2>3, <1>a DEF Restore!Snapshot, FilesInv, CommandInv, Restore!Commits
  <2> QED  BY <2>3, <2>4, <2>5
<1>7. CASE Restore!Sanitize
  <2>1. /\ export'.snapshot = "sanitized"
        /\ export'.file = export.file
    BY <1>7, <1>a DEF Restore!Sanitize, Restore!AtPath
  <2>2. export' \in [snapshot : {"none", "raw", "sanitized"}, file : {"none", "raw", "sanitized"}]
    BY <1>7, <1>a DEF Restore!Sanitize, Restore!AtPath
  <2>3. Restore!RestoreTypeOK'
    BY <1>7, <2>1, <2>2, <1>a DEF Restore!Sanitize, FilesInv, Restore!Commits
  <2>4. FilesInv'
    BY <1>7, <2>1, <2>3, <1>a DEF Restore!Sanitize, FilesInv, CommandInv, Restore!Commits
  <2>5. CommandInv'
    BY <1>7, <2>1, <2>3, <1>a DEF Restore!Sanitize, FilesInv, CommandInv, Restore!Commits
  <2> QED  BY <2>3, <2>4, <2>5
<1>8. CASE Restore!Write
  <2>1. /\ export'.snapshot = "none"
        /\ export'.file = export.snapshot
    BY <1>8, <1>a DEF Restore!Write, Restore!AtPath
  <2>2. export' \in [snapshot : {"none", "raw", "sanitized"}, file : {"none", "raw", "sanitized"}]
    BY <1>8, <1>a DEF Restore!Write, Restore!AtPath
  <2>3. Restore!RestoreTypeOK'
    BY <1>8, <2>1, <2>2, <1>a DEF Restore!Write, FilesInv, Restore!Commits
  <2>4. FilesInv'
    BY <1>8, <2>1, <2>3, <1>a DEF Restore!Write, FilesInv, CommandInv, Restore!Commits
  <2>5. CommandInv'
    BY <1>8, <2>1, <2>3, <1>a DEF Restore!Write, FilesInv, CommandInv, Restore!Commits
  <2> QED  BY <2>3, <2>4, <2>5
<1>9. CASE Restore!Extract
  <2>0. /\ restores' \in 0..RestoreBound /\ new' = "extracted" /\ displaced' = FALSE
        /\ command' \in {"replace", "lock"}
        /\ command' = "lock" => old.file = "path"
        /\ UNCHANGED <<damaged, old, fresh, copy, export, server, due, restoreCrashes>>
    BY <1>9 DEF Restore!Extract, Restore!AtPath
  <2>1. Restore!RestoreTypeOK'
    <3>1. /\ damaged' = damaged /\ old' = old /\ fresh' = fresh /\ copy' = copy
          /\ export' = export /\ server' = server /\ due' = due /\ restoreCrashes' = restoreCrashes
      BY <2>0
    <3> QED  BY <2>0, <3>1
  <2>2. FilesInv'
    BY <2>0, <2>1 DEF FilesInv
  <2>3. CommandInv'
    BY <2>0, <2>1 DEF CommandInv
  <2> QED  BY <2>1, <2>2, <2>3
<1>10. CASE Restore!Lock
  <2>1. /\ server.busy => old' = old /\ due' = due /\ command' = "none"
        /\ ~server.busy => command' = "copy" /\ due' = Total
        /\ ~server.busy /\ damaged => old' = old
        /\ ~server.busy /\ ~damaged => /\ old'.file = old.file /\ old'.commits = Total /\ old'.logged = 0
                                   /\ old'.log = (IF server.open = "old" THEN old.log ELSE "gone")
    <3>1. CASE server.busy
      BY <1>10, <3>1 DEF Restore!Lock
    <3>2. CASE ~server.busy /\ damaged
      BY <1>10, <3>2 DEF Restore!Lock
    <3>3. CASE ~server.busy /\ ~damaged
      BY <1>10, <1>a, <3>3 DEF Restore!Lock
    <3> QED  BY <3>1, <3>2, <3>3
  <2>2. old' \in OldType
    <3> DEFINE log == IF server.open = "old" THEN old.log ELSE "gone"
               total == old.commits + old.logged
    <3>1. \/ old' = old \/ old' = [old EXCEPT !.commits = total, !.logged = 0, !.log = log]
      BY <1>10 DEF Restore!Lock
    <3>2. log \in Restore!Places /\ total \in Int /\ 0 \in Int
      BY <1>a
    <3> HIDE DEF log, total
    <3>3. [old EXCEPT !.commits = total, !.logged = 0, !.log = log] \in OldType
      BY <3>2, <1>a, OldChanged
    <3> QED  BY <3>1, <3>3, <1>a
  <2>3. old'.commits \in Restore!Commits /\ old'.logged \in Restore!Commits
    BY <1>10, <2>1, <1>a DEF Restore!Lock, FilesInv, Restore!Commits
  <2>4. old' \in [file : Restore!Places, commits : Restore!Commits,
                 log : Restore!Places, logged : Restore!Commits]
    BY <2>2, <2>3 DEF OldType
  <2>5. Restore!RestoreTypeOK'
    BY <1>10, <2>1, <2>4, <1>a DEF Restore!Lock, FilesInv, Restore!Commits
  <2>6. FilesInv'
    BY <1>10, <2>1, <2>5, <1>a DEF Restore!Lock, FilesInv, CommandInv, Restore!Commits
  <2>7. CommandInv'
    BY <1>10, <2>1, <2>5, <1>a DEF Restore!Lock, FilesInv, CommandInv, Restore!Commits
  <2> QED  BY <2>5, <2>6, <2>7
<1>11. CASE Restore!CopyStarted
  <2>1. /\ copy'.file = "partial"
        /\ copy'.commits = 0
        /\ copy'.logged = 0
    BY <1>11, <1>a DEF Restore!CopyStarted, Restore!AtPath
  <2>2. copy' \in [file : {"none", "partial", "torn", "whole"},
                    commits : Restore!Commits, logged : Restore!Commits]
    BY <1>11, <1>a DEF Restore!CopyStarted, Restore!AtPath
  <2>3. Restore!RestoreTypeOK'
    BY <1>11, <2>1, <2>2, <1>a DEF Restore!CopyStarted, FilesInv, Restore!Commits
  <2>4. FilesInv'
    BY <1>11, <2>1, <2>3, <1>a DEF Restore!CopyStarted, FilesInv, CommandInv, Restore!Commits
  <2>5. CommandInv'
    BY <1>11, <2>1, <2>3, <1>a DEF Restore!CopyStarted, FilesInv, CommandInv, Restore!Commits
  <2> QED  BY <2>3, <2>4, <2>5
<1>12. CASE Restore!Copied
  <2>1. /\ copy'.file = IF copy.file = "torn" THEN "torn" ELSE "whole"
        /\ copy'.commits = old.commits
        /\ copy'.logged = copy.logged
    BY <1>12, <1>a DEF Restore!Copied, Restore!AtPath
  <2>2. copy' \in [file : {"none", "partial", "torn", "whole"},
                    commits : Restore!Commits, logged : Restore!Commits]
    BY <1>12, <1>a DEF Restore!Copied, Restore!AtPath
  <2>3. Restore!RestoreTypeOK'
    BY <1>12, <2>1, <2>2, <1>a DEF Restore!Copied, FilesInv, Restore!Commits
  <2>4. FilesInv'
    BY <1>12, <2>1, <2>3, <1>a DEF Restore!Copied, FilesInv, CommandInv, Restore!Commits
  <2>5. CommandInv'
    BY <1>12, <2>1, <2>3, <1>a DEF Restore!Copied, FilesInv, CommandInv, Restore!Commits
  <2> QED  BY <2>3, <2>4, <2>5
<1>13. CASE Restore!CopyLog
  <2>1. /\ copy'.file = copy.file \/ (copy'.file = "torn" /\ copy.commits # old.commits)
        /\ copy'.commits = copy.commits
        /\ copy'.logged = IF old.log = "path" THEN old.logged ELSE 0
    BY <1>13, <1>a DEF Restore!CopyLog, Restore!AtPath
  <2>2. copy' \in [file : {"none", "partial", "torn", "whole"},
                    commits : Restore!Commits, logged : Restore!Commits]
    BY <1>13, <1>a DEF Restore!CopyLog, Restore!AtPath
  <2>3. Restore!RestoreTypeOK'
    BY <1>13, <2>1, <2>2, <1>a DEF Restore!CopyLog, FilesInv, Restore!Commits
  <2>4. FilesInv'
    BY <1>13, <2>1, <2>3, <1>a DEF Restore!CopyLog, FilesInv, CommandInv, Restore!Commits
  <2>5. CommandInv'
    BY <1>13, <2>1, <2>3, <1>a DEF Restore!CopyLog, FilesInv, CommandInv, Restore!Commits
  <2> QED  BY <2>3, <2>4, <2>5
<1>14. CASE Restore!SetAside
  <2>1. /\ old'.file = "aside"
        /\ old'.commits = old.commits
        /\ old'.log = old.log
        /\ old'.logged = old.logged
    BY <1>14, <1>a DEF Restore!SetAside, Restore!AtPath
  <2>2. old' \in OldType
    BY <1>14, <1>a DEF Restore!SetAside, OldType
  <2>3. old'.commits \in Restore!Commits /\ old'.logged \in Restore!Commits
    BY <1>14, <2>1, <1>a DEF Restore!SetAside, FilesInv, Restore!Commits
  <2>4. old' \in [file : Restore!Places, commits : Restore!Commits,
                 log : Restore!Places, logged : Restore!Commits]
    BY <2>2, <2>3 DEF OldType
  <2>5. Restore!RestoreTypeOK'
    BY <1>14, <2>1, <2>4, <1>a DEF Restore!SetAside, FilesInv, Restore!Commits
  <2>6. FilesInv'
    BY <1>14, <2>1, <2>5, <1>a DEF Restore!SetAside, FilesInv, CommandInv, Restore!Commits
  <2>7. CommandInv'
    BY <1>14, <2>1, <2>5, <1>a DEF Restore!SetAside, FilesInv, CommandInv, Restore!Commits
  <2> QED  BY <2>5, <2>6, <2>7
<1>15. CASE Restore!SetLogAside
  <2>1. /\ old'.log = IF old.log = "path" THEN "aside" ELSE old.log
        /\ old'.file = old.file
        /\ old'.commits = old.commits
        /\ old'.logged = old.logged
    BY <1>15, <1>a DEF Restore!SetLogAside, Restore!AtPath
  <2>2. old' \in OldType
    BY <1>15, <1>a DEF Restore!SetLogAside, OldType
  <2>3. old'.commits \in Restore!Commits /\ old'.logged \in Restore!Commits
    BY <1>15, <2>1, <1>a DEF Restore!SetLogAside, FilesInv, Restore!Commits
  <2>4. old' \in [file : Restore!Places, commits : Restore!Commits,
                 log : Restore!Places, logged : Restore!Commits]
    BY <2>2, <2>3 DEF OldType
  <2>5. Restore!RestoreTypeOK'
    BY <1>15, <2>1, <2>4, <1>a DEF Restore!SetLogAside, FilesInv, Restore!Commits
  <2>6. FilesInv'
    BY <1>15, <2>1, <2>5, <1>a DEF Restore!SetLogAside, FilesInv, CommandInv, Restore!Commits
  <2>7. CommandInv'
    BY <1>15, <2>1, <2>5, <1>a DEF Restore!SetLogAside, FilesInv, CommandInv, Restore!Commits
  <2> QED  BY <2>5, <2>6, <2>7
<1>16. CASE Restore!Replace
  <2>1. Restore!RestoreTypeOK'
    BY <1>16, <1>a DEF Restore!Replace, FilesInv, Restore!Commits
  <2>2. FilesInv'
    BY <1>16, <2>1, <1>a DEF Restore!Replace, FilesInv, CommandInv, Restore!Commits
  <2>3. CommandInv'
    BY <1>16, <2>1, <1>a DEF Restore!Replace, FilesInv, CommandInv, Restore!Commits
  <2> QED  BY <2>1, <2>2, <2>3
<1>17. CASE Restore!Restrict
  <2>1. Restore!RestoreTypeOK'
    BY <1>17, <1>a DEF Restore!Restrict, FilesInv, Restore!Commits
  <2>2. FilesInv'
    BY <1>17, <2>1, <1>a DEF Restore!Restrict, FilesInv, CommandInv, Restore!Commits
  <2>3. CommandInv'
    BY <1>17, <2>1, <1>a DEF Restore!Restrict, FilesInv, CommandInv, Restore!Commits
  <2> QED  BY <2>1, <2>2, <2>3
<1>18. CASE Restore!Delete
  <2>1. /\ old'.file = "gone"
        /\ old'.commits = old.commits
        /\ old'.log = old.log
        /\ old'.logged = old.logged
    BY <1>18, <1>a DEF Restore!Delete, Restore!AtPath
  <2>2. old' \in OldType
    BY <1>18, <1>a DEF Restore!Delete, OldType
  <2>3. old'.commits \in Restore!Commits /\ old'.logged \in Restore!Commits
    BY <1>18, <2>1, <1>a DEF Restore!Delete, FilesInv, Restore!Commits
  <2>4. old' \in [file : Restore!Places, commits : Restore!Commits,
                 log : Restore!Places, logged : Restore!Commits]
    BY <2>2, <2>3 DEF OldType
  <2>5. Restore!RestoreTypeOK'
    BY <1>18, <2>1, <2>4, <1>a DEF Restore!Delete, FilesInv, Restore!Commits
  <2>6. FilesInv'
    BY <1>18, <2>1, <2>5, <1>a DEF Restore!Delete, FilesInv, CommandInv, Restore!Commits
  <2>7. CommandInv'
    BY <1>18, <2>1, <2>5, <1>a DEF Restore!Delete, FilesInv, CommandInv, Restore!Commits
  <2> QED  BY <2>5, <2>6, <2>7
<1>19. CASE Restore!DeleteLog
  <2>1. /\ old'.log = IF old.log = "aside" THEN "gone" ELSE old.log
        /\ old'.file = old.file
        /\ old'.commits = old.commits
        /\ old'.logged = old.logged
    BY <1>19, <1>a DEF Restore!DeleteLog, Restore!AtPath
  <2>2. old' \in OldType
    BY <1>19, <1>a DEF Restore!DeleteLog, OldType
  <2>3. old'.commits \in Restore!Commits /\ old'.logged \in Restore!Commits
    BY <1>19, <2>1, <1>a DEF Restore!DeleteLog, FilesInv, Restore!Commits
  <2>4. old' \in [file : Restore!Places, commits : Restore!Commits,
                 log : Restore!Places, logged : Restore!Commits]
    BY <2>2, <2>3 DEF OldType
  <2>5. Restore!RestoreTypeOK'
    BY <1>19, <2>1, <2>4, <1>a DEF Restore!DeleteLog, FilesInv, Restore!Commits
  <2>6. FilesInv'
    BY <1>19, <2>1, <2>5, <1>a DEF Restore!DeleteLog, FilesInv, CommandInv, Restore!Commits
  <2>7. CommandInv'
    BY <1>19, <2>1, <2>5, <1>a DEF Restore!DeleteLog, FilesInv, CommandInv, Restore!Commits
  <2> QED  BY <2>5, <2>6, <2>7
<1>20. CASE Restore!Fails
  <2>1. /\ command \in {"replace", "restrict"} /\ displaced
            => /\ old'.file = "path" /\ old'.log = (IF old.log = "aside" THEN "path" ELSE old.log)
               /\ old'.commits = old.commits /\ old'.logged = old.logged
        /\ ~(command \in {"replace", "restrict"} /\ displaced) => old' = old
        /\ export'.snapshot = "none"
        /\ export'.file = export.file
    BY <1>20, <1>a DEF Restore!Fails, Restore!AtPath
  <2>2. old' \in OldType
    BY <1>20, <1>a DEF Restore!Fails, OldType
  <2>3. old'.commits \in Restore!Commits /\ old'.logged \in Restore!Commits
    BY <1>20, <2>1, <1>a DEF Restore!Fails, FilesInv, Restore!Commits
  <2>4. old' \in [file : Restore!Places, commits : Restore!Commits,
                 log : Restore!Places, logged : Restore!Commits]
    BY <2>2, <2>3 DEF OldType
  <2>5. export' \in [snapshot : {"none", "raw", "sanitized"}, file : {"none", "raw", "sanitized"}]
    BY <1>20, <1>a DEF Restore!Fails, Restore!AtPath
  <2>6. Restore!RestoreTypeOK'
    BY <1>20, <2>1, <2>4, <2>5, <1>a DEF Restore!Fails, FilesInv, Restore!Commits
  <2>7. FilesInv'
    BY <1>20, <2>1, <2>6, <1>a DEF Restore!Fails, FilesInv, CommandInv, Restore!Commits
  <2>8. CommandInv'
    BY <1>20, <2>1, <2>6, <1>a DEF Restore!Fails, FilesInv, CommandInv, Restore!Commits
  <2> QED  BY <2>6, <2>7, <2>8
<1>21. CASE Restore!CommandDies
  <2>1. /\ export'.snapshot = "none"
        /\ export'.file = export.file
    BY <1>21, <1>a DEF Restore!CommandDies, Restore!AtPath
  <2>2. export' \in [snapshot : {"none", "raw", "sanitized"}, file : {"none", "raw", "sanitized"}]
    BY <1>21, <1>a DEF Restore!CommandDies, Restore!AtPath
  <2>3. Restore!RestoreTypeOK'
    BY <1>21, <2>1, <2>2, <1>a DEF Restore!CommandDies, FilesInv, Restore!Commits
  <2>4. FilesInv'
    BY <1>21, <2>1, <2>3, <1>a DEF Restore!CommandDies, FilesInv, CommandInv, Restore!Commits
  <2>5. CommandInv'
    BY <1>21, <2>1, <2>3, <1>a DEF Restore!CommandDies, FilesInv, CommandInv, Restore!Commits
  <2> QED  BY <2>3, <2>4, <2>5
<1>22. CASE UNCHANGED Restore!restoreVars
  BY <1>22 DEF Restore!restoreVars, FilesInv, CommandInv
<1> QED
  BY <1>1, <1>2, <1>3, <1>4, <1>5, <1>6, <1>7, <1>8, <1>9, <1>10, <1>11, <1>12, <1>13,
     <1>14, <1>15, <1>16, <1>17, <1>18, <1>19, <1>20, <1>21, <1>22
  DEF Restore!RestoreNext

\* A database is at its path at first, with its log if it is damaged.
LEMMA RestoreBegins ==
  ASSUME Restore!RestoreInit
  PROVE  RestoreInv
<1>1. /\ old.file = "path" /\ old.commits = 1 /\ old.logged \in {0, 1} /\ old.log \in {"gone", "path"}
      /\ old.log = "gone" => old.logged = 0
      /\ server.open = "none" /\ ~server.busy /\ command = "none" /\ due = 0
      /\ export.file \in {"none", "sanitized"} /\ copy.file = "none"
  BY DEF Restore!RestoreInit
<1>2. Restore!RestoreTypeOK
  <2>1. 0 \in Restore!Commits /\ 1 \in Restore!Commits
    BY RestoreAssumption DEF Restore!Commits
  <2>2. old \in [file : Restore!Places, commits : Restore!Commits, log : Restore!Places,
                 logged : Restore!Commits]
    BY <2>1 DEF Restore!RestoreInit, Restore!Places
  <2>3. /\ copy \in [file : {"none", "partial", "torn", "whole"}, commits : Restore!Commits,
                     logged : Restore!Commits]
        /\ export \in [snapshot : {"none", "raw", "sanitized"}, file : {"none", "raw", "sanitized"}]
        /\ server \in [open : {"none", "old", "new", "fresh"}, busy : BOOLEAN]
    BY <2>1 DEF Restore!RestoreInit
  <2>4. /\ damaged \in BOOLEAN /\ new \in {"none", "extracted", "path"} /\ fresh \in BOOLEAN
        /\ command = "none" /\ displaced \in BOOLEAN /\ due = 0
    BY DEF Restore!RestoreInit
  <2>5. restores \in 0..RestoreBound /\ restoreCrashes \in 0..RestoreCrashBound
    BY RestoreAssumption DEF Restore!RestoreInit
  <2> QED
    BY <2>1, <2>2, <2>3, <2>4, <2>5 DEF Restore!RestoreTypeOK
<1>3. FilesInv /\ CommandInv
  BY <1>1, RestoreAssumption DEF FilesInv, CommandInv, Total, CopyServes
<1> QED  BY <1>2, <1>3 DEF RestoreInv

\* What a log that is not at its file's place held is in the file.
LEMMA RestoreHolds ==
  ASSUME RestoreInv
  PROVE  Restore!RestoreIsRecoverable
<1>1. /\ old.file \in Restore!Places /\ old.log \in Restore!Places
      /\ old.commits \in Nat /\ old.logged \in Nat /\ due \in Nat
  BY DEF RestoreInv, Restore!RestoreTypeOK, Restore!Commits
<1> QED
  BY <1>1 DEF RestoreInv, FilesInv, Total, CopyServes, Restore!RestoreIsRecoverable, Restore!Places

-----------------------------------------------------------------------------
(* WhisperInstallation                                                     *)

\* The version current.json names is whole, and so is the version of every
\* call that is past its probe and the one it moved aside; while none is named
\* after an activation, a call holds it or died with it.
Aside(i) == installs[i].at \in {"replace", "putback"}
InstallInv ==
  /\ Whisper!InstallTypeOK
  /\ Whisper!PlacesAreWhole
  /\ currentManifest # "none" => targets[currentManifest] = "complete"
  /\ \A i \in Installers :
       /\ installs[i].at # "idle" => installs[i].version \in Versions
       /\ installs[i].at \in {"activate", "aside"} \/ Aside(i) =>
            targets[installs[i].version] = "complete"
       /\ Aside(i) => /\ installs[i].previous \in Versions
                      /\ targets[installs[i].previous] = "complete"
  /\ activated # "none" /\ currentManifest = "none" =>
       moving \/ \E i \in Installers : Aside(i)

\* LocalWhisperCppInstallationStore.install: a call, or its process dying,
\* leaves current.json with a whole version or somebody who can put one there.
LEMMA InstallStepKeeps ==
  ASSUME InstallInv, [Whisper!InstallNext]_Whisper!installVars
  PROVE  InstallInv'
<1> USE DEF InstallInv, Aside, Whisper!InstallTypeOK, Whisper!PlacesAreWhole, Whisper!At,
            Whisper!Goes,
            Whisper!Throws, Whisper!Fault, Whisper!NoFault, Whisper!Resting, Whisper!NoVersion,
            Whisper!Steps
<1>1. ASSUME NEW i \in Installers, Whisper!Look(i) PROVE InstallInv'
  BY <1>1, WhisperAssumption DEF Whisper!Look
<1>2. ASSUME NEW i \in Installers, Whisper!Copy(i) PROVE InstallInv'
  BY <1>2, WhisperAssumption DEF Whisper!Copy
<1>3. ASSUME NEW i \in Installers, Whisper!Place(i) PROVE InstallInv'
  BY <1>3, WhisperAssumption DEF Whisper!Place
<1>4. ASSUME NEW i \in Installers, Whisper!Probe(i) PROVE InstallInv'
  BY <1>4, WhisperAssumption DEF Whisper!Probe
<1>5. ASSUME NEW i \in Installers, Whisper!Activate(i) PROVE InstallInv'
  BY <1>5, WhisperAssumption DEF Whisper!Activate, Whisper!Activated
<1>6. ASSUME NEW i \in Installers, Whisper!SetAside(i) PROVE InstallInv'
  BY <1>6, WhisperAssumption DEF Whisper!SetAside
<1>7. ASSUME NEW i \in Installers, Whisper!Replace(i) PROVE InstallInv'
  BY <1>7, WhisperAssumption DEF Whisper!Replace, Whisper!Activated
<1>8. ASSUME NEW i \in Installers, Whisper!PutBack(i) PROVE InstallInv'
  BY <1>8, WhisperAssumption DEF Whisper!PutBack
<1>9. ASSUME NEW i \in Installers, NEW v \in Versions, Whisper!Begin(i, v) PROVE InstallInv'
  BY <1>9, WhisperAssumption DEF Whisper!Begin
<1>10. CASE Whisper!InstallerDies
  <2>1. installFaults' \in 0..InstallFaults
    BY <1>10, WhisperAssumption DEF Whisper!InstallerDies
  <2>2. /\ \A i \in Installers : installs'[i].at = "idle"
        /\ installs' \in [Installers -> [at : Whisper!Steps, version : Versions \cup {"none"},
                                         previous : Versions \cup {"none"}]]
    BY <1>10 DEF Whisper!InstallerDies
  <2>3. moving' \in BOOLEAN /\ (moving' <=> moving \/ \E i \in Installers : Aside(i))
    BY <1>10 DEF Whisper!InstallerDies
  <2> QED  BY <1>10, <2>1, <2>2, <2>3 DEF Whisper!InstallerDies
<1>11. CASE UNCHANGED Whisper!installVars
  BY <1>11 DEF Whisper!installVars
<1> QED
  BY <1>1, <1>2, <1>3, <1>4, <1>5, <1>6, <1>7, <1>8, <1>9, <1>10, <1>11
  DEF Whisper!InstallNext, Whisper!InstallStep

\* Nothing is installed at first.
LEMMA InstallBegins == Whisper!InstallInit => InstallInv
<1> SUFFICES ASSUME Whisper!InstallInit PROVE InstallInv
  OBVIOUS
<1> USE DEF Whisper!InstallInit, Whisper!Resting, Whisper!NoVersion
<1>1. 0 \in 0..InstallFaults
  BY WhisperAssumption
<1>2. \A i \in Installers : installs[i].at = "idle"
  OBVIOUS
<1>3. Whisper!InstallTypeOK
  BY <1>1 DEF Whisper!InstallTypeOK, Whisper!Steps
<1>4. Whisper!PlacesAreWhole
  BY DEF Whisper!PlacesAreWhole
<1> QED  BY <1>2, <1>3, <1>4 DEF InstallInv, Aside

\* The version that is named can be discovered.
LEMMA InstallHolds == InstallInv => Whisper!InstallationStays /\ Whisper!PlacesAreWhole
BY DEF InstallInv, Whisper!InstallationStays, Whisper!Discovered, Whisper!NoVersion,
       Whisper!PlacesAreWhole, Aside

-----------------------------------------------------------------------------
(* The four of them on the machine.                                        *)

\* A step of the machine is a step of one component and leaves the variables
\* of these as they are.
LEMMA StorageApart ==
  ASSUME [LocalNext]_localVars
  PROVE  /\ [Vault!VaultNext]_Vault!vaultVars
         /\ [Upgrade!UpgradeNext]_Upgrade!upgradeVars
         /\ [Restore!RestoreNext]_Restore!restoreVars
         /\ [Whisper!InstallNext]_Whisper!installVars
<1> USE DEF vaultVars, upgradeVars, restoreVars, whisperVars, storageVars,
            Vault!vaultVars, Upgrade!upgradeVars, Restore!restoreVars, Whisper!installVars
<1>1. CASE Storage
  BY <1>1 DEF Storage
<1>2. CASE UNCHANGED storageVars
  BY <1>2
<1>3. Media \/ Other \/ UNCHANGED localVars => UNCHANGED storageVars
  BY DEF Media, Other, localVars
<1> QED
  BY <1>1, <1>2, <1>3 DEF LocalNext

\* All four begin as they do alone, and keep their invariants.
StorageInv == VaultInv /\ VaultCounts /\ UpgradeInv /\ RestoreInv /\ InstallInv
LEMMA StorageInvariant == LocalSpec => []StorageInv
<1>1. LocalInit => StorageInv
  BY VaultBegins, VaultCountsBegin, UpgradeBegins, RestoreBegins, InstallBegins
  DEF LocalInit, StorageInv
<1>2. StorageInv /\ [LocalNext]_localVars => StorageInv'
  BY StorageApart, VaultStep, VaultCountStep, UpgradeStep, RestoreStep, InstallStepKeeps
  DEF StorageInv
<1> QED
  BY <1>1, <1>2, PTL DEF LocalSpec

\* The invariants give the variables their types.
LEMMA StorageTypes ==
  StorageInv => /\ Vault!VaultTypeOK /\ Upgrade!UpgradeTypeOK
                /\ Restore!RestoreTypeOK /\ Whisper!InstallTypeOK
BY VaultTypes DEF StorageInv, UpgradeInv, RestoreInv, InstallInv

\* Whatever process dies at whatever step: the vault that is shown can be
\* decrypted with the key at hand (LocalSecretStore), the database as an upgrade
\* found it is in the file or in a copy (runMigrations), and what a restore
\* replaces is at its path, aside or in the copy, whole; it is lost only once the
\* restore has deleted it with a copy into which a server wrote its log while it
\* was made (restorePortableBackup).
THEOREM DataStaysRecoverable == LocalSpec => []DataIsRecoverable
<1>1. StorageInv => DataIsRecoverable
  BY VaultHolds, UpgradeHolds, RestoreHolds DEF StorageInv, DataIsRecoverable
<1> QED
  BY <1>1, StorageInvariant, PTL
=============================================================================
