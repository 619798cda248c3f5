----------------------------- MODULE SecretVault ----------------------------
(***************************************************************************)
(* EncryptedFileSecretStore: the vault file, its key file and the copy of  *)
(* a v0.x vault, used by the server and by CLI commands at the same time.  *)
(* An operation is its file-system calls, one action each; the promise     *)
(* chain of exclusive() serialises set and delete within one process only. *)
(***************************************************************************)
EXTENDS Integers, FiniteSets

CONSTANTS
  VaultCalls,        \* operations in flight
  ServerCalls,       \* those of the server process; the others are the CLI's
  References,        \* secret references
  CallBound,         \* bound: operations ever asked for
  KeyBound,          \* bound: keys ever generated
  VaultCrashBound

VARIABLES
  vault,        \* the vault file
  keyFile,      \* NoKey, PartialKey or the whole key in the key file
  legacyCopy,   \* the .v1.backup file
  calls,        \* the operation each slot is executing
  memo,         \* this.initialization of each process
  asked,        \* operations asked for so far
  values,       \* values set so far
  keys,         \* keys generated so far
  recovering,   \* a recovery ran while another operation was under way
  vaultCrashes

vaultVars == <<vault, keyFile, legacyCopy, calls, memo, asked, values, keys, recovering, vaultCrashes>>

NoKey == 0
PartialKey == 0 - 1
LegacyValue == 1
NoVault == [version |-> 0, keys |-> {}, secrets |-> [r \in References |-> 0]]
Legacy == [version |-> 1, keys |-> {1}, secrets |-> [r \in References |-> LegacyValue]]
Processes == {"server", "cli"}
ProcessOf(s) == IF s \in ServerCalls THEN "server" ELSE "cli"

NoCall == [op |-> "none", phase |-> "idle", ref |-> "none", after |-> {},
           document |-> NoVault, key |-> NoKey, stale |-> FALSE]
VaultFile == [version : 0..2, keys : SUBSET (1..KeyBound),
              secrets : [References -> 0..CallBound + 1]]
VaultTypeOK ==
  /\ vault \in VaultFile
  /\ keyFile \in {NoKey, PartialKey} \cup 1..KeyBound
  /\ legacyCopy \in {"none", "partial", "whole"}
  /\ \A s \in VaultCalls :
       /\ calls[s].op \in {"none", "get", "set", "delete", "recover"}
       /\ calls[s].phase \in {"idle", "init", "copy", "copying", "migrate", "read",
                              "vaultKey", "create", "fill", "entryKey", "write",
                              "archiveVault", "archiveKey"}
       /\ calls[s].ref \in References \cup {"none"}
       /\ calls[s].after \subseteq VaultCalls
       /\ calls[s].document \in VaultFile
       /\ calls[s].key \in 0..KeyBound /\ calls[s].stale \in BOOLEAN
  /\ memo \in [Processes -> {"none", "running", "done", "failed"}]
  /\ asked \in 0..CallBound /\ values \in 0..CallBound + 1 /\ keys \in 0..KeyBound
  /\ recovering \in BOOLEAN /\ vaultCrashes \in 0..VaultCrashBound

\* A fresh installation, or one whose vault is still in the v0.x format.
VaultInit ==
  /\ \/ vault = NoVault /\ keyFile = NoKey /\ keys = 0
     \/ vault = Legacy /\ keyFile = 1 /\ keys = 1
  /\ asked = 0 /\ values = LegacyValue
  /\ legacyCopy = "none"
  /\ calls = [s \in VaultCalls |-> NoCall]
  /\ memo = [p \in Processes |-> "none"]
  /\ recovering = FALSE /\ vaultCrashes = 0

-----------------------------------------------------------------------------
Busy(s) == calls[s].op # "none"
Mutating(s) == calls[s].op \in {"set", "delete"}
\* The slot of the next call of its process: which free one makes no difference.
NextSlot(s) == ~Busy(s) /\ s = CHOOSE t \in VaultCalls : ~Busy(t) /\ ProcessOf(t) = ProcessOf(s)
In(s, phase) == calls[s].phase = phase /\ calls[s].after = {}

\* The call of slot s ends, and whoever was queued behind it goes on.
EndedIn(c, s) ==
  [t \in VaultCalls |-> IF t = s THEN NoCall ELSE [c[t] EXCEPT !.after = @ \ {s}]]
Ends(s) == calls' = EndedIn(calls, s)
Goes(s, phase) == calls' = [calls EXCEPT ![s].phase = phase]

\* Seeded fault: set and delete do not wait for one another.
EarlierNone(s) == {}

\* exclusive() and get(): the mutations of this process asked for earlier
Earlier(s) == {t \in VaultCalls \ {s} : Mutating(t) /\ ProcessOf(t) = ProcessOf(s)}

\* A get, a set or a delete is asked for.  Which reference the first call
\* names makes no difference either.
Ask(s, op, r) ==
  /\ NextSlot(s) /\ asked < CallBound /\ asked' = asked + 1
  /\ asked = 0 /\ r # "none" => r = CHOOSE t \in References : TRUE
  /\ calls' = [calls EXCEPT ![s] =
       [NoCall EXCEPT !.op = op, !.phase = "init", !.ref = r, !.after = Earlier(s)]]
  /\ recovering' = (recovering \/ \E t \in VaultCalls : calls[t].op = "recover")
  /\ UNCHANGED <<vault, keyFile, legacyCopy, memo, values, keys, vaultCrashes>>

\* readReadyVault: initialize() is memoised, its failure too.
Initialized(s) ==
  LET p == ProcessOf(s) IN
  /\ In(s, "init") /\ memo[p] \in {"done", "failed"}
  /\ IF memo[p] = "failed" THEN Ends(s) ELSE Goes(s, "read")
  /\ UNCHANGED <<vault, keyFile, legacyCopy, memo, asked, values, keys, recovering, vaultCrashes>>

\* initializeOnce: the vault is read, then checked against its key.
Initialize(s) ==
  LET p == ProcessOf(s)
      fits == vault.keys \subseteq {keyFile} IN
  /\ In(s, "init") /\ memo[p] = "none"
  /\ \/ /\ vault = NoVault \/ (vault.version = 2 /\ fits)
        /\ memo' = [memo EXCEPT ![p] = "done"] /\ Goes(s, "read")
     \/ /\ vault # NoVault /\ ~fits
        /\ memo' = [memo EXCEPT ![p] = "failed"] /\ Ends(s)
     \/ /\ vault.version = 1 /\ fits
        /\ memo' = [memo EXCEPT ![p] = "running"]
        /\ calls' = [calls EXCEPT ![s].phase = "copy", ![s].document = vault, ![s].key = keyFile]
  /\ UNCHANGED <<vault, keyFile, legacyCopy, asked, values, keys, recovering, vaultCrashes>>

\* copyFile(..., COPYFILE_EXCL): the copy is there before it is whole.  The vault
\* may have gone meanwhile; one that exists must have the same contents.
CopyLegacy(s) ==
  /\ In(s, "copy")
  /\ \/ legacyCopy = "none" /\ vault # NoVault
        /\ legacyCopy' = "partial" /\ Goes(s, "copying") /\ UNCHANGED memo
     \/ legacyCopy = "whole" /\ Goes(s, "migrate") /\ UNCHANGED <<legacyCopy, memo>>
     \/ /\ legacyCopy = "partial" \/ vault = NoVault
        /\ memo' = [memo EXCEPT ![ProcessOf(s)] = "failed"]
        /\ Ends(s) /\ UNCHANGED legacyCopy
  /\ UNCHANGED <<vault, keyFile, asked, values, keys, recovering, vaultCrashes>>
LegacyCopied(s) ==
  /\ In(s, "copying")
  /\ legacyCopy' = "whole" /\ Goes(s, "migrate")
  /\ UNCHANGED <<vault, keyFile, memo, asked, values, keys, recovering, vaultCrashes>>

\* Every other operation that has read the vault now holds an old document.
Outdated(c, s) ==
  [t \in VaultCalls |->
     IF ProcessOf(t) # ProcessOf(s) /\ c[t].phase \notin {"idle", "init", "read"}
     THEN [c[t] EXCEPT !.stale = TRUE] ELSE c[t]]

\* writeVault is a temporary file and a rename: one step.
Migrate(s) ==
  /\ In(s, "migrate")
  /\ vault' = [calls[s].document EXCEPT !.version = 2]
  /\ memo' = [memo EXCEPT ![ProcessOf(s)] = "done"]
  /\ calls' = [Outdated(calls, s) EXCEPT ![s].phase = "read", ![s].document = NoVault,
                                         ![s].key = NoKey, ![s].stale = FALSE]
  /\ UNCHANGED <<keyFile, legacyCopy, asked, values, keys, recovering, vaultCrashes>>

\* readReadyVault: without a vault file a document is made up, and its key.
Read(s) ==
  /\ In(s, "read")
  /\ CASE vault = NoVault -> Goes(s, "vaultKey")
       [] vault.version = 1 -> Ends(s)
       [] OTHER ->
            IF calls[s].op = "get" THEN Ends(s)
            ELSE calls' = [calls EXCEPT ![s].document = vault, ![s].stale = FALSE,
                             ![s].phase = IF calls[s].op = "set" THEN "entryKey" ELSE "write"]
  /\ UNCHANGED <<vault, keyFile, legacyCopy, memo, asked, values, keys, recovering, vaultCrashes>>

\* The key k has been loaded: for the document made up, or for the new entry.
\* A get, or the delete of what is not there, ends here.
Loaded(s, c, k) ==
  IF calls[s].op \in {"get", "delete"} THEN EndedIn(c, s)
  ELSE IF calls[s].document = NoVault
  THEN [c EXCEPT ![s].document = [NoVault EXCEPT !.version = 2, !.keys = {k}],
                 ![s].phase = "entryKey"]
  ELSE [c EXCEPT ![s].key = k, ![s].phase = "write"]

\* loadOrCreateKey: a key is created only without a vault.
LoadKey(s) ==
  /\ In(s, "vaultKey") \/ In(s, "entryKey")
  /\ calls' = IF keyFile > 0 THEN Loaded(s, calls, keyFile)
              ELSE IF keyFile = PartialKey \/ vault # NoVault THEN EndedIn(calls, s)
              ELSE [calls EXCEPT ![s].phase = "create"]
  /\ UNCHANGED <<vault, keyFile, legacyCopy, memo, asked, values, keys, recovering, vaultCrashes>>

\* writeFile(..., 'wx'): of two creators one opens the file, the other reads it,
\* however much of it has been written.
CreateKey(s) ==
  /\ In(s, "create") /\ keys < KeyBound
  /\ IF keyFile = NoKey
     THEN keyFile' = PartialKey /\ Goes(s, "fill")
     ELSE /\ UNCHANGED keyFile
          /\ calls' = IF keyFile > 0 THEN Loaded(s, calls, keyFile) ELSE EndedIn(calls, s)
  /\ UNCHANGED <<vault, legacyCopy, memo, asked, values, keys, recovering, vaultCrashes>>
\* (A file archived meanwhile gets the key in the archive.)
FillKey(s) ==
  /\ In(s, "fill") /\ keys < KeyBound
  /\ keys' = keys + 1
  /\ keyFile' = IF keyFile = PartialKey THEN keys + 1 ELSE keyFile
  /\ calls' = Loaded(s, calls, keys + 1)
  /\ UNCHANGED <<vault, legacyCopy, memo, asked, values, recovering, vaultCrashes>>

\* set and delete write the document they read, with their own change.
Write(s) ==
  LET c == calls[s]
      v == IF c.op = "set" THEN values + 1 ELSE 0 IN
  /\ In(s, "write")
  /\ \/ /\ c.op = "delete" => c.document.secrets[c.ref] # 0
        /\ vault' = [c.document EXCEPT !.secrets[c.ref] = v,
                                       !.keys = @ \cup ({c.key} \ {NoKey})]
        /\ calls' = EndedIn(Outdated(calls, s), s)
        /\ values' = IF c.op = "set" THEN values + 1 ELSE values
     \/ Ends(s) /\ UNCHANGED <<vault, values>>        \* nothing to delete, or no space
  /\ UNCHANGED <<keyFile, legacyCopy, memo, asked, keys, recovering, vaultCrashes>>

-----------------------------------------------------------------------------
\* recoverForReconnect: the vault is renamed, then the key.
Recover(s) ==
  /\ ~Busy(s) /\ s \notin ServerCalls /\ asked < CallBound /\ asked' = asked + 1
  /\ recovering' = (recovering \/ \E t \in VaultCalls \ {s} : Busy(t))
  /\ calls' = [calls EXCEPT ![s] = [NoCall EXCEPT !.op = "recover", !.phase = "archiveVault"]]
  /\ UNCHANGED <<vault, keyFile, legacyCopy, memo, values, keys, vaultCrashes>>
ArchiveVault(s) ==
  /\ In(s, "archiveVault")
  /\ vault' = NoVault /\ Goes(s, "archiveKey")
  /\ recovering' = (recovering \/ \E t \in VaultCalls \ {s} : Busy(t))
  /\ UNCHANGED <<keyFile, legacyCopy, memo, asked, values, keys, vaultCrashes>>
ArchiveKey(s) ==
  /\ In(s, "archiveKey")
  /\ keyFile' = NoKey /\ Ends(s)
  /\ recovering' = (recovering \/ \E t \in VaultCalls \ {s} : Busy(t))
  /\ memo' = [memo EXCEPT ![ProcessOf(s)] = "none"]
  /\ UNCHANGED <<vault, legacyCopy, asked, values, keys, vaultCrashes>>

\* A process dies, or (the CLI) ends; what it was doing stops where it is.
ProcessEnds(p) ==
  /\ memo[p] # "none" \/ \E s \in VaultCalls : ProcessOf(s) = p /\ Busy(s)
  /\ \/ vaultCrashes < VaultCrashBound /\ vaultCrashes' = vaultCrashes + 1
     \/ /\ \A s \in VaultCalls : ProcessOf(s) = p => ~Busy(s)
        /\ UNCHANGED vaultCrashes
  /\ calls' = [s \in VaultCalls |-> IF ProcessOf(s) = p THEN NoCall ELSE calls[s]]
  /\ memo' = [memo EXCEPT ![p] = "none"]
  /\ UNCHANGED <<vault, keyFile, legacyCopy, asked, values, keys, recovering>>

VaultNext ==
  \/ \E s \in VaultCalls :
       \/ \E op \in {"set", "delete"}, r \in References : Ask(s, op, r)
       \/ Ask(s, "get", "none")
       \/ Initialized(s) \/ Initialize(s) \/ CopyLegacy(s) \/ LegacyCopied(s) \/ Migrate(s)
       \/ Read(s) \/ LoadKey(s) \/ CreateKey(s) \/ FillKey(s) \/ Write(s)
       \/ Recover(s) \/ ArchiveVault(s) \/ ArchiveKey(s)
  \/ \E p \in Processes : ProcessEnds(p)

VaultSpec == VaultInit /\ [][VaultNext]_vaultVars

-----------------------------------------------------------------------------
\* The vault never holds an entry the key file cannot open, and the v0.x vault
\* is replaced only when its copy is whole: whoever created the key first,
\* whoever crashed.  (A recovery while another operation is under way can leave
\* a vault whose key is archived.)
VaultReadable ==
  /\ ~recovering => vault.keys \subseteq {keyFile}
  /\ vault.version = 2 /\ (\E r \in References : vault.secrets[r] = LegacyValue)
       => legacyCopy = "whole"

\* A set or a delete changes only its own secret, however many are asked for at
\* a time; only a change made by another process after the vault was read can
\* be lost to it.
OtherSecretsKept ==
  [][\A s \in VaultCalls :
       In(s, "write") /\ calls'[s] = NoCall /\ vault' # vault /\ ~calls[s].stale /\ ~recovering
         => \A r \in References \ {calls[s].ref} : vault'.secrets[r] = vault.secrets[r]]_vaultVars
=============================================================================
