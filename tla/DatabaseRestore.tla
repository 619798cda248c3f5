--------------------------- MODULE DatabaseRestore --------------------------
(***************************************************************************)
(* createPortableBackup and restorePortableBackup: two CLI commands beside *)
(* a server that may be running.  A database is its file and its           *)
(* write-ahead log; either may be at the configured path, set aside under  *)
(* another name, or gone, and a server keeps the files it opened.  What a  *)
(* file holds is the number of transactions committed into it.  A copy is   *)
(* not made at once: what the server writes meanwhile may tear it.          *)
(***************************************************************************)
EXTENDS Integers

CONSTANTS
  CommitBound,        \* bound: transactions ever committed to the old database
  RestoreBound,       \* bound: restores started
  RestoreCrashBound   \* bound: crashes and failed file operations

VARIABLES
  damaged,     \* the database cannot be opened any more
  old,         \* the database in use before the restore
  new,         \* where the restored database is
  fresh,       \* an empty database was created at the path by a starting server
  copy,        \* the pre-restore copy and its log
  export,      \* the snapshot of a backup, and the backup file
  server,      \* the database the server has open, and is it in a transaction
  command,     \* where createPortableBackup or restorePortableBackup is
  displaced,   \* this restore set the database aside
  due,         \* transactions committed when the restore looked for the lock
  restores,
  restoreCrashes       \* crashes and failed file operations

restoreVars == <<damaged, old, new, fresh, copy, export, server, command, displaced, due,
                 restores, restoreCrashes>>

Commits == 0..CommitBound
Places == {"path", "aside", "gone"}
RestoreTypeOK ==
  /\ damaged \in BOOLEAN
  /\ old \in [file : Places, commits : Commits, log : Places, logged : Commits]
  /\ new \in {"none", "extracted", "path"}
  /\ fresh \in BOOLEAN
  /\ copy \in [file : {"none", "partial", "torn", "whole"}, commits : Commits, logged : Commits]
  /\ export \in [snapshot : {"none", "raw", "sanitized"}, file : {"none", "raw", "sanitized"}]
  /\ server \in [open : {"none", "old", "new", "fresh"}, busy : BOOLEAN]
  /\ command \in {"none", "sanitize", "write", "lock", "copy", "copying", "copyLog",
                  "setAside", "setLogAside", "replace", "restrict", "delete", "deleteLog"}
  /\ displaced \in BOOLEAN /\ due \in Commits
  /\ restores \in 0..RestoreBound /\ restoreCrashes \in 0..RestoreCrashBound

\* A backup may have been made before.
RestoreInit ==
  /\ damaged \in BOOLEAN
  /\ \/ ~damaged /\ old = [file |-> "path", commits |-> 1, log |-> "gone", logged |-> 0]
     \/ damaged /\ old = [file |-> "path", commits |-> 1, log |-> "path", logged |-> 1]
  /\ new = "none" /\ fresh = FALSE
  /\ copy = [file |-> "none", commits |-> 0, logged |-> 0]
  /\ export \in [snapshot : {"none"}, file : {"none", "sanitized"}]
  /\ server = [open |-> "none", busy |-> FALSE]
  /\ command = "none"
  /\ displaced = FALSE /\ due = 0 /\ restores = 0 /\ restoreCrashes = 0

-----------------------------------------------------------------------------
(* The server and its database.                                            *)

AtPath == IF old.file = "path" THEN "old" ELSE IF new = "path" THEN "new"
          ELSE IF fresh THEN "fresh" ELSE "none"

\* openDatabase: a missing database is created, and a log found beside an empty
\* database is dropped.
ServerStart ==
  /\ server.open = "none" /\ ~(damaged /\ AtPath = "old")
  /\ server' = [open |-> IF AtPath = "none" THEN "fresh" ELSE AtPath, busy |-> FALSE]
  /\ fresh' = (fresh \/ AtPath = "none")
  /\ old' = IF AtPath = "old" /\ old.log = "gone" THEN [old EXCEPT !.log = "path"]
            ELSE IF AtPath = "none" /\ old.log = "path"
                 THEN [old EXCEPT !.log = "gone", !.logged = 0] ELSE old
  /\ UNCHANGED <<damaged, new, copy, export, command, displaced, due, restores, restoreCrashes>>

\* A transaction begins, and is committed into the log the server has open.
Begin ==
  /\ server.open = "old" /\ ~server.busy /\ old.commits + old.logged < CommitBound
  /\ server' = [server EXCEPT !.busy = TRUE]
  /\ UNCHANGED <<damaged, old, new, fresh, copy, export, command, displaced, due, restores,
                 restoreCrashes>>
Commit ==
  /\ server.busy
  /\ server' = [server EXCEPT !.busy = FALSE]
  /\ old' = [old EXCEPT !.logged = @ + 1]
  /\ UNCHANGED <<damaged, new, fresh, copy, export, command, displaced, due, restores,
                 restoreCrashes>>

\* The log is written into the file, by SQLite when it has grown long and by
\* the last connection that closes; a copy of the file that is under way then
\* holds some pages from before and some from after.
WriteLog(then) ==
  /\ old' = [old EXCEPT !.commits = @ + old.logged, !.logged = 0, !.log = then]
  /\ copy' = IF command = "copying" /\ old.logged > 0 THEN [copy EXCEPT !.file = "torn"] ELSE copy
Checkpoint ==
  /\ server.open = "old" /\ ~server.busy /\ old.logged > 0
  /\ WriteLog(old.log)
  /\ UNCHANGED <<damaged, new, fresh, export, server, command, displaced, due, restores,
                 restoreCrashes>>

\* The server closes its database, or dies.
ServerStop ==
  /\ server.open # "none" /\ ~server.busy
  /\ server' = [open |-> "none", busy |-> FALSE]
  /\ IF server.open = "old" THEN WriteLog(IF old.log = "path" THEN "gone" ELSE old.log)
     ELSE UNCHANGED <<old, copy>>
  /\ UNCHANGED <<damaged, new, fresh, export, command, displaced, due, restores, restoreCrashes>>
ServerDies ==
  /\ server.open # "none"
  /\ restoreCrashes < RestoreCrashBound /\ restoreCrashes' = restoreCrashes + 1
  /\ server' = [open |-> "none", busy |-> FALSE]
  /\ UNCHANGED <<damaged, old, new, fresh, copy, export, command, displaced, due, restores>>

-----------------------------------------------------------------------------
(* createPortableBackup                                                    *)

Then(next) == command' = next
Failure == restoreCrashes < RestoreCrashBound /\ restoreCrashes' = restoreCrashes + 1

\* An existing output is refused; the snapshot is taken in a private directory.
Snapshot ==
  /\ command = "none" /\ export.file = "none" /\ AtPath = "old" /\ ~damaged
  /\ export' = [export EXCEPT !.snapshot = "raw"]
  /\ Then("sanitize")
  /\ UNCHANGED <<damaged, old, new, fresh, copy, server, displaced, due, restores, restoreCrashes>>

\* invalidateSecretDependentState: one transaction of the snapshot
Sanitize ==
  /\ command = "sanitize"
  /\ export' = [export EXCEPT !.snapshot = "sanitized"]
  /\ Then("write")
  /\ UNCHANGED <<damaged, old, new, fresh, copy, server, displaced, due, restores, restoreCrashes>>

\* writePortableFile: a temporary file, then a rename; the snapshot is removed.
Write ==
  /\ command = "write"
  /\ export' = [snapshot |-> "none", file |-> export.snapshot]
  /\ Then("none")
  /\ UNCHANGED <<damaged, old, new, fresh, copy, server, displaced, due, restores, restoreCrashes>>

-----------------------------------------------------------------------------
(* restorePortableBackup                                                   *)

\* readAndExtractBackup: the backup is validated as a whole, then extracted.
\* Bound: a restored database is not restored over again.
Extract ==
  /\ command = "none" /\ export.file # "none" /\ restores < RestoreBound
  /\ AtPath \in {"old", "none"}
  /\ restores' = restores + 1
  /\ new' = "extracted" /\ displaced' = FALSE
  /\ Then(IF AtPath = "none" THEN "replace" ELSE "lock")
  /\ UNCHANGED <<damaged, old, fresh, copy, export, server, due, restoreCrashes>>

\* BEGIN EXCLUSIVE fails only while another connection is in a transaction; an
\* idle server is not noticed.  The checkpoint waits for a statement of the
\* server; the log of a database that cannot be opened stays.
Lock ==
  /\ command = "lock"
  /\ IF server.busy THEN Then("none") /\ new' = "none" /\ UNCHANGED <<old, due>>
     ELSE /\ Then("copy") /\ UNCHANGED new
          /\ due' = old.commits + old.logged
          /\ old' = IF damaged THEN old
                    ELSE [old EXCEPT !.commits = @ + old.logged, !.logged = 0,
                                     !.log = IF server.open = "old" THEN @ ELSE "gone"]
  /\ UNCHANGED <<damaged, fresh, copy, export, server, displaced, restores, restoreCrashes>>

\* The copy: the file, page after page, then its log if there is one.
CopyStarted ==
  /\ command = "copy"
  /\ copy' = [file |-> "partial", commits |-> 0, logged |-> 0]
  /\ Then("copying")
  /\ UNCHANGED <<damaged, old, new, fresh, export, server, displaced, due, restores,
                 restoreCrashes>>
Copied ==
  /\ command = "copying"
  /\ copy' = [copy EXCEPT !.file = IF @ = "torn" THEN "torn" ELSE "whole", !.commits = old.commits]
  /\ Then("copyLog")
  /\ UNCHANGED <<damaged, old, new, fresh, export, server, displaced, due, restores,
                 restoreCrashes>>

\* Seeded fault: the log is left out of the copy.
CopyLogForgotten ==
  /\ command = "copyLog" /\ Then("setAside")
  /\ UNCHANGED <<damaged, old, new, fresh, copy, export, server, displaced, due, restores,
                 restoreCrashes>>

\* A log that was begun anew after the file was copied does not fit the copy.
CopyLog ==
  LET logged == IF old.log = "path" THEN old.logged ELSE 0 IN
  /\ command = "copyLog" /\ Then("setAside")
  /\ copy' = [copy EXCEPT !.logged = logged,
                          !.file = IF logged > 0 /\ copy.commits # old.commits THEN "torn" ELSE @]
  /\ UNCHANGED <<damaged, old, new, fresh, export, server, displaced, due, restores,
                 restoreCrashes>>

\* The database is renamed, then its log.
SetAside ==
  /\ command = "setAside" /\ Then("setLogAside")
  /\ old' = [old EXCEPT !.file = "aside"] /\ displaced' = TRUE
  /\ UNCHANGED <<damaged, new, fresh, copy, export, server, due, restores, restoreCrashes>>
SetLogAside ==
  /\ command = "setLogAside" /\ Then("replace")
  /\ old' = [old EXCEPT !.log = IF @ = "path" THEN "aside" ELSE @]
  /\ UNCHANGED <<damaged, new, fresh, copy, export, server, displaced, due, restores,
                 restoreCrashes>>
Replace ==
  /\ command = "replace" /\ Then("restrict")
  /\ new' = "path"
  /\ UNCHANGED <<damaged, old, fresh, copy, export, server, displaced, due, restores,
                 restoreCrashes>>
Restrict ==
  /\ command = "restrict"
  /\ Then(IF displaced THEN "delete" ELSE "none")
  /\ UNCHANGED <<damaged, old, new, fresh, copy, export, server, displaced, due, restores,
                 restoreCrashes>>

\* What was set aside is deleted.
Delete ==
  /\ command = "delete" /\ Then("deleteLog")
  /\ old' = [old EXCEPT !.file = "gone"]
  /\ UNCHANGED <<damaged, new, fresh, copy, export, server, displaced, due, restores,
                 restoreCrashes>>
DeleteLog ==
  /\ command = "deleteLog" /\ Then("none")
  /\ old' = [old EXCEPT !.log = IF @ = "aside" THEN "gone" ELSE @]
  /\ UNCHANGED <<damaged, new, fresh, copy, export, server, displaced, due, restores,
                 restoreCrashes>>

\* A file operation fails: before the replacement nothing is undone, but the
\* extracted file is removed; then what was set aside is renamed back.
Fails ==
  /\ command # "none" /\ Failure /\ Then("none")
  /\ new' = IF command \in {"delete", "deleteLog"} \/ new = "none" THEN new
            ELSE IF command = "restrict" /\ ~displaced THEN new ELSE "none"
  /\ old' = IF command \in {"replace", "restrict"} /\ displaced
            THEN [old EXCEPT !.file = "path", !.log = IF @ = "aside" THEN "path" ELSE @]
            ELSE old
  /\ export' = [export EXCEPT !.snapshot = "none"]
  /\ UNCHANGED <<damaged, fresh, copy, server, displaced, due, restores>>
CommandDies ==
  /\ command # "none" /\ Failure /\ Then("none")
  /\ new' = IF new = "extracted" THEN "none" ELSE new
  /\ export' = [export EXCEPT !.snapshot = "none"]
  /\ UNCHANGED <<damaged, old, fresh, copy, server, displaced, due, restores>>

RestoreNext ==
  \/ ServerStart \/ Begin \/ Commit \/ Checkpoint \/ ServerStop \/ ServerDies
  \/ Snapshot \/ Sanitize \/ Write
  \/ Extract \/ Lock \/ CopyStarted \/ Copied \/ CopyLog \/ SetAside \/ SetLogAside
  \/ Replace \/ Restrict \/ Delete \/ DeleteLog
  \/ Fails \/ CommandDies

RestoreSpec == RestoreInit /\ [][RestoreNext]_restoreVars

-----------------------------------------------------------------------------
\* Everything committed before a restore took the lock can be recovered, from
\* the path, from what was set aside or from the copy, wherever the restore
\* failed or died; and no backup file has accounts still connected.  A server
\* may run beside it, but when it wrote its log into the file while that was
\* copied, the copy is torn and the original, which is whole, deleted in the
\* end.  (What a server commits later to the files it has open is lost with
\* them.)
RestoreIsRecoverable ==
  /\ \/ old.file = "path" /\ old.commits + (IF old.log = "path" THEN old.logged ELSE 0) >= due
     \/ old.file = "aside" /\ old.commits + (IF old.log # "gone" THEN old.logged ELSE 0) >= due
     \/ copy.file = "whole" /\ copy.commits + copy.logged >= due
     \/ old.file = "gone" /\ copy.file = "torn"
  /\ export.file # "raw"
=============================================================================
