---------------------------- MODULE JobLifecycle ----------------------------
(***************************************************************************)
(* What the job queue promises about each job, without leases, workers or  *)
(* clocks: a job that is submitted is tried a bounded number of times, one *)
(* try at a time, and keeps its outcome.  Only a failed job may be opened  *)
(* again, with room for at least one more try.  JobQueue implements it.    *)
(***************************************************************************)
EXTENDS Integers, FiniteSets

CONSTANTS Jobs, Limit, Budget

VARIABLES
  life,     \* where the job is in its life
  tries,    \* how often it was begun
  allowed   \* how often it may be begun

vars == <<life, tries, allowed>>

Outcome == {"succeeded", "failed", "cancelled"}

Init ==
  /\ life = [j \in Jobs |-> "new"]
  /\ tries = [j \in Jobs |-> 0]
  /\ allowed = [j \in Jobs |-> Budget]

Keep(j) == UNCHANGED <<life[j], tries[j], allowed[j]>>

Move(j, from, to) ==
  /\ life[j] \in from
  /\ life'[j] \in to
  /\ UNCHANGED <<tries[j], allowed[j]>>

Begin(j) ==
  /\ life[j] = "open"
  /\ tries[j] < allowed[j]
  /\ life'[j] = "active"
  /\ tries'[j] = tries[j] + 1
  /\ allowed'[j] = allowed[j]

\* The try ended without an outcome: the job waits for the next one.
Yield(j) == tries[j] < allowed[j] /\ Move(j, {"active"}, {"open"})

Reopen(j) ==
  /\ life[j] = "failed"
  /\ life'[j] = "open"
  /\ tries'[j] = tries[j]
  /\ allowed'[j] >= allowed[j]
  /\ tries[j] < allowed'[j]

JobStep(j) ==
  \/ Keep(j)
  \/ Move(j, {"new"}, {"open"})
  \/ Begin(j)
  \/ Yield(j)
  \/ Move(j, {"active"}, Outcome)
  \/ Move(j, {"open"}, {"failed", "cancelled"})
  \/ Reopen(j)

\* Several jobs may move in one step (the recovery of expired leases), but at
\* most Limit jobs are active at a time.
Next ==
  /\ \A j \in Jobs : JobStep(j)
  /\ Cardinality({j \in Jobs : life'[j] = "active"}) <= Limit

Spec == Init /\ [][Next]_vars
=============================================================================
