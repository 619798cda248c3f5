------------------------------ MODULE Scheduler ------------------------------
(***************************************************************************)
(* Schedules (packages/core/src/schedule.ts with SqliteScheduleRepository,  *)
(* packages/db/src/index.ts) over the polling of the connection they drive. *)
(*                                                                         *)
(* One runOnce of a server has no await, so its statements interleave only *)
(* with other processes and with a crash.                                  *)
(***************************************************************************)
EXTENDS SourcePolling

CONSTANTS
  Schedules,        \* the schedules that may be created for the connection
  Period,           \* ticks to the instant of a schedule, and from one to the next
  OccurrenceBound,  \* bound: open occurrences of a schedule told apart
  FaultBound        \* bound: crashes, stops, adapter errors, failed dispatches

ASSUME ScheduleAssumption ==
  /\ {Period, OccurrenceBound, FaultBound} \subseteq Nat
  /\ Period > 0 /\ OccurrenceBound > 0
  /\ None \notin Schedules

VARIABLES
  schedules,  \* schedules
  open,       \* schedule_occurrences that listPendingDispatch returns
  creating,   \* the schedule of a ScheduleService.create between its two statements
  turn,       \* ScheduleService.runOnce of each server
  faults

schedulerVars == <<schedules, open, creating, turn>>
vars == <<pollingVars, schedulerVars, faults>>

\* kind is that of the definition, once the row is there.  next is
\* next_occurrence_at as the ticks left to it.
Schedule == [status : {"absent", "active", "completed"}, kind : {"none", "once", "cron-v1"},
             next : 0..Period]

\* A pending_dispatch or a failed row; dispatched rows are not read again.
Occurrences == Schedules \X (1..OccurrenceBound)

\* todo holds what listDue, then listPendingDispatch, returned; of the schedules
\* only those nobody has materialized since.
Turn == [phase : {"idle", "materialize", "request", "mark"},
         due : SUBSET Schedules, todo : SUBSET Occurrences]

NoTurn == [phase |-> "idle", due |-> {}, todo |-> {}]

SchedulerInit ==
  /\ Init
  /\ schedules = [x \in Schedules |-> [status |-> "absent", kind |-> "none", next |-> 0]]
  /\ open = {}
  /\ creating = None
  /\ turn = [s \in Servers |-> NoTurn]
  /\ faults = 0

-----------------------------------------------------------------------------
(* ScheduleService.create, in a process of its own or in a server.         *)

Create(x) ==
  /\ creating = None
  /\ schedules[x].status = "absent"
  /\ EnableScheduleCadence
  /\ creating' = x
  /\ UNCHANGED <<schedules, open, turn, faults>>

Created(x) ==
  /\ creating = x
  /\ \E kind \in {"once", "cron-v1"} :
       schedules' = [schedules EXCEPT ![x] = [status |-> "active", kind |-> kind, next |-> Period]]
  /\ creating' = None
  /\ UNCHANGED <<pollingVars, open, turn, faults>>

\* The creating process is gone: the connection is schedule-owned, without a schedule.
CreationLost ==
  /\ creating # None
  /\ faults < FaultBound
  /\ creating' = None
  /\ faults' = faults + 1
  /\ UNCHANGED <<pollingVars, schedules, open, turn>>

-----------------------------------------------------------------------------
(* runOnce                                                                 *)

DueSchedules == {x \in Schedules : schedules[x].status = "active" /\ schedules[x].next = 0}

\* A turn that finds nothing to do changes nothing.
StartTurn(s) ==
  /\ server[s] # "off"
  /\ turn[s].phase = "idle" /\ ~Synchronous(s)
  /\ DueSchedules # {} \/ open # {}
  /\ turn' = [turn EXCEPT ![s] = [NoTurn EXCEPT !.phase = "materialize", !.due = DueSchedules]]
  /\ UNCHANGED <<pollingVars, schedules, open, creating, faults>>

\* A new row; rows beyond the bound are not told apart.
Fresh(x) ==
  LET free == {k \in 1..OccurrenceBound : <<x, k>> \notin open} IN
  IF free = {} THEN <<x, OccurrenceBound>> ELSE <<x, CHOOSE k \in free : TRUE>>

\* A recurring schedule advances, to an instant strictly after now.
Advanced(x) ==
  IF schedules[x].kind = "once"
  THEN [status |-> "completed", kind |-> "once", next |-> 0]
  ELSE [status |-> "active", kind |-> schedules[x].kind, next |-> Period]

\* materialize
Materialize(s, x) ==
  /\ turn[s].phase = "materialize" /\ x \in turn[s].due
  /\ schedules' = [schedules EXCEPT ![x] = Advanced(x)]
  /\ open' = open \cup {Fresh(x)}
  /\ turn' = [t \in Servers |-> [turn[t] EXCEPT !.due = @ \ {x}]]
  /\ UNCHANGED <<pollingVars, creating, faults>>

StartDispatch(s) ==
  /\ turn[s].phase = "materialize" /\ turn[s].due = {}
  /\ turn' = [turn EXCEPT ![s].phase = "request", ![s].todo = open]
  /\ UNCHANGED <<pollingVars, schedules, open, creating, faults>>

Request(s) ==
  /\ turn[s].phase = "request" /\ turn[s].todo # {}
  /\ RequestScheduledPoll
  /\ turn' = [turn EXCEPT ![s].phase = "mark"]
  /\ UNCHANGED <<schedules, open, creating, faults>>

\* markDispatched
MarkDispatched(s, o) ==
  /\ turn[s].phase = "mark" /\ o \in turn[s].todo
  /\ open' = open \ {o}
  /\ turn' = [turn EXCEPT ![s].phase = "request", ![s].todo = @ \ {o}]
  /\ UNCHANGED <<pollingVars, schedules, creating, faults>>

\* Seeded fault: an occurrence whose dispatch failed is not listed again.
DispatchFailsForGood(s, o) ==
  /\ turn[s].phase \in {"request", "mark"} /\ o \in turn[s].todo
  /\ faults < FaultBound
  /\ open' = open \ {o}
  /\ turn' = [turn EXCEPT ![s].phase = "request", ![s].todo = @ \ {o}]
  /\ faults' = faults + 1
  /\ UNCHANGED <<pollingVars, schedules, creating>>

\* A statement of dispatch fails.  markDispatchFailed does not look at the status:
\* it also reopens a row that another server has just dispatched.
DispatchFails(s, o) ==
  /\ turn[s].phase \in {"request", "mark"} /\ o \in turn[s].todo
  /\ faults < FaultBound
  /\ open' = open \cup {o}
  /\ turn' = [turn EXCEPT ![s].phase = "request", ![s].todo = @ \ {o}]
  /\ faults' = faults + 1
  /\ UNCHANGED <<pollingVars, schedules, creating>>

TurnEnds(s) ==
  /\ turn[s].phase = "request" /\ turn[s].todo = {}
  /\ turn' = [turn EXCEPT ![s] = NoTurn]
  /\ UNCHANGED <<pollingVars, schedules, open, creating, faults>>

TurnStep(s) ==
  \/ \E x \in Schedules : Materialize(s, x)
  \/ StartDispatch(s) \/ Request(s) \/ TurnEnds(s)
  \/ \E o \in Occurrences : MarkDispatched(s, o)

-----------------------------------------------------------------------------
(* The polling of the connection, between the turns of the scheduler.      *)

Polling(s) ==
  /\ turn[s].phase = "idle"
  /\ ServerStep(s)
  /\ UNCHANGED <<schedulerVars, faults>>

Fault(s) ==
  /\ faults < FaultBound
  /\ faults' = faults + 1
  /\ \/ /\ turn[s].phase = "idle"
        /\ PollFault(s) \/ Stop(s)
        /\ turn' = turn
     \/ /\ Crash(s)
        /\ turn' = [turn EXCEPT ![s] = NoTurn]
  /\ UNCHANGED <<schedules, open, creating>>

Elsewhere == (Publish \/ Command) /\ UNCHANGED <<schedulerVars, faults>>

Time ==
  /\ Tick
  /\ schedules' = [x \in Schedules |-> [schedules[x] EXCEPT !.next = Elapsed(@)]]
  /\ UNCHANGED <<open, creating, turn, faults>>

SchedulerNext ==
  \/ Elsewhere
  \/ Time
  \/ \E x \in Schedules : Create(x) \/ Created(x)
  \/ CreationLost
  \/ \E s \in Servers :
       \/ Polling(s) \/ Fault(s) \/ StartTurn(s) \/ TurnStep(s)
       \/ \E o \in Occurrences : DispatchFails(s, o)

SchedulerSpec == SchedulerInit /\ [][SchedulerNext]_vars

\* A server is started again, its timers fire, synchronous code runs on, the adapter
\* answers or throws, and time passes.  What has to wait for the turns of the
\* scheduler, a poll or the end of stop, gets its turn in the end.
SchedulerFairSpec ==
  /\ SchedulerSpec
  /\ WF_vars(Time)
  /\ \A s \in Servers :
       /\ WF_vars(Polling(s)) /\ WF_vars(TurnStep(s)) /\ WF_vars(StartTurn(s))
       /\ SF_vars(Polling(s) /\ (StartPoll(s) \/ Stopped(s)))

-----------------------------------------------------------------------------
(* Properties.                                                             *)

SchedulerTypeOK ==
  /\ PollingTypeOK
  /\ schedules \in [Schedules -> Schedule]
  /\ open \subseteq Occurrences
  /\ creating \in Schedules \cup {None}
  /\ turn \in [Servers -> Turn]
  /\ faults \in 0..FaultBound

Polled == \E s \in Servers : poll[s].phase # "idle"

\* A poll that a schedule asked for takes place, after a cooldown if need be and
\* across restarts, unless the connection is taken out of service.
RequestLeadsToPoll == connection.pending ~> Polled \/ connection.status # "active"

\* When the instant of a schedule comes, the connection is polled, whatever
\* process stops between the occurrence, the request and the mark; unless the
\* connection is paused, or a poll that began under the interval cadence has
\* left its date.  A one-time schedule has no other instant to make up for an
\* occurrence that was lost.
DueInstantPolls ==
  DueSchedules # {} ~>
    \/ Polled \/ connection.status # "active"
    \/ connection.next \notin {None, 0} /\ ~connection.pending

\* A schedule gets its polls: the ones asked for and the ones that fall due.
SchedulesPoll == RequestLeadsToPoll /\ DueInstantPolls

\* A published item is handed over in the end, provided the connection stays active
\* and polled by interval; unless newer items push it out of the pages of a poll.
ItemsArrive ==
  \A i \in 1..Items :
    <>[](connection.status = "active" /\ connection.owner = "interval") =>
      (i <= published ~> i \in handedOff \/ published >= i + MaxPages * PageSize)
=============================================================================
