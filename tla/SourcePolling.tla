---------------------------- MODULE SourcePolling ----------------------------
(***************************************************************************)
(* The polling of one remote source: SourcePollingRunner                   *)
(* (packages/core/src/index.ts) and the rows it keeps,                     *)
(* SqliteSourcePollingRepository (packages/db/src/index.ts).               *)
(* Connections share nothing but the timer that polls them, so the module  *)
(* has one.                                                                *)
(*                                                                         *)
(* A poll awaits only the adapter.  What follows a page is synchronous, but *)
(* each statement commits on its own: the process may stop between two of  *)
(* them, and another process may change the connection.                    *)
(***************************************************************************)
EXTENDS Naturals

CONSTANTS
  Servers,         \* processes that poll; one in a normal installation
  Items,           \* how many items the channel will publish
  Watermarked,     \* the adapter skips items up to its watermark: YouTube does, Twitch does not
  PageSize,        \* items of one adapter page
  MaxPages,        \* maxPagesPerPoll
  Threshold,       \* authFailurePauseThreshold
  Interval,        \* ticks from a success to the next poll
  MaxDelay,        \* maxErrorRetryMs, in ticks of errorRetryBaseMs
  FailureBound,    \* bound: failures are counted up to here
  None

ASSUME PollingAssumption ==
  /\ {Items, PageSize, MaxPages, Threshold, Interval, MaxDelay, FailureBound} \subseteq Nat
  /\ Watermarked \in BOOLEAN
  /\ PageSize > 0 /\ MaxPages > 0 /\ Threshold > 0
  /\ FailureBound >= Threshold
  /\ None \notin Nat

VARIABLES
  published,   \* items the channel shows so far, in order 1, 2, ...
  connection,  \* source_connections
  observed,    \* source_items
  handedOff,   \* jobs with the key source-item:<id>:observed
  server,      \* each process: off, up, stopping
  poll         \* the pollConnection call in flight of each process

itemVars == <<observed, handedOff>>
pollingVars == <<published, connection, itemVars, server, poll>>

Least(a, b) == IF a <= b THEN a ELSE b

\* cursor is the newest item when the last successful poll began: YouTube stores
\* it as its watermark; no Twitch cursor holds it, there only the properties use it.
\* next is next_poll_at as the ticks left to it.
Connection ==
  [status : {"active", "paused", "authorization_failed"},
   owner : {"interval", "schedule"},
   cursor : 0..Items,
   failures : 0..FailureBound,
   next : Nat \cup {None},
   pending : BOOLEAN]               \* scheduled_poll_pending

\* cursor and token are the adapter's cursor: the newest item it has shown, and
\* the newest item of the page to come (0 for none).  failures and owner are those
\* of the row that listDue returned.
Poll ==
  [phase : {"idle", "fetch", "store", "handoff"},
   cursor : 0..Items, token : 0..Items, page : 0..MaxPages, todo : SUBSET (1..Items),
   failures : 0..FailureBound, owner : {"interval", "schedule"}]

Idle == [phase |-> "idle", cursor |-> 0, token |-> 0, page |-> 0, todo |-> {},
         failures |-> 0, owner |-> "interval"]

Synchronous(s) == poll[s].phase \in {"store", "handoff"}

Init ==
  /\ published = 0
  /\ connection = [status |-> "active", owner |-> "interval", cursor |-> 0,
                   failures |-> 0, next |-> 0, pending |-> FALSE]
  /\ observed = {}
  /\ handedOff = {}
  /\ server = [s \in Servers |-> "off"]
  /\ poll = [s \in Servers |-> Idle]

\* The channel publishes an item.
Publish ==
  /\ published < Items
  /\ published' = published + 1
  /\ UNCHANGED <<connection, itemVars, server, poll>>

-----------------------------------------------------------------------------
(* The rows.                                                               *)

\* 2 ** exponent for the exponents the code allows.
Doublings == <<1, 2, 4, 8, 16, 32, 64, 128, 256>>

RetryDelay(failures) == Least(Doublings[Least(failures, 8) + 1], MaxDelay)

\* Seeded fault: the failure at hand is counted twice.
PausesEarly(s, auth) == auth /\ poll[s].failures + 2 >= Threshold

Pauses(s, auth) == auth /\ poll[s].failures + 1 >= Threshold

\* recordPollFailure, without a guard on the status.
RecordPollFailure(failures, pauses) ==
  connection' = [connection EXCEPT
    !.status = IF pauses THEN "authorization_failed" ELSE "active",
    !.failures = Least(@ + 1, FailureBound),
    !.next = IF pauses THEN None ELSE RetryDelay(failures)]

\* recordPollSuccess, of an active connection only.
RecordPollSuccess(s) ==
  connection' =
    IF connection.status = "active"
    THEN [connection EXCEPT !.cursor = poll[s].cursor, !.failures = 0, !.pending = FALSE,
            !.next = IF poll[s].owner = "interval" THEN Interval ELSE None]
    ELSE connection

\* Seeded fault: a connection that failed is not listed again.
DueUnlessFailed ==
  /\ connection.status = "active" /\ connection.failures = 0
  /\ \/ connection.owner = "interval" /\ connection.next \in {None, 0}
     \/ connection.owner = "schedule" /\ connection.pending /\ connection.next = 0

\* listDue
Due ==
  /\ connection.status = "active"
  /\ \/ connection.owner = "interval" /\ connection.next \in {None, 0}
     \/ connection.owner = "schedule" /\ connection.pending /\ connection.next = 0

-----------------------------------------------------------------------------
(* pollConnection                                                          *)

\* runOnce finds the connection due and not being polled by this process.
StartPoll(s) ==
  /\ server[s] = "up"
  /\ poll[s].phase = "idle"
  /\ Due
  /\ poll' = [poll EXCEPT ![s] =
       [Idle EXCEPT !.phase = "fetch", !.cursor = connection.cursor, !.page = 1,
                    !.failures = connection.failures, !.owner = connection.owner]]
  /\ UNCHANGED <<published, connection, itemVars, server>>

\* The adapter of the connection is not registered.
AdapterUnavailable(s) ==
  /\ server[s] = "up"
  /\ poll[s].phase = "idle"
  /\ Due
  /\ RecordPollFailure(connection.failures, FALSE)
  /\ UNCHANGED <<published, itemVars, server, poll>>

\* SourceAdapter.poll of YouTube uploads and Twitch archives: pages from the newest
\* item down, and the watermark is that of the page before, not of the poll.
Page(s) ==
  /\ poll[s].phase = "fetch"
  /\ LET top == IF poll[s].page = 1 THEN published ELSE poll[s].token
         rest == IF top > PageSize THEN top - PageSize ELSE 0 IN
     poll' = [poll EXCEPT
       ![s].phase = "store", ![s].token = rest, ![s].cursor = IF top > @ THEN top ELSE @,
       ![s].todo = {i \in (rest + 1)..top : Watermarked => i > poll[s].cursor}]
  /\ UNCHANGED <<published, connection, itemVars, server>>

First(s, i) == i \in poll[s].todo /\ \A k \in poll[s].todo : i >= k

\* upsertObservedItem
Store(s, i) ==
  /\ poll[s].phase = "store"
  /\ First(s, i)
  /\ observed' = observed \cup {i}
  /\ poll' = [poll EXCEPT ![s].phase = "handoff"]
  /\ UNCHANGED <<published, connection, handedOff, server>>

\* jobs.create
Handoff(s, i) ==
  /\ poll[s].phase = "handoff"
  /\ First(s, i)
  /\ handedOff' = handedOff \cup {i}
  /\ poll' = [poll EXCEPT ![s].phase = "store", ![s].todo = @ \ {i}]
  /\ UNCHANGED <<published, connection, observed, server>>

\* Seeded fault: a page is finished before its items are handed over.
PageStoredEarly(s) == poll[s].phase = "store"

PageStored(s) == poll[s].phase = "store" /\ poll[s].todo = {}

NextPage(s) ==
  /\ PageStored(s)
  /\ poll[s].token > 0 /\ poll[s].page < MaxPages
  /\ poll' = [poll EXCEPT ![s].phase = "fetch", ![s].page = @ + 1]
  /\ UNCHANGED <<published, connection, itemVars, server>>

PollSucceeds(s) ==
  /\ PageStored(s)
  /\ poll[s].token = 0
  /\ RecordPollSuccess(s)
  /\ poll' = [poll EXCEPT ![s] = Idle]
  /\ UNCHANGED <<published, itemVars, server>>

PollGivesUp(s, pauses) ==
  /\ IF server[s] = "up" THEN RecordPollFailure(poll[s].failures, pauses)
     ELSE connection' = connection          \* aborted by stop
  /\ poll' = [poll EXCEPT ![s] = Idle]
  /\ UNCHANGED <<published, itemVars, server>>

\* The adapter throws.
PollFails(s) ==
  /\ poll[s].phase = "fetch"
  /\ \E auth \in BOOLEAN : PollGivesUp(s, Pauses(s, auth))

\* SOURCE_POLL_PAGE_LIMIT_REACHED
PageLimitReached(s) ==
  /\ PageStored(s)
  /\ poll[s].token > 0 /\ poll[s].page = MaxPages
  /\ PollGivesUp(s, FALSE)

-----------------------------------------------------------------------------
(* Processes and commands.                                                 *)

Start(s) ==
  /\ server[s] = "off"
  /\ server' = [server EXCEPT ![s] = "up"]
  /\ UNCHANGED <<published, connection, itemVars, poll>>

Stop(s) ==
  /\ server[s] = "up" /\ ~Synchronous(s)
  /\ server' = [server EXCEPT ![s] = "stopping"]
  /\ UNCHANGED <<published, connection, itemVars, poll>>

\* The process is gone: after stop has seen its poll end, or by a crash.
Gone(s) ==
  /\ server' = [server EXCEPT ![s] = "off"]
  /\ poll' = [poll EXCEPT ![s] = Idle]
  /\ UNCHANGED <<published, connection, itemVars>>

Stopped(s) == server[s] = "stopping" /\ poll[s].phase = "idle" /\ Gone(s)

Crash(s) == server[s] # "off" /\ Gone(s)

\* Commands come over HTTP or from the CLI, another process.
SetConnectionStatus(status) ==
  /\ connection' = [connection EXCEPT
       !.status = status, !.next = IF status = "active" THEN 0 ELSE None]
  /\ UNCHANGED <<published, itemVars, server, poll>>

RequestPoll ==
  /\ connection.status = "active"
  /\ connection' = [connection EXCEPT !.next = 0]
  /\ UNCHANGED <<published, itemVars, server, poll>>

\* enableScheduleCadence and requestScheduledPoll, called by the scheduler.
EnableScheduleCadence ==
  /\ connection.status = "active"
  /\ connection' = [connection EXCEPT !.owner = "schedule", !.next = None, !.pending = FALSE]
  /\ UNCHANGED <<published, itemVars, server, poll>>

\* Seeded fault: a scheduled request is dropped after a failed poll.
AcceptsUnlessFailed ==
  /\ connection.status = "active" /\ connection.owner = "schedule"
  /\ connection.next \in {None, 0} /\ connection.failures = 0

AcceptsScheduledPoll ==
  /\ connection.status = "active" /\ connection.owner = "schedule"
  /\ connection.next \in {None, 0}

RequestScheduledPoll ==
  /\ connection' = IF AcceptsScheduledPoll
                   THEN [connection EXCEPT !.next = 0, !.pending = TRUE] ELSE connection
  /\ UNCHANGED <<published, itemVars, server, poll>>

\* Seeded fault: the time left runs below zero.
ElapsedPastZero(t) == IF t = None THEN t ELSE t - 1

Elapsed(t) == IF t \in {None, 0} THEN t ELSE t - 1

Tick ==
  /\ connection' = [connection EXCEPT !.next = Elapsed(@)]
  /\ UNCHANGED <<published, itemVars, server, poll>>

-----------------------------------------------------------------------------
PollStep(s) ==
  \/ Page(s) \/ NextPage(s) \/ PollSucceeds(s) \/ PageLimitReached(s)
  \/ \E i \in 1..Items : Store(s, i) \/ Handoff(s, i)

PollFault(s) == PollFails(s) \/ AdapterUnavailable(s)

ServerStep(s) == Start(s) \/ Stopped(s) \/ StartPoll(s) \/ PollStep(s)

Command ==
  RequestPoll \/ \E status \in {"active", "paused"} : SetConnectionStatus(status)

Next ==
  \/ Publish
  \/ Command
  \/ EnableScheduleCadence
  \/ RequestScheduledPoll
  \/ Tick
  \/ \E s \in Servers : ServerStep(s) \/ PollFault(s) \/ Stop(s) \/ Crash(s)

Spec == Init /\ [][Next]_pollingVars

-----------------------------------------------------------------------------
(* Invariants.                                                             *)

\* Every row and every poll in flight is one the program knows.
PollingTypeOK ==
  /\ published \in 0..Items
  /\ connection \in Connection
  /\ observed \subseteq 1..Items
  /\ handedOff \subseteq 1..Items
  /\ server \in [Servers -> {"off", "up", "stopping"}]
  /\ poll \in [Servers -> Poll]

\* No item is lost: whatever was published when the last successful poll began has
\* a row and a job, wherever the process stopped and however many processes poll.
NothingLost ==
  \A i \in 1..Items : i <= connection.cursor => i \in observed /\ i \in handedOff

\* A connection is taken out of service for authorization only after as many
\* failures in a row as the threshold says.
AuthorizationPauseEarned ==
  connection.status = "authorization_failed" => connection.failures >= Threshold
=============================================================================
