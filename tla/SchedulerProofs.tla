--------------------------- MODULE SchedulerProofs ---------------------------
(***************************************************************************)
(* Proofs about Scheduler and, through it, SourcePolling, for any servers,  *)
(* items, schedules and bounds.                                            *)
(***************************************************************************)
EXTENDS Scheduler, TLAPS

\* Of a poll under way: what it has passed, from the newest item it has seen down
\* to the page to come, has been stored and handed over but for what is in todo.
PollKeeps(s) ==
  /\ poll[s].phase # "idle" => poll[s].page >= 1
  /\ poll[s].phase = "fetch" =>
       poll[s].todo = {} /\ (poll[s].page = 1 => poll[s].token = 0)
  /\ poll[s].phase = "handoff" => \A i \in 1..Items : First(s, i) => i \in observed
  /\ poll[s].phase # "idle" =>
       \A i \in 1..Items :
         poll[s].token < i /\ i <= poll[s].cursor /\ i \notin poll[s].todo =>
           i \in observed /\ i \in handedOff

\* NothingLost is not inductive: the cursor that a success stores is the poll's.
Kept == NothingLost /\ \A s \in Servers : PollKeeps(s)

-----------------------------------------------------------------------------
(* The composition adds nothing to the polling it composes.                *)

\* A step of the scheduler is a step of the polling or leaves it alone.
LEMMA StepPolls == [SchedulerNext]_vars => [Next]_pollingVars
<1> SUFFICES ASSUME [SchedulerNext]_vars PROVE [Next]_pollingVars
  OBVIOUS
<1>1. CASE Elsewhere
  BY <1>1 DEF Elsewhere, Next
<1>2. CASE Time
  BY <1>2 DEF Time, Next
<1>3. ASSUME NEW x \in Schedules, Create(x) \/ Created(x) PROVE [Next]_pollingVars
  BY <1>3 DEF Create, Created, Next
<1>4. CASE CreationLost
  BY <1>4 DEF CreationLost
<1>5. ASSUME NEW s \in Servers, Polling(s) \/ Fault(s) PROVE [Next]_pollingVars
  BY <1>5 DEF Polling, Fault, Next
<1>6. ASSUME NEW s \in Servers, StartTurn(s) PROVE [Next]_pollingVars
  BY <1>6 DEF StartTurn
<1>7. ASSUME NEW s \in Servers, TurnStep(s) PROVE [Next]_pollingVars
  BY <1>7 DEF TurnStep, Materialize, StartDispatch, Request, TurnEnds, MarkDispatched, Next
<1>8. ASSUME NEW s \in Servers, NEW o \in Occurrences, DispatchFails(s, o)
      PROVE [Next]_pollingVars
  BY <1>8 DEF DispatchFails
<1>9. CASE UNCHANGED vars
  BY <1>9 DEF vars
<1> QED
  BY <1>1, <1>2, <1>3, <1>4, <1>5, <1>6, <1>7, <1>8, <1>9 DEF SchedulerNext

\* Whatever the schedules do, the connection and its items move by the actions of
\* SourcePolling: what holds of every polling holds under a scheduler.
THEOREM SchedulerPolls == SchedulerSpec => Spec
<1>1. SchedulerInit => Init
  BY DEF SchedulerInit
<1> QED
  BY <1>1, StepPolls, PTL DEF SchedulerSpec, Spec

-----------------------------------------------------------------------------
(* Types.                                                                  *)

\* The least of two numbers.
LEMMA LeastType == ASSUME NEW a \in Nat, NEW b \in Nat
                   PROVE Least(a, b) \in Nat /\ Least(a, b) <= a /\ Least(a, b) <= b
  BY DEF Least

\* A delay is a number.
LEMMA RetryDelayType == ASSUME NEW n \in Nat PROVE RetryDelay(n) \in Nat
<1>1. Least(n, 8) + 1 \in 1..9
  BY DEF Least
<1>2. Doublings[Least(n, 8) + 1] \in Nat
  BY <1>1 DEF Doublings
<1> QED
  BY <1>2, LeastType, PollingAssumption DEF RetryDelay

\* A failure keeps the cursor.
LEMMA FailureType ==
  ASSUME PollingTypeOK, NEW n \in 0..FailureBound, NEW pauses \in BOOLEAN, RecordPollFailure(n, pauses)
  PROVE  connection' \in Connection /\ connection'.cursor = connection.cursor
<1>1. RetryDelay(n) \in Nat
  BY RetryDelayType, PollingAssumption
<1>2. Least(connection.failures + 1, FailureBound) \in 0..FailureBound
  BY PollingAssumption DEF PollingTypeOK, Connection, Least
<1> QED
  BY <1>1, <1>2 DEF RecordPollFailure, PollingTypeOK, Connection

\* A success keeps the type of the row.
LEMMA SuccessType ==
  ASSUME PollingTypeOK, NEW s \in Servers, RecordPollSuccess(s)
  PROVE  connection' \in Connection
<1>1. connection \in Connection /\ poll[s].cursor \in 0..Items
  BY DEF PollingTypeOK, Poll
<1>2. PICK zero \in 0..FailureBound : zero = 0
  BY PollingAssumption
<1>3. PICK next \in Nat \cup {None} :
        next = IF poll[s].owner = "interval" THEN Interval ELSE None
  BY PollingAssumption
<1>4. connection' = connection \/
      connection' = [connection EXCEPT !.cursor = poll[s].cursor, !.failures = zero,
                                       !.pending = FALSE, !.next = next]
  BY <1>2, <1>3 DEF RecordPollSuccess
<1> QED
  BY <1>1, <1>4 DEF Connection

\* A poller that does nothing.
LEMMA IdleType == Idle \in Poll
  BY PollingAssumption DEF Idle, Poll

\* The types at the start,
LEMMA PollingTypeInit == Init => PollingTypeOK
<1> SUFFICES ASSUME Init PROVE PollingTypeOK
  OBVIOUS
<1>1. connection \in Connection
  BY PollingAssumption DEF Init, Connection
<1> QED
  BY <1>1, IdleType, PollingAssumption DEF Init, PollingTypeOK

\* and after every step.
LEMMA PollingTypeStep == PollingTypeOK /\ [Next]_pollingVars => PollingTypeOK'
<1> SUFFICES ASSUME PollingTypeOK, [Next]_pollingVars PROVE PollingTypeOK'
  OBVIOUS
<1> USE PollingAssumption
<1>1. CASE Publish
  BY <1>1 DEF Publish, PollingTypeOK, itemVars
<1>2. CASE Command \/ EnableScheduleCadence \/ RequestScheduledPoll
  <2>1. connection' \in Connection
    <3>1. connection \in Connection
      BY DEF PollingTypeOK
    <3>2. PICK soon \in Nat : soon = 0
      OBVIOUS
    <3>3. CASE RequestPoll
      BY <3>1, <3>2, <3>3 DEF RequestPoll, Connection
    <3>4. ASSUME NEW status \in {"active", "paused"}, SetConnectionStatus(status)
          PROVE connection' \in Connection
      <4>1. PICK next \in Nat \cup {None} : next = IF status = "active" THEN 0 ELSE None
        OBVIOUS
      <4> QED
        BY <3>1, <3>4, <4>1 DEF SetConnectionStatus, Connection
    <3>5. CASE EnableScheduleCadence
      BY <3>1, <3>5 DEF EnableScheduleCadence, Connection
    <3>6. CASE RequestScheduledPoll
      BY <3>1, <3>2, <3>6 DEF RequestScheduledPoll, Connection
    <3> QED
      BY <1>2, <3>3, <3>4, <3>5, <3>6 DEF Command
  <2> QED
    BY <1>2, <2>1 DEF Command, RequestPoll, SetConnectionStatus, EnableScheduleCadence,
                      RequestScheduledPoll, PollingTypeOK, itemVars
<1>3. CASE Tick
  <2>1. Elapsed(connection.next) \in Nat \cup {None}
    BY DEF Elapsed, PollingTypeOK, Connection
  <2>2. connection' \in Connection
    BY <1>3, <2>1 DEF Tick, PollingTypeOK, Connection
  <2> QED
    BY <1>3, <2>2 DEF Tick, PollingTypeOK, itemVars
<1>4. ASSUME NEW s \in Servers, Start(s) \/ Stop(s) PROVE PollingTypeOK'
  BY <1>4 DEF Start, Stop, PollingTypeOK, itemVars
<1>5. ASSUME NEW s \in Servers, Stopped(s) \/ Crash(s) PROVE PollingTypeOK'
  BY <1>5, IdleType DEF Stopped, Crash, Gone, PollingTypeOK, itemVars
<1>6. ASSUME NEW s \in Servers, StartPoll(s) PROVE PollingTypeOK'
  <2>1. [Idle EXCEPT !.phase = "fetch", !.cursor = connection.cursor, !.page = 1,
                     !.failures = connection.failures, !.owner = connection.owner] \in Poll
    <3>1. PICK one \in 0..MaxPages : one = 1
      OBVIOUS
    <3>2. /\ connection.cursor \in 0..Items /\ connection.failures \in 0..FailureBound
          /\ connection.owner \in {"interval", "schedule"}
      BY DEF PollingTypeOK, Connection
    <3>3. [Idle EXCEPT !.phase = "fetch", !.cursor = connection.cursor, !.page = one,
                     !.failures = connection.failures, !.owner = connection.owner] \in Poll
      BY IdleType, <3>2 DEF Poll
    <3> QED
      BY <3>1, <3>3
  <2> QED
    BY <1>6, <2>1 DEF StartPoll, PollingTypeOK, itemVars
<1>7. ASSUME NEW s \in Servers, AdapterUnavailable(s) PROVE PollingTypeOK'
  <2>1. connection' \in Connection
    BY <1>7, FailureType DEF AdapterUnavailable, PollingTypeOK, Connection
  <2> QED
    BY <1>7, <2>1 DEF AdapterUnavailable, PollingTypeOK, itemVars
<1>8. ASSUME NEW s \in Servers, Page(s) PROVE PollingTypeOK'
  <2> DEFINE top == IF poll[s].page = 1 THEN published ELSE poll[s].token
             rest == IF top > PageSize THEN top - PageSize ELSE 0
             new == {i \in (rest + 1)..top : Watermarked => i > poll[s].cursor}
             cur == IF top > poll[s].cursor THEN top ELSE poll[s].cursor
  <2>1. poll[s] \in Poll /\ published \in 0..Items
    BY DEF PollingTypeOK
  <2>2. top \in 0..Items
    BY <2>1 DEF Poll
  <2>3. rest \in 0..Items /\ cur \in 0..Items /\ new \in SUBSET (1..Items)
    BY <2>1, <2>2 DEF Poll
  <2>4. PICK token \in 0..Items, cursor \in 0..Items, todo \in SUBSET (1..Items) :
          poll' = [poll EXCEPT ![s].phase = "store", ![s].token = token,
                               ![s].cursor = cursor, ![s].todo = todo]
    BY <1>8, <2>3 DEF Page
  <2>5. poll' \in [Servers -> Poll]
    <3> DEFINE after == [poll[s] EXCEPT !.phase = "store", !.token = token,
                                        !.cursor = cursor, !.todo = todo]
    <3>1. after \in Poll
      BY <2>1, <2>4 DEF Poll
    <3>2. poll' = [poll EXCEPT ![s] = after]
      BY <2>4
    <3> HIDE DEF after
    <3> QED
      BY <3>1, <3>2 DEF PollingTypeOK
  <2> QED
    BY <1>8, <2>5 DEF Page, PollingTypeOK, itemVars
<1>9. ASSUME NEW s \in Servers, NEW i \in 1..Items, Store(s, i) \/ Handoff(s, i) PROVE PollingTypeOK'
  <2>1. poll' \in [Servers -> Poll]
    BY <1>9 DEF Store, Handoff, PollingTypeOK, Poll
  <2> QED
    BY <1>9, <2>1 DEF Store, Handoff, PollingTypeOK
<1>10. ASSUME NEW s \in Servers, NextPage(s) PROVE PollingTypeOK'
  <2>1. poll' \in [Servers -> Poll]
    BY <1>10 DEF NextPage, PollingTypeOK, Poll
  <2> QED
    BY <1>10, <2>1 DEF NextPage, PollingTypeOK, itemVars
<1>11. ASSUME NEW s \in Servers, PollSucceeds(s) PROVE PollingTypeOK'
  BY <1>11, SuccessType, IdleType DEF PollSucceeds, PollingTypeOK, itemVars
<1>12. ASSUME NEW s \in Servers, PollFails(s) \/ PageLimitReached(s) PROVE PollingTypeOK'
  <2>1. PICK pauses \in BOOLEAN : PollGivesUp(s, pauses)
    BY <1>12 DEF PollFails, PageLimitReached, Pauses
  <2>2. poll[s].failures \in 0..FailureBound
    BY DEF PollingTypeOK, Poll
  <2>3. connection' \in Connection
    BY <2>1, <2>2, FailureType DEF PollGivesUp, PollingTypeOK
  <2> QED
    BY <2>1, <2>3, IdleType DEF PollGivesUp, PollingTypeOK, itemVars
<1>13. CASE UNCHANGED pollingVars
  BY <1>13 DEF pollingVars, itemVars, PollingTypeOK
<1> QED
  BY <1>1, <1>2, <1>3, <1>4, <1>5, <1>6, <1>7, <1>8, <1>9, <1>10, <1>11, <1>12, <1>13
  DEF Next, ServerStep, PollStep, PollFault

\* Every row, poll, occurrence and turn keeps its type: SchedulerTypeOK.
LEMMA SchedulerTypeInit == SchedulerInit => SchedulerTypeOK
  BY PollingTypeInit, ScheduleAssumption
  DEF SchedulerInit, SchedulerTypeOK, Schedule, Turn, NoTurn

\* A schedule that is new.
LEMMA FreshType == ASSUME NEW x \in Schedules PROVE Fresh(x) \in Occurrences
  BY ScheduleAssumption DEF Fresh, Occurrences

\* Every step of the scheduler keeps the types.
LEMMA SchedulerTypeStep == SchedulerTypeOK /\ [SchedulerNext]_vars => SchedulerTypeOK'
<1> SUFFICES ASSUME SchedulerTypeOK, [SchedulerNext]_vars PROVE SchedulerTypeOK'
  OBVIOUS
<1> USE ScheduleAssumption
<1>0. PollingTypeOK'
  BY StepPolls, PollingTypeStep DEF SchedulerTypeOK
<1>1. CASE Elsewhere
  BY <1>0, <1>1 DEF Elsewhere, schedulerVars, SchedulerTypeOK
<1>2. CASE Time
  <2>1. \A x \in Schedules : Elapsed(schedules[x].next) \in 0..Period
    BY DEF Elapsed, SchedulerTypeOK, Schedule
  <2>2. schedules' \in [Schedules -> Schedule]
    BY <1>2, <2>1 DEF Time, SchedulerTypeOK, Schedule
  <2> QED
    BY <1>0, <1>2, <2>2 DEF Time, SchedulerTypeOK
<1>3. ASSUME NEW x \in Schedules, Create(x) \/ Created(x) PROVE SchedulerTypeOK'
  BY <1>0, <1>3 DEF Create, Created, SchedulerTypeOK, Schedule
<1>4. CASE CreationLost
  BY <1>0, <1>4 DEF CreationLost, SchedulerTypeOK
<1>5. ASSUME NEW s \in Servers, Polling(s) PROVE SchedulerTypeOK'
  BY <1>0, <1>5 DEF Polling, schedulerVars, SchedulerTypeOK
<1>6. ASSUME NEW s \in Servers, Fault(s) PROVE SchedulerTypeOK'
  <2>1. turn' \in [Servers -> Turn]
    BY <1>6 DEF Fault, SchedulerTypeOK, Turn, NoTurn
  <2> QED
    BY <1>0, <1>6, <2>1 DEF Fault, SchedulerTypeOK
<1>7. ASSUME NEW s \in Servers, StartTurn(s) \/ TurnEnds(s) PROVE SchedulerTypeOK'
  <2>1. [NoTurn EXCEPT !.phase = "materialize", !.due = DueSchedules] \in Turn
    BY DEF NoTurn, Turn, DueSchedules
  <2>2. NoTurn \in Turn
    BY DEF NoTurn, Turn
  <2>3. turn' \in [Servers -> Turn]
    BY <1>7, <2>1, <2>2 DEF StartTurn, TurnEnds, SchedulerTypeOK
  <2> QED
    BY <1>0, <1>7, <2>3 DEF StartTurn, TurnEnds, SchedulerTypeOK
<1>8. ASSUME NEW s \in Servers, NEW x \in Schedules, Materialize(s, x) PROVE SchedulerTypeOK'
  <2>1. Advanced(x) \in Schedule
    <3>1. schedules[x] \in Schedule
      BY DEF SchedulerTypeOK
    <3>2. Period \in Nat
      BY ScheduleAssumption
    <3>3. schedules[x].kind \in {"none", "once", "cron-v1"}
      BY <3>1 DEF Schedule
    <3> QED
      BY <3>2, <3>3 DEF Advanced, Schedule
  <2>2. turn' \in [Servers -> Turn]
    BY <1>8 DEF Materialize, SchedulerTypeOK, Turn
  <2>3. schedules' \in [Schedules -> Schedule] /\ open' \subseteq Occurrences
    BY <1>8, <2>1, FreshType DEF Materialize, SchedulerTypeOK
  <2> QED
    BY <1>0, <1>8, <2>2, <2>3 DEF Materialize, SchedulerTypeOK
<1>9. ASSUME NEW s \in Servers, StartDispatch(s) \/ Request(s) PROVE SchedulerTypeOK'
  <2>1. turn' \in [Servers -> Turn]
    BY <1>9 DEF StartDispatch, Request, SchedulerTypeOK, Turn
  <2> QED
    BY <1>0, <1>9, <2>1 DEF StartDispatch, Request, SchedulerTypeOK
<1>10. ASSUME NEW s \in Servers, NEW o \in Occurrences, MarkDispatched(s, o) \/ DispatchFails(s, o)
       PROVE SchedulerTypeOK'
  <2>1. turn' \in [Servers -> Turn]
    BY <1>10 DEF MarkDispatched, DispatchFails, SchedulerTypeOK, Turn
  <2> QED
    BY <1>0, <1>10, <2>1 DEF MarkDispatched, DispatchFails, SchedulerTypeOK
<1>11. CASE UNCHANGED vars
  BY <1>0, <1>11 DEF vars, schedulerVars, SchedulerTypeOK
<1> QED
  BY <1>1, <1>2, <1>3, <1>4, <1>5, <1>6, <1>7, <1>8, <1>9, <1>10, <1>11
  DEF SchedulerNext, TurnStep

\* Every variable of polling and schedules keeps its type (PollingService and
\* the scheduler turns of the server).
THEOREM SchedulerTypeCorrect == SchedulerSpec => []SchedulerTypeOK
  BY SchedulerTypeInit, SchedulerTypeStep, PTL DEF SchedulerSpec

\* The same of the polling alone.
THEOREM PollingTypeCorrect == Spec => []PollingTypeOK
  BY PollingTypeInit, PollingTypeStep, PTL DEF Spec

-----------------------------------------------------------------------------
(* Nothing is lost.                                                        *)

\* Nothing was observed yet.
LEMMA KeptInit == Init => Kept
  BY PollingAssumption DEF Init, Kept, NothingLost, PollKeeps, Idle

\* Rows and jobs are never taken back, so a poll that rests keeps what it has.
LEMMA PollStillKeeps ==
  ASSUME NEW s \in Servers, PollKeeps(s), poll'[s] = poll[s],
         observed \subseteq observed', handedOff \subseteq handedOff'
  PROVE  PollKeeps(s)'
  BY DEF PollKeeps, First

\* What is observed grows, and the cursor stays.
LEMMA StillNothingLost ==
  ASSUME NothingLost, connection'.cursor = connection.cursor,
         observed \subseteq observed', handedOff \subseteq handedOff'
  PROVE  NothingLost'
  BY DEF NothingLost

\* The step of one server's poll: its own poll is looked at, the rest keeps.
LEMMA OnePollMoves ==
  ASSUME PollingTypeOK, Kept, NEW s \in Servers, PollKeeps(s)',
         \A t \in Servers : t # s => poll'[t] = poll[t],
         observed \subseteq observed', handedOff \subseteq handedOff',
         NothingLost'
  PROVE  Kept'
  BY PollStillKeeps DEF Kept

\* A poller that does nothing has nothing to keep.
LEMMA IdleKeeps == ASSUME NEW s \in Servers, poll'[s].phase = "idle" PROVE PollKeeps(s)'
  BY DEF PollKeeps

\* Every step keeps it.
LEMMA KeptStep ==
  ASSUME ~Watermarked
  PROVE  PollingTypeOK /\ Kept /\ [Next]_pollingVars => Kept'
<1> SUFFICES ASSUME PollingTypeOK, Kept, [Next]_pollingVars PROVE Kept'
  OBVIOUS
<1> USE PollingAssumption
<1>1. CASE Publish \/ Command \/ EnableScheduleCadence \/ RequestScheduledPoll \/ Tick
  <2>1. connection'.cursor = connection.cursor /\ UNCHANGED <<itemVars, poll>>
    BY <1>1 DEF Publish, Command, RequestPoll, SetConnectionStatus, EnableScheduleCadence,
                RequestScheduledPoll, Tick, PollingTypeOK, Connection
  <2> QED
    BY <2>1, PollStillKeeps, StillNothingLost DEF Kept, itemVars
<1>2. ASSUME NEW s \in Servers, Start(s) \/ Stop(s) PROVE Kept'
  BY <1>2, PollStillKeeps, StillNothingLost DEF Start, Stop, Kept, itemVars
<1>3. ASSUME NEW s \in Servers, Stopped(s) \/ Crash(s) PROVE Kept'
  <2>1. poll'[s].phase = "idle" /\ \A t \in Servers : t # s => poll'[t] = poll[t]
    BY <1>3 DEF Stopped, Crash, Gone, Idle, PollingTypeOK
  <2>2. UNCHANGED <<connection, itemVars>>
    BY <1>3 DEF Stopped, Crash, Gone
  <2> QED
    BY <2>1, <2>2, IdleKeeps, StillNothingLost, OnePollMoves DEF Kept, itemVars
<1>4. ASSUME NEW s \in Servers, StartPoll(s) PROVE Kept'
  <2>1. /\ poll'[s].phase = "fetch" /\ poll'[s].cursor = connection.cursor
        /\ poll'[s].token = 0 /\ poll'[s].page = 1 /\ poll'[s].todo = {}
        /\ \A t \in Servers : t # s => poll'[t] = poll[t]
    BY <1>4 DEF StartPoll, Idle, PollingTypeOK
  <2>2. UNCHANGED <<connection, itemVars>>
    BY <1>4 DEF StartPoll
  <2>3. PollKeeps(s)'
    BY <2>1, <2>2 DEF PollKeeps, Kept, NothingLost, itemVars
  <2> QED
    BY <2>1, <2>2, <2>3, StillNothingLost, OnePollMoves DEF Kept, itemVars
<1>5. ASSUME NEW s \in Servers, AdapterUnavailable(s) PROVE Kept'
  <2>1. connection'.cursor = connection.cursor /\ UNCHANGED <<itemVars, poll>>
    BY <1>5, FailureType DEF AdapterUnavailable, PollingTypeOK, Connection
  <2> QED
    BY <2>1, PollStillKeeps, StillNothingLost DEF Kept, itemVars
<1>6. ASSUME NEW s \in Servers, Page(s) PROVE Kept'
  <2> DEFINE top == IF poll[s].page = 1 THEN published ELSE poll[s].token
             rest == IF top > PageSize THEN top - PageSize ELSE 0
  <2>1. poll[s] \in Poll /\ published \in 0..Items /\ PollKeeps(s) /\ poll[s].phase = "fetch"
    BY <1>6 DEF Page, PollingTypeOK, Kept
  <2>2. /\ poll'[s].phase = "store" /\ poll'[s].token = rest
        /\ poll'[s].cursor = IF top > poll[s].cursor THEN top ELSE poll[s].cursor
        /\ poll'[s].todo = (rest + 1)..top /\ poll'[s].page = poll[s].page
        /\ \A t \in Servers : t # s => poll'[t] = poll[t]
    BY <1>6, <2>1 DEF Page, PollingTypeOK, Poll
  <2>3. UNCHANGED <<connection, itemVars>>
    BY <1>6 DEF Page
  <2>4. ASSUME NEW i \in 1..Items, rest < i, i <= poll'[s].cursor, i \notin (rest + 1)..top
        PROVE  i \in observed /\ i \in handedOff
    <3>1. top \in 0..Items /\ rest \in 0..Items
      BY <2>1 DEF Poll
    <3>2. i > top
      BY <2>4, <3>1
    <3>3. i <= poll[s].cursor
      BY <2>1, <2>2, <2>4, <3>1, <3>2 DEF Poll
    <3>4. poll[s].token < i
      BY <2>1, <3>2 DEF PollKeeps, Poll
    <3> QED
      BY <2>1, <3>3, <3>4 DEF PollKeeps
  <2>5. PollKeeps(s)'
    BY <2>1, <2>2, <2>3, <2>4 DEF PollKeeps, itemVars
  <2> QED
    BY <2>2, <2>3, <2>5, StillNothingLost, OnePollMoves DEF Kept, itemVars
<1>7. ASSUME NEW s \in Servers, NEW i \in 1..Items, Store(s, i) PROVE Kept'
  <2>1. /\ poll'[s].phase = "handoff" /\ poll'[s].token = poll[s].token
        /\ poll'[s].cursor = poll[s].cursor /\ poll'[s].todo = poll[s].todo
        /\ poll'[s].page = poll[s].page
        /\ \A t \in Servers : t # s => poll'[t] = poll[t]
    BY <1>7 DEF Store, PollingTypeOK, Poll
  <2>2. observed' = observed \cup {i} /\ handedOff' = handedOff /\ connection' = connection
    BY <1>7 DEF Store
  <2>3. ASSUME NEW k \in 1..Items, First(s, k)' PROVE k = i
    <3>1. k >= i /\ i >= k
      BY <1>7, <2>1, <2>3 DEF Store, First
    <3> QED
      BY <3>1
  <2>4. PollKeeps(s)'
    BY <1>7, <2>1, <2>2, <2>3 DEF Store, PollKeeps, Kept
  <2> QED
    BY <2>1, <2>2, <2>4, StillNothingLost, OnePollMoves DEF Kept
<1>8. ASSUME NEW s \in Servers, NEW i \in 1..Items, Handoff(s, i) PROVE Kept'
  <2>1. /\ poll'[s].phase = "store" /\ poll'[s].token = poll[s].token
        /\ poll'[s].cursor = poll[s].cursor /\ poll'[s].todo = poll[s].todo \ {i}
        /\ poll'[s].page = poll[s].page
        /\ \A t \in Servers : t # s => poll'[t] = poll[t]
    BY <1>8 DEF Handoff, PollingTypeOK, Poll
  <2>2. handedOff' = handedOff \cup {i} /\ observed' = observed /\ connection' = connection
    BY <1>8 DEF Handoff
  <2>3. i \in observed
    BY <1>8 DEF Handoff, PollKeeps, Kept
  <2>4. PollKeeps(s)'
    BY <1>8, <2>1, <2>2, <2>3 DEF Handoff, PollKeeps, Kept
  <2> QED
    BY <2>1, <2>2, <2>4, StillNothingLost, OnePollMoves DEF Kept
<1>9. ASSUME NEW s \in Servers, NextPage(s) PROVE Kept'
  <2>1. /\ poll[s].phase = "store" /\ poll[s].todo = {} /\ poll[s].page \in Nat
        /\ poll'[s].phase = "fetch" /\ poll'[s].token = poll[s].token
        /\ poll'[s].cursor = poll[s].cursor /\ poll'[s].todo = {}
        /\ poll'[s].page = poll[s].page + 1
        /\ \A t \in Servers : t # s => poll'[t] = poll[t]
    BY <1>9 DEF NextPage, PageStored, PollingTypeOK, Poll
  <2>2. UNCHANGED <<connection, itemVars>>
    BY <1>9 DEF NextPage
  <2>3. PollKeeps(s)'
    BY <2>1, <2>2 DEF PollKeeps, Kept, itemVars
  <2> QED
    BY <2>1, <2>2, <2>3, StillNothingLost, OnePollMoves DEF Kept, itemVars
<1>10. ASSUME NEW s \in Servers, PollSucceeds(s) PROVE Kept'
  <2>1. poll'[s].phase = "idle" /\ \A t \in Servers : t # s => poll'[t] = poll[t]
    BY <1>10 DEF PollSucceeds, Idle, PollingTypeOK
  <2>2. itemVars' = itemVars
    BY <1>10 DEF PollSucceeds
  <2>3. connection'.cursor \in {connection.cursor, poll[s].cursor}
    BY <1>10 DEF PollSucceeds, RecordPollSuccess, PollingTypeOK, Connection
  <2>4. \A i \in 1..Items : i <= poll[s].cursor => i \in observed /\ i \in handedOff
    BY <1>10 DEF PollSucceeds, PageStored, PollKeeps, Kept
  <2>5. NothingLost'
    BY <2>2, <2>3, <2>4 DEF NothingLost, Kept, itemVars
  <2> QED
    BY <2>1, <2>2, <2>5, IdleKeeps, OnePollMoves DEF itemVars
<1>11. ASSUME NEW s \in Servers, PollFails(s) \/ PageLimitReached(s) PROVE Kept'
  <2>1. PICK pauses \in BOOLEAN : PollGivesUp(s, pauses)
    BY <1>11 DEF PollFails, PageLimitReached, Pauses
  <2>2. poll'[s].phase = "idle" /\ \A t \in Servers : t # s => poll'[t] = poll[t]
    BY <2>1 DEF PollGivesUp, Idle, PollingTypeOK
  <2>3. connection'.cursor = connection.cursor
    <3>1. poll[s].failures \in 0..FailureBound
      BY DEF PollingTypeOK, Poll
    <3> QED
      BY <2>1, <3>1, FailureType DEF PollGivesUp
  <2>4. itemVars' = itemVars
    BY <2>1 DEF PollGivesUp
  <2> QED
    BY <2>2, <2>3, <2>4, IdleKeeps, StillNothingLost, OnePollMoves DEF Kept, itemVars
<1>12. CASE UNCHANGED pollingVars
  BY <1>12, PollStillKeeps, StillNothingLost DEF Kept, pollingVars, itemVars
<1> QED
  BY <1>1, <1>2, <1>3, <1>4, <1>5, <1>6, <1>7, <1>8, <1>9, <1>10, <1>11, <1>12
  DEF Next, ServerStep, PollStep, PollFault

\* Of an adapter without a watermark no item is lost, however many servers poll
\* and wherever they stop: NothingLost, by the strengthening Kept.
THEOREM PollingLosesNothing == ASSUME ~Watermarked PROVE Spec => []NothingLost
<1>1. PollingTypeOK /\ Kept /\ [Next]_pollingVars => Kept'
  BY KeptStep
<1>2. Kept => NothingLost
  BY DEF Kept
<1> QED
  BY <1>1, <1>2, KeptInit, PollingTypeInit, PollingTypeStep, PTL DEF Spec

\* The same under the scheduler, by SchedulerPolls.
THEOREM SchedulerLosesNothing == ASSUME ~Watermarked PROVE SchedulerSpec => []NothingLost
<1>1. Spec => []NothingLost
  BY PollingLosesNothing
<1> QED
  BY <1>1, SchedulerPolls, PTL

-----------------------------------------------------------------------------
(* A pause for authorization is earned, if one server polls.               *)

\* The strengthening: a poll under way knows how many failures came before.  With
\* two servers it need not: the other one may have had a success since.
PauseInv ==
  /\ AuthorizationPauseEarned
  /\ \A s \in Servers : poll[s].phase # "idle" => poll[s].failures = connection.failures

\* Nothing has failed yet.
LEMMA PauseInit == Init => PauseInv
  BY PollingAssumption DEF Init, PauseInv, AuthorizationPauseEarned, Idle

\* Every step of a single server keeps it.
LEMMA PauseStep ==
  ASSUME \A s, t \in Servers : s = t
  PROVE  PollingTypeOK /\ PauseInv /\ [Next]_pollingVars => PauseInv'
<1> SUFFICES ASSUME PollingTypeOK, PauseInv, [Next]_pollingVars PROVE PauseInv'
  OBVIOUS
<1> USE PollingAssumption
<1>1. CASE Publish \/ Command \/ EnableScheduleCadence \/ RequestScheduledPoll \/ Tick
  <2>1. /\ connection'.failures = connection.failures
        /\ connection'.status = connection.status \/ connection'.status \in {"active", "paused"}
        /\ poll' = poll
    <3>1. CASE Publish \/ Tick
      BY <3>1 DEF Publish, Tick, PollingTypeOK, Connection
    <3>2. CASE Command
      BY <3>2 DEF Command, RequestPoll, SetConnectionStatus, PollingTypeOK, Connection
    <3>3. CASE EnableScheduleCadence
      BY <3>3 DEF EnableScheduleCadence, PollingTypeOK, Connection
    <3>4. CASE RequestScheduledPoll
      <4>1. CASE connection' = [connection EXCEPT !.next = 0, !.pending = TRUE]
        BY <3>4, <4>1 DEF RequestScheduledPoll, PollingTypeOK, Connection
      <4>2. CASE connection' = connection
        BY <3>4, <4>2 DEF RequestScheduledPoll
      <4> QED
        BY <3>4, <4>1, <4>2 DEF RequestScheduledPoll
    <3> QED
      BY <1>1, <3>1, <3>2, <3>3, <3>4
  <2> QED
    BY <2>1 DEF PauseInv, AuthorizationPauseEarned
<1>2. ASSUME NEW s \in Servers, Start(s) \/ Stop(s) PROVE PauseInv'
  BY <1>2 DEF Start, Stop, PauseInv, AuthorizationPauseEarned
<1>3. ASSUME NEW s \in Servers, Stopped(s) \/ Crash(s) PROVE PauseInv'
  BY <1>3 DEF Stopped, Crash, Gone, Idle, PauseInv, AuthorizationPauseEarned, PollingTypeOK
<1>4. ASSUME NEW s \in Servers, StartPoll(s) PROVE PauseInv'
  BY <1>4 DEF StartPoll, Idle, PauseInv, AuthorizationPauseEarned, PollingTypeOK
<1>5. ASSUME NEW s \in Servers, AdapterUnavailable(s) PROVE PauseInv'
  <2>1. connection'.status = "active" /\ poll' = poll
    BY <1>5 DEF AdapterUnavailable, RecordPollFailure, PollingTypeOK, Connection
  <2>2. \A t \in Servers : poll[t].phase = "idle"
    BY <1>5 DEF AdapterUnavailable
  <2> QED
    BY <2>1, <2>2 DEF PauseInv, AuthorizationPauseEarned
<1>6. ASSUME NEW s \in Servers,
             Page(s) \/ NextPage(s) \/ \E i \in 1..Items : Store(s, i) \/ Handoff(s, i)
      PROVE PauseInv'
  <2>1. poll[s].phase # "idle" /\ poll'[s].failures = poll[s].failures /\ connection' = connection
    BY <1>6 DEF Page, NextPage, PageStored, Store, Handoff, PollingTypeOK, Poll
  <2> QED
    BY <2>1 DEF PauseInv, AuthorizationPauseEarned
<1>7. ASSUME NEW s \in Servers, PollSucceeds(s) PROVE PauseInv'
  <2>1. \A t \in Servers : poll'[t].phase = "idle"
    BY <1>7 DEF PollSucceeds, Idle, PollingTypeOK
  <2>2. connection' = connection \/ connection'.status = "active"
    BY <1>7 DEF PollSucceeds, RecordPollSuccess, PollingTypeOK, Connection
  <2> QED
    BY <2>1, <2>2 DEF PauseInv, AuthorizationPauseEarned
<1>8. ASSUME NEW s \in Servers, PollFails(s) \/ PageLimitReached(s) PROVE PauseInv'
  <2>1. PICK pauses \in BOOLEAN :
          PollGivesUp(s, pauses) /\ (pauses => poll[s].failures + 1 >= Threshold)
    BY <1>8 DEF PollFails, PageLimitReached, Pauses
  <2>2. \A t \in Servers : poll'[t].phase = "idle"
    BY <2>1 DEF PollGivesUp, Idle, PollingTypeOK
  <2>3. poll[s].failures = connection.failures /\ connection.failures \in 0..FailureBound
    BY <1>8 DEF PollFails, PageLimitReached, PageStored, PauseInv, PollingTypeOK, Connection
  <2>4. \/ connection' = connection
        \/ /\ connection'.status = "authorization_failed" => pauses
           /\ connection'.failures = Least(connection.failures + 1, FailureBound)
    BY <2>1 DEF PollGivesUp, RecordPollFailure, PollingTypeOK, Connection
  <2>5. AuthorizationPauseEarned'
    BY <2>1, <2>3, <2>4 DEF PauseInv, AuthorizationPauseEarned, Least
  <2> QED
    BY <2>2, <2>5 DEF PauseInv
<1>9. CASE UNCHANGED pollingVars
  BY <1>9 DEF pollingVars, PauseInv, AuthorizationPauseEarned
<1> QED
  BY <1>1, <1>2, <1>3, <1>4, <1>5, <1>6, <1>7, <1>8, <1>9
  DEF Next, ServerStep, PollStep, PollFault

\* Where one server polls, the connection is paused for authorization only after
\* as many failures in a row as the threshold says: AuthorizationPauseEarned.
THEOREM PausesAreEarned ==
  ASSUME \A s, t \in Servers : s = t
  PROVE  SchedulerSpec => []AuthorizationPauseEarned
<1>1. PollingTypeOK /\ PauseInv /\ [Next]_pollingVars => PauseInv'
  BY PauseStep
<1>2. PauseInv => AuthorizationPauseEarned
  BY DEF PauseInv
<1>3. Spec => []AuthorizationPauseEarned
  BY <1>1, <1>2, PauseInit, PollingTypeInit, PollingTypeStep, PTL DEF Spec
<1> QED
  BY <1>3, SchedulerPolls, PTL
=============================================================================
