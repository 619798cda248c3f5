----------------------------- MODULE ObsTrigger -----------------------------
(***************************************************************************)
(* ObsWebSocketFolderScanTrigger: the one connection to OBS that a server  *)
(* keeps while it runs, and the scans it asks WatchedFolderRunner for.     *)
(* Every connection has a client of its own; a client that is given up may *)
(* still be open, deliver events and be closed later than its successor is *)
(* opened.                                                                 *)
(***************************************************************************)
EXTENDS Integers

CONSTANTS
  ObsFaults,   \* bound: failed and closed connections
  HintBound    \* bound: events of OBS

VARIABLES
  sockets,     \* the client of each connection so far
  current,     \* this.client, 0 when undefined
  connecting,  \* the client whose connect() is awaited, or 0
  reconnect,   \* the reconnect timer is set
  stopped,
  refused,     \* OBS closed a connection with a code that forbids another
  requested,   \* scanRequested
  running,     \* who runs the scan of WatchedFolderRunner
  unseen,      \* no scan began since the last event
  hints

scanVars == <<requested, running, unseen, hints>>
obsVars == <<sockets, current, connecting, reconnect, stopped, refused, scanVars>>

Clients == 1..(ObsFaults + 1)
Live(i) == sockets[i] \in {"open", "closing"}

ObsTypeOK ==
  /\ sockets \in [Clients -> {"none", "opening", "open", "closing", "closed"}]
  /\ {current, connecting} \subseteq {0} \cup Clients
  /\ {reconnect, stopped, refused, requested, unseen} \subseteq BOOLEAN
  /\ running \in {"nobody", "timer", "trigger"} /\ hints \in 0..HintBound

\* start() was called: the first connect() is awaited.
ObsInit ==
  /\ sockets = [i \in Clients |-> IF i = 1 THEN "opening" ELSE "none"]
  /\ current = 0 /\ connecting = 1
  /\ reconnect = FALSE /\ stopped = FALSE /\ refused = FALSE
  /\ requested = FALSE /\ running = "nobody" /\ unseen = FALSE /\ hints = 0

-----------------------------------------------------------------------------
\* scheduleReconnect, unless the close code forbids it.
Scheduled(final) == reconnect \/ (~stopped /\ ~final)
Becomes(i, state) == sockets' = [sockets EXCEPT ![i] = state]

\* connect() succeeds; its client is dropped when stop() was called meanwhile.
Connected ==
  /\ connecting # 0 /\ sockets[connecting] = "opening"
  /\ IF stopped THEN Becomes(connecting, "closing") /\ UNCHANGED <<current, connecting>>
     ELSE Becomes(connecting, "open") /\ current' = connecting /\ connecting' = 0
  /\ UNCHANGED <<reconnect, stopped, refused, scanVars>>

\* connect() fails.
ConnectFails(final) ==
  /\ connecting # 0 /\ sockets[connecting] = "opening"
  /\ stopped \/ \E i \in Clients : i > connecting
  /\ Becomes(connecting, "closed") /\ connecting' = 0
  /\ reconnect' = Scheduled(final) /\ refused' = (refused \/ final)
  /\ UNCHANGED <<current, stopped, scanVars>>

\* Seeded fault: a client that was closed is kept.
ClosedStaysCurrent(i, final) ==
  /\ sockets[i] = "open" /\ \E n \in Clients : n > i
  /\ Becomes(i, "closed")
  /\ reconnect' = Scheduled(final) /\ refused' = (refused \/ final)
  /\ UNCHANGED <<current, connecting, stopped, scanVars>>

\* OBS closes a connection: ConnectionClosed.
Closed(i, final) ==
  /\ sockets[i] = "open" /\ \E n \in Clients : n > i
  /\ Becomes(i, "closed")
  /\ current' = IF current = i THEN 0 ELSE current
  /\ reconnect' = Scheduled(final) /\ refused' = (refused \/ final)
  /\ UNCHANGED <<connecting, stopped, scanVars>>

\* disconnect() of a client that was given up is through.
Disconnected(i) ==
  /\ sockets[i] = "closing"
  /\ Becomes(i, "closed")
  /\ connecting' = IF connecting = i THEN 0 ELSE connecting
  /\ reconnect' = Scheduled(FALSE)
  /\ UNCHANGED <<current, stopped, refused, scanVars>>

\* The timer fires: connect(), unless one is awaited or a client is there.
Reconnect ==
  LET next == CHOOSE i \in Clients : /\ sockets[i] = "none"
                                     /\ \A n \in Clients : sockets[n] = "none" => i <= n
  IN
  /\ reconnect /\ reconnect' = FALSE
  /\ IF connecting # 0 \/ current # 0 THEN UNCHANGED <<sockets, connecting>>
     ELSE Becomes(next, "opening") /\ connecting' = next
  /\ UNCHANGED <<current, stopped, refused, scanVars>>

\* stop(): the timer is cleared and the client disconnected.
StopTrigger ==
  /\ ~stopped /\ stopped' = TRUE
  /\ reconnect' = FALSE /\ current' = 0
  /\ sockets' = [i \in Clients |-> IF i = current THEN "closing" ELSE sockets[i]]
  /\ UNCHANGED <<connecting, refused, scanVars>>

-----------------------------------------------------------------------------
connectionVars == <<sockets, current, connecting, reconnect, stopped, refused>>

\* A recording was stopped or a replay saved: requestScan, of any client that
\* still is open.  A scan of the timer that is under way makes onScan return
\* at once.
Hint(i) ==
  /\ Live(i) /\ hints < HintBound /\ hints' = hints + 1
  /\ requested' = (running = "trigger")
  /\ unseen' = (running # "nobody")
  /\ running' = IF running = "nobody" THEN "trigger" ELSE running
  /\ UNCHANGED connectionVars

\* A scan that was asked for is through; another one follows if one was asked
\* for meanwhile.
ScanDone ==
  /\ running = "trigger"
  /\ running' = IF requested THEN "trigger" ELSE "nobody"
  /\ unseen' = (unseen /\ ~requested) /\ requested' = FALSE
  /\ UNCHANGED <<connectionVars, hints>>

\* The scans of the timer of WatchedFolderRunner.
TimerScan ==
  /\ running = "nobody" /\ ~stopped
  /\ running' = "timer" /\ unseen' = FALSE
  /\ UNCHANGED <<connectionVars, requested, hints>>
TimerScanDone ==
  /\ running = "timer" /\ running' = "nobody"
  /\ UNCHANGED <<connectionVars, requested, unseen, hints>>

ObsSettles == Connected \/ Reconnect \/ \E i \in Clients : Disconnected(i)
ObsNext ==
  \/ ObsSettles \/ StopTrigger \/ ScanDone \/ TimerScan \/ TimerScanDone
  \/ \E final \in BOOLEAN : ConnectFails(final) \/ \E i \in Clients : Closed(i, final)
  \/ \E i \in Clients : Hint(i)

\* The timers fire, requests to OBS are answered, scans end.
ObsSpec ==
  /\ ObsInit /\ [][ObsNext]_obsVars
  /\ WF_obsVars(ObsSettles)
  /\ WF_obsVars(ScanDone) /\ WF_obsVars(TimerScan) /\ WF_obsVars(TimerScanDone)

-----------------------------------------------------------------------------
\* The trigger comes back to OBS after every loss, until it is stopped or OBS
\* forbids it: a timer that fires while a client is there or on its way must
\* not have been the last one.
Reconnects == (~stopped /\ ~refused) ~> (current # 0 \/ stopped \/ refused)

\* After every event a scan begins that can see the recording, also when the
\* event found a scan under way that may have passed the folder already
\* ("periodic scans ... remain authoritative").
HintsAreScanned == unseen ~> (~unseen \/ stopped)

\* stop() leaves nothing behind once the awaits it races with are through: no
\* timer, and no client that still may ask for a scan of a closed database.
StoppedIsQuiet ==
  stopped => /\ ~reconnect /\ current = 0
             /\ (connecting = 0 => \A i \in Clients : sockets[i] # "open")
=============================================================================
