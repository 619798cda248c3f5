---------------------------- MODULE ClipPolling -----------------------------
(***************************************************************************)
(* How Twitch clips are polled (TwitchSourceAdapter).  Helix has no order  *)
(* by creation, so there is no watermark: every poll lists the clips of a  *)
(* window that overlaps the one before, most viewed first, one page of     *)
(* them; items seen before are recognized by their ids.  A clip appears    *)
(* in the listing some time after it was created.                          *)
(***************************************************************************)
EXTENDS Integers, FiniteSets

CONSTANTS
  Clips,
  ClipPage,    \* 'first': clips of one listing
  Overlap,     \* the six hours every window reaches back
  Latency,     \* ticks until a clip is listed, and of one request: at most
  CallTicks,
  Horizon      \* bound: ticks

VARIABLES
  now,         \* the clock of server and platform
  created,     \* per clip, when it was created and when it is listed
  cursor,      \* windowStartedAt of the stored cursor
  request,     \* the poll under way
  seen,        \* source_items
  polled       \* when the first and the last successful poll asked, and
               \* whether the listings of all of them were whole windows

clipVars == <<now, created, cursor, request, seen, polled>>

Ticks == 0..Horizon
Unset == -1
NoRequest == [at |-> Unset, listing |-> {}, whole |-> TRUE]

ClipTypeOK ==
  /\ now \in Ticks
  /\ created \in [Clips -> [at : Ticks \cup {Unset}, listed : Ticks \cup {Unset}]]
  /\ cursor \in -Overlap..Horizon \cup {Horizon + 1}
  /\ request \in [at : Ticks \cup {Unset}, listing : SUBSET Clips, whole : BOOLEAN]
  /\ seen \subseteq Clips
  /\ polled \in [first : Ticks \cup {Unset}, last : Ticks \cup {Unset}, whole : BOOLEAN]

NoCursor == Horizon + 1

ClipInit ==
  /\ now = 0
  /\ created = [c \in Clips |-> [at |-> Unset, listed |-> Unset]]
  /\ cursor = NoCursor
  /\ request = NoRequest
  /\ seen = {} /\ polled = [first |-> Unset, last |-> Unset, whole |-> TRUE]

ClipTick ==
  /\ now < Horizon
  /\ request.at # Unset => now < request.at + CallTicks
  /\ \A c \in Clips : created[c].at # Unset /\ created[c].listed = Unset
                        => now < created[c].at + Latency
  /\ now' = now + 1
  /\ UNCHANGED <<created, cursor, request, seen, polled>>
CreateClip(c) ==
  /\ created[c].at = Unset /\ created' = [created EXCEPT ![c].at = now]
  /\ UNCHANGED <<now, cursor, request, seen, polled>>
ListClip(c) ==
  /\ created[c].at # Unset /\ created[c].listed = Unset
  /\ created' = [created EXCEPT ![c].listed = now]
  /\ UNCHANGED <<now, cursor, request, seen, polled>>

-----------------------------------------------------------------------------
WindowStart == IF cursor = NoCursor THEN now - Overlap ELSE cursor
InWindow == {c \in Clips : created[c].listed # Unset /\ created[c].at >= WindowStart}

\* poll(): the page is what is viewed most, which can be any of the window.
AskClips ==
  /\ request = NoRequest
  /\ \E page \in SUBSET InWindow :
       /\ Cardinality(page) = ClipPage \/ page = InWindow
       /\ Cardinality(page) <= ClipPage
       /\ request' = [at |-> now, listing |-> page, whole |-> page = InWindow]
  /\ UNCHANGED <<now, created, cursor, seen, polled>>

\* Seeded fault: the overlap is added.
NextWindowAhead == now + Overlap

\* The window of the next poll, counted from the answer, not from the request.
NextWindow == now - Overlap

\* The items are stored and the cursor with them; there is never a next page.
ClipsPolled ==
  /\ request.at # Unset
  /\ seen' = seen \cup request.listing
  /\ cursor' = NextWindow
  /\ polled' = [first |-> IF polled.first = Unset THEN request.at ELSE polled.first,
                last |-> request.at, whole |-> polled.whole /\ request.whole]
  /\ request' = NoRequest
  /\ UNCHANGED <<now, created>>
\* The request fails, or the process stops while the items are stored: the
\* cursor stays what it was.
ClipPollFails ==
  /\ request.at # Unset
  /\ \E stored \in SUBSET request.listing : seen' = seen \cup stored
  /\ request' = NoRequest
  /\ UNCHANGED <<now, created, cursor, polled>>

ClipNext ==
  \/ ClipTick \/ AskClips \/ ClipsPolled \/ ClipPollFails
  \/ \E c \in Clips : CreateClip(c) \/ ListClip(c)
ClipSpec == ClipInit /\ [][ClipNext]_clipVars

-----------------------------------------------------------------------------
\* "A bounded overlapping time window" (class comment) misses nothing: a clip
\* of the first window or later that was listed when the last successful poll
\* asked has its item, whatever polls failed, as long as a clip is listed
\* within the overlap and every window that was polled fitted in one page.
ClipsArrive ==
  \A c \in Clips :
    polled.whole /\ polled.first # Unset /\ created[c].at >= polled.first - Overlap
      /\ created[c].listed # Unset /\ created[c].listed < polled.last
    => c \in seen
=============================================================================
