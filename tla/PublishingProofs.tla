-------------------------- MODULE PublishingProofs --------------------------
(***************************************************************************)
(* Theorems about the publish handlers for every file size, number of      *)
(* attempts, upload sessions and crashes: the checkpoint is true, no       *)
(* upload is repeated once the service has the whole file, and a publish   *)
(* job implements Publication.                                             *)
(***************************************************************************)
EXTENDS Publishing, FiniteSetTheorems, TLAPS

(* The inductive invariant.  CheckpointIsTrue says what the row claims; it *)
(* is kept only because of what the handler knows at each of its awaits,   *)
(* and of what the service can no longer do with uploads that were left.   *)

\* The upload the row stands for: its object, or its session until that is
\* one.
Of(row) == IF row.remote # NoObject THEN row.remote ELSE row.session
Current == Of(checkpoint)

\* A handler runs exactly while the job does, and a queued job has an attempt
\* left.
JobInv ==
  /\ job.status = "running" <=> handler.phase # "idle"
  /\ job.status = "queued" => job.attempts < job.budget

\* Only youtube keeps a session, and not beside the video it became.
RowInv ==
  /\ checkpoint.remote = NoObject \/ checkpoint.session = NoObject
  /\ platform # "youtube" => checkpoint.session = NoObject

\* Objects are created in their order, have left "open" exactly when they have
\* the whole file, and only youtube's sessions are forgotten.
ObjectsInv ==
  /\ \A r \in Objects : Exists(r) <=> r <= Newest
  /\ \A r \in Objects : remote[r].received = Size <=> remote[r].state \notin {"absent", "open"}
  /\ \A r \in Objects : platform # "youtube" => ~remote[r].forgotten

\* The uploads that were left never got the whole file, unless youtube
\* forgets a session that did.
Remembers == platform = "youtube" => ~ForgetsInserted
LeftInv ==
  Remembers =>
    \A r \in Objects : /\ remote[r].forgotten => remote[r].received < Size
                       /\ r # Current => remote[r].state \in {"absent", "open"}

\* What the handler has checked when it waits where it does.
Checked(phase, row) ==
  /\ phase = "create" => Of(row) = NoObject
  /\ phase = "authorize"
       => row.remote = NoObject \/ (platform = "tiktok" /\ row.uploaded < Size)
  /\ phase \in {"storeUrl", "resume", "transfer", "upload"} => Of(row) # NoObject
  /\ phase \in {"poll", "publish", "forgetUrl"} => row.remote # NoObject
  /\ phase \in {"resume", "transfer", "upload"} /\ platform = "youtube"
       => row.session # NoObject
  /\ phase \in {"storeUrl", "upload"} => row.uploaded < Size
  /\ phase = "transfer" /\ platform \in {"tiktok", "youtube"} => row.uploaded < Size
  /\ phase = "forgetUrl" /\ platform = "facebook" => row.status = "published"
PhaseInv == Checked(handler.phase, checkpoint)

\* What an answer that is not read yet says of the service.
AnswerInv ==
  /\ At("create", "ok") => Newest >= 1
  /\ At("upload", "ok") => remote[Current].received = Size
  /\ At("upload", "more") => /\ remote[Current].received = checkpoint.uploaded + 1
                             /\ remote[Current].received < Size
  /\ At("resume", "more") /\ platform = "youtube" => remote[Current].received < Size
  /\ handler.phase \in {"resume", "upload"} /\ handler.answer = "inserted"
       => remote[Current].received = Size
  /\ At("resume", "gone") => remote[Current].forgotten
  /\ At("poll", "published") => checkpoint.remote \in Posted
  /\ At("publish", "ok") /\ platform = "instagram" => checkpoint.remote \in Posted

PublishInv ==
  /\ TypeOK /\ platform \in Platforms
  /\ CheckpointIsTrue
  /\ JobInv /\ RowInv /\ ObjectsInv /\ LeftInv /\ PhaseInv /\ AnswerInv

-----------------------------------------------------------------------------
(* What the service does to its objects.                                   *)

Touched == {"uploaded", "ready", "publishing", "posted", "failed"}

\* All that a service does between two steps of a handler, or in one of them.
RemoteStep ==
  \/ UNCHANGED remote
  \/ Current = NoObject /\ Newest < RemoteBound /\ remote' = Created
  \/ /\ Current # NoObject /\ ~remote[Current].forgotten
     /\ \E n \in remote[Current].received..Size : remote' = Received(Current, n)
  \/ \E r \in Objects, s \in Touched :
       /\ remote[r].state \in Touched \ {"posted"}
       /\ remote' = [remote EXCEPT ![r].state = s]
  \/ \E r \in Objects :
       /\ platform = "youtube" /\ Exists(r)
       /\ remote[r].received < Size \/ ForgetsInserted
       /\ remote' = [remote EXCEPT ![r].forgotten = TRUE]

\* Nothing the service has is lost.
Grows ==
  /\ Newest <= Newest'
  /\ \A r \in Objects : Exists(r) =>
       /\ Exists(r)'
       /\ remote[r].received <= remote'[r].received
       /\ remote[r].state = "posted" => remote'[r].state = "posted"
       /\ remote[r].forgotten => remote'[r].forgotten

\* The bounds are positive.
LEMMA Sizes == {Size, MaxAttempts, RetryBound, RemoteBound} \subseteq Nat \ {0}
  /\ MaxAttempts <= RetryBound /\ CrashBound \in Nat
  BY PublishAssumption

\* There are at most RemoteBound objects.
LEMMA NewestBounded == Newest \in 0..RemoteBound
<1>1. IsFiniteSet(Objects) /\ Cardinality(Objects) = RemoteBound
  BY Sizes, FS_Interval DEF Objects
<1>2. /\ Cardinality({r \in Objects : Exists(r)}) \in Nat
      /\ Cardinality({r \in Objects : Exists(r)}) <= Cardinality(Objects)
  BY <1>1, FS_Subset, FS_CardinalityType
<1> QED BY <1>1, <1>2, Sizes DEF Newest

\* Newest counts what exists, and nothing else of an object.
LEMMA NewestKept ==
  ASSUME \A r \in Objects : Exists(r)' <=> Exists(r)
  PROVE  Newest' = Newest
<1>1. {r \in Objects : Exists(r)'} = {r \in Objects : Exists(r)}
  OBVIOUS
<1> QED BY <1>1 DEF Newest

\* A created object is the newest, and open.
LEMMA ObjectCreated ==
  ASSUME TypeOK, ObjectsInv, Newest < RemoteBound, remote' = Created
  PROVE  /\ Newest' = Newest + 1
         /\ \A r \in Objects : Exists(r)' <=> r <= Newest'
         /\ remote'[Newest + 1] = [state |-> "open", received |-> 0, forgotten |-> FALSE]
         /\ \A r \in Objects : r # Newest + 1 => remote'[r] = remote[r]
<1>1. Newest + 1 \in Objects /\ Newest \in Nat
  BY NewestBounded, Sizes DEF Objects
<1>2. /\ remote'[Newest + 1] = [state |-> "open", received |-> 0, forgotten |-> FALSE]
      /\ \A r \in Objects : r # Newest + 1 => remote'[r] = remote[r]
  BY <1>1 DEF Created, TypeOK
<1>3. \A r \in Objects : Exists(r)' <=> r <= Newest + 1
  BY <1>1, <1>2 DEF ObjectsInv, Exists, Objects
<1>4. {r \in Objects : Exists(r)'} = 1..(Newest + 1)
  BY <1>1, <1>3, Sizes DEF Objects
<1>5. Newest' = Newest + 1
  <2>1. Newest' = Cardinality(1..(Newest + 1))
    BY <1>4 DEF Newest
  <2> QED BY <1>1, <2>1, FS_Interval
<1> QED BY <1>2, <1>3, <1>5

\* Whatever the service does, the row stays true, and objects that were left
\* stay as they were left.
LEMMA ServiceKeeps ==
  ASSUME TypeOK, CheckpointIsTrue, RowInv, ObjectsInv, LeftInv,
         RemoteStep, UNCHANGED <<checkpoint, platform>>
  PROVE  /\ remote' \in [Objects -> [state : {"absent", "open"} \cup Touched,
                                     received : 0..Size, forgotten : BOOLEAN]]
         /\ CheckpointIsTrue' /\ RowInv' /\ ObjectsInv' /\ LeftInv'
         /\ Grows /\ (Current = NoObject \/ Newest' = Newest)
<1> DEFINE Obj == [state : {"absent", "open"} \cup Touched,
                   received : 0..Size, forgotten : BOOLEAN]
<1>1. /\ remote \in [Objects -> Obj] /\ Size \in Nat \ {0}
      /\ Current \in Objects \cup {NoObject}
      /\ NoObject \notin Objects
  <2>1. remote \in [Objects -> Obj]
    BY DEF TypeOK, Touched
  <2>2. Current \in Objects \cup {NoObject}
    BY DEF TypeOK, Current, Of
  <2> QED BY <2>1, <2>2, Sizes DEF NoObject, Objects
<1>2. RowInv' /\ Current' = Current
  BY DEF RowInv, Current, Of
<1> HIDE DEF Obj
<1>3. CASE UNCHANGED remote
  <2>1. \A r \in Objects : Exists(r)' <=> Exists(r)
    BY <1>3 DEF Exists
  <2>2. Newest' = Newest /\ Posted' = Posted
    BY <1>3, <2>1, NewestKept DEF Posted
  <2>3. remote' \in [Objects -> Obj] /\ ObjectsInv'
    BY <1>1, <1>3, <2>1, <2>2 DEF ObjectsInv
  <2>4. LeftInv' /\ CheckpointIsTrue'
    BY <1>1, <1>2, <1>3, <2>1, <2>2 DEF LeftInv, Remembers, CheckpointIsTrue, Current, Of, Objects
  <2>5. Grows
    BY <1>1, <1>3, <2>1, <2>2, NewestBounded DEF Grows, Obj
  <2> QED BY <1>2, <2>2, <2>3, <2>4, <2>5 DEF Obj
<1>4. CASE Current = NoObject /\ Newest < RemoteBound /\ remote' = Created
  <2>1. /\ Newest' = Newest + 1 /\ Newest + 1 \in Objects /\ Newest \in Nat
        /\ \A r \in Objects : Exists(r)' <=> r <= Newest'
        /\ remote'[Newest + 1] = [state |-> "open", received |-> 0, forgotten |-> FALSE]
        /\ \A r \in Objects : r # Newest + 1 => remote'[r] = remote[r]
        /\ remote[Newest + 1].state = "absent" /\ remote[Newest + 1].received < Size
    <3>1. Newest + 1 \in Objects /\ Newest \in Nat
      <4>1. Newest < RemoteBound
        BY <1>4
      <4> QED BY <4>1, NewestBounded, Sizes DEF Objects
    <3>2. ~Exists(Newest + 1)
      BY <3>1 DEF ObjectsInv, Objects
    <3>3. remote[Newest + 1].received \in 0..Size
      <4>1. \A r \in Objects : remote[r].received \in 0..Size
        BY <1>1 DEF Obj
      <4> QED BY <3>1, <4>1
    <3>4. remote[Newest + 1].state = "absent" /\ remote[Newest + 1].received < Size
      BY <1>1, <3>1, <3>2, <3>3 DEF Exists, ObjectsInv
    <3> QED BY <1>4, <3>1, <3>4, ObjectCreated
  <2>2. remote' \in [Objects -> Obj]
    <3>1. remote' = [remote EXCEPT ![Newest + 1] =
                       [state |-> "open", received |-> 0, forgotten |-> FALSE]]
      BY <1>4 DEF Created
    <3>2. [state |-> "open", received |-> 0, forgotten |-> FALSE] \in Obj
      BY <1>1 DEF Obj
    <3> QED BY <1>1, <2>1, <3>1, <3>2
  <2>3. ObjectsInv'
    <3>1. \A r \in Objects : remote'[r].received = Size <=> remote'[r].state \notin {"absent", "open"}
      BY <1>1, <2>1 DEF ObjectsInv
    <3>2. \A r \in Objects : platform' # "youtube" => ~remote'[r].forgotten
      BY <2>1 DEF ObjectsInv
    <3> QED BY <2>1, <3>1, <3>2 DEF ObjectsInv
  <2>4. LeftInv'
    BY <1>1, <1>2, <1>4, <2>1 DEF LeftInv, Remembers
  <2>5. CheckpointIsTrue'
    BY <1>1, <1>2, <1>4, <2>1 DEF CheckpointIsTrue, Current, Of, Posted, NoObject
  <2>6. Grows
    <3>1. \A r \in Objects : Exists(r) => remote'[r] = remote[r]
      BY <1>1, <2>1 DEF Exists
    <3> QED BY <1>1, <2>1, <3>1 DEF Grows, Exists, Obj
  <2> QED BY <1>2, <1>4, <2>2, <2>3, <2>4, <2>5, <2>6 DEF Obj
<1>5. CASE Current # NoObject /\ ~remote[Current].forgotten
           /\ \E n \in remote[Current].received..Size : remote' = Received(Current, n)
  <2>1. Current \in Objects /\ Exists(Current) /\ remote[Current] \in Obj
    <3>1. Exists(Current)
      BY <1>5 DEF CheckpointIsTrue, Current, Of
    <3> QED BY <1>1, <1>5, <3>1
  <2>2. PICK n \in remote[Current].received..Size : remote' = Received(Current, n)
    BY <1>5
  <2>3. PICK o \in Obj :
          /\ o.received = n /\ o.forgotten = remote[Current].forgotten
          /\ o.state = IF n = Size /\ remote[Current].state = "open"
                       THEN "uploaded" ELSE remote[Current].state
          /\ remote' = [remote EXCEPT ![Current] = o]
    <3> DEFINE state == IF n = Size /\ remote[Current].state = "open"
                        THEN "uploaded" ELSE remote[Current].state
               o == [remote[Current] EXCEPT !.received = n, !.state = state]
    <3>1. o \in Obj
      <4>1. n \in 0..Size /\ remote[Current].received \in 0..Size
        BY <1>1, <2>1, <2>2 DEF Obj
      <4>2. state \in {"absent", "open"} \cup Touched
        BY <2>1 DEF Obj, Touched
      <4> HIDE DEF state
      <4> QED BY <2>1, <4>1, <4>2 DEF Obj
    <3>2. /\ o.received = n /\ o.forgotten = remote[Current].forgotten
          /\ o.state = state
      BY <2>1 DEF Obj
    <3>3. remote' = [remote EXCEPT ![Current] = o]
      <4>1. remote' = [remote EXCEPT ![Current].received = n, ![Current].state = state]
        BY <2>2 DEF Received
      <4> HIDE DEF state
      <4>2. [remote EXCEPT ![Current].received = n, ![Current].state = state]
              = [remote EXCEPT ![Current] = o]
        BY <1>1, <2>1
      <4> QED BY <4>1, <4>2
    <3> QED BY <3>1, <3>2, <3>3
  <2>4. /\ remote'[Current] = o
        /\ \A r \in Objects : r # Current => remote'[r] = remote[r]
        /\ n \in Nat /\ remote[Current].received <= n /\ n <= Size
        /\ remote[Current].state # "absent"
        /\ remote[Current].received \in Nat
    BY <1>1, <2>1, <2>2, <2>3 DEF Obj, Exists
  <2>5. n < Size => o.state = "open"
    BY <1>1, <2>1, <2>3, <2>4 DEF ObjectsInv
  <2>6. n = Size => o.state \in Touched
    BY <1>1, <2>1, <2>3, <2>4 DEF Obj, Touched
  <2>7. Newest' = Newest /\ \A r \in Objects : Exists(r)' <=> Exists(r)
    <3>1. \A r \in Objects : Exists(r)' <=> Exists(r)
      BY <2>1, <2>3, <2>4 DEF Exists
    <3> QED BY <3>1, NewestKept
  <2>8. remote' \in [Objects -> Obj]
    BY <1>1, <2>1, <2>3
  <2>9. ObjectsInv'
    BY <1>1, <2>1, <2>3, <2>4, <2>5, <2>6, <2>7 DEF ObjectsInv, Touched
  <2>10. LeftInv'
    <3>1. \A r \in Objects : r # Current => remote'[r] = remote[r]
      BY <2>4
    <3>2. ~remote'[Current].forgotten
      BY <1>5, <2>3, <2>4
    <3> QED BY <1>2, <3>1, <3>2 DEF LeftInv, Remembers
  <2>11. CheckpointIsTrue'
    <3>1. remote[Current].state = "posted" => o.state = "posted"
      BY <2>3
    <3>2. Posted \subseteq Posted'
      BY <2>4, <3>1 DEF Posted
    <3>3. /\ checkpoint.uploaded <= remote[Current].received
          /\ checkpoint.uploaded \in Nat
      BY <1>5 DEF CheckpointIsTrue, Current, Of, TypeOK
    <3>4. checkpoint.uploaded <= remote'[Current].received
      BY <2>3, <2>4, <3>3
    <3>5. Exists(Current)'
      BY <1>2, <2>1, <2>7
    <3> QED BY <1>2, <1>5, <3>2, <3>4, <3>5 DEF CheckpointIsTrue, Current, Of
  <2>12. Grows
    BY <1>1, <2>1, <2>3, <2>4, <2>7, NewestBounded DEF Grows, Obj
  <2> QED BY <1>2, <2>7, <2>8, <2>9, <2>10, <2>11, <2>12 DEF Obj
<1>6. CASE \E r \in Objects, s \in Touched :
             /\ remote[r].state \in Touched \ {"posted"}
             /\ remote' = [remote EXCEPT ![r].state = s]
  <2>1. PICK r \in Objects, s \in Touched :
             /\ remote[r].state \in Touched \ {"posted"}
             /\ remote' = [remote EXCEPT ![r].state = s]
    BY <1>6
  <2>2. /\ remote' \in [Objects -> Obj]
        /\ remote'[r].state = s /\ remote'[r].received = remote[r].received
        /\ remote'[r].forgotten <=> remote[r].forgotten
        /\ \A q \in Objects : q # r => remote'[q] = remote[q]
    BY <1>1, <2>1 DEF Obj
  <2>3. Newest' = Newest /\ \A q \in Objects : Exists(q)' <=> Exists(q)
    <3>1. \A q \in Objects : Exists(q)' <=> Exists(q)
      BY <2>1, <2>2 DEF Exists, Touched
    <3> QED BY <3>1, NewestKept
  <2>4. \A q \in Objects : /\ remote[q].state = "posted" => remote'[q].state = "posted"
                           /\ remote'[q].received = remote[q].received
                           /\ remote'[q].forgotten <=> remote[q].forgotten
    BY <2>1, <2>2
  <2>5. ObjectsInv'
    BY <2>1, <2>2, <2>3, <2>4 DEF ObjectsInv, Touched
  <2>6. LeftInv'
    <3>1. Remembers => r = Current
      BY <2>1 DEF LeftInv, Remembers, Touched
    <3> QED BY <1>2, <2>2, <2>4, <3>1 DEF LeftInv, Remembers
  <2>7. CheckpointIsTrue'
    BY <1>1, <1>2, <2>3, <2>4 DEF CheckpointIsTrue, Current, Of, Posted
  <2>8. Grows
    BY <1>1, <2>3, <2>4, NewestBounded DEF Grows, Obj
  <2> QED BY <1>2, <2>2, <2>3, <2>5, <2>6, <2>7, <2>8 DEF Obj
<1>7. CASE \E r \in Objects :
             /\ platform = "youtube" /\ Exists(r)
             /\ remote[r].received < Size \/ ForgetsInserted
             /\ remote' = [remote EXCEPT ![r].forgotten = TRUE]
  <2>1. PICK r \in Objects :
             /\ platform = "youtube" /\ Exists(r)
             /\ remote[r].received < Size \/ ForgetsInserted
             /\ remote' = [remote EXCEPT ![r].forgotten = TRUE]
    BY <1>7
  <2>2. /\ remote' \in [Objects -> Obj]
        /\ remote'[r].state = remote[r].state /\ remote'[r].received = remote[r].received
        /\ \A q \in Objects : q # r => remote'[q] = remote[q]
    BY <1>1, <2>1 DEF Obj
  <2>3. Newest' = Newest /\ \A q \in Objects : Exists(q)' <=> Exists(q)
    <3>1. \A q \in Objects : Exists(q)' <=> Exists(q)
      BY <2>1, <2>2 DEF Exists
    <3> QED BY <3>1, NewestKept
  <2>4. \A q \in Objects : /\ remote'[q].state = remote[q].state
                           /\ remote'[q].received = remote[q].received
                           /\ remote[q].forgotten => remote'[q].forgotten
    <3>1. remote'[r].forgotten
      BY <1>1, <2>1
    <3> QED BY <2>2, <3>1
  <2>5. ObjectsInv'
    BY <2>1, <2>3, <2>4 DEF ObjectsInv
  <2>6. LeftInv'
    <3>1. Remembers => remote'[r].received < Size
      BY <2>1, <2>2 DEF Remembers
    <3> QED BY <1>2, <2>2, <2>4, <3>1 DEF LeftInv, Remembers
  <2>7. CheckpointIsTrue'
    BY <1>1, <1>2, <2>3, <2>4 DEF CheckpointIsTrue, Current, Of, Posted
  <2>8. Grows
    BY <1>1, <2>3, <2>4, NewestBounded DEF Grows, Obj
  <2> QED BY <1>2, <2>2, <2>3, <2>5, <2>6, <2>7, <2>8 DEF Obj
<1> QED BY <1>3, <1>4, <1>5, <1>6, <1>7 DEF RemoteStep, Obj

-----------------------------------------------------------------------------
(* What the handlers do to the row and the job.                            *)

\* A row that may be saved: it claims nothing the service does not have.
Rows == [remote : Objects \cup {NoObject}, session : Objects \cup {NoObject},
         status : Statuses, uploaded : 0..Size]
RowTrue(row) ==
  /\ row \in Rows
  /\ row.remote = NoObject \/ row.session = NoObject
  /\ platform # "youtube" => row.session = NoObject
  /\ Of(row) = NoObject => row.uploaded = 0
  /\ Of(row) # NoObject => Exists(Of(row)) /\ row.uploaded <= remote[Of(row)].received
  /\ row.status = "published" => row.remote \in Posted
  /\ Remembers =>
       \A r \in Objects : r # Of(row) => remote[r].state \in {"absent", "open"}

\* The rest of a step's variables keep their types.
OthersTyped ==
  /\ uploadUrl' \in {"none", "valid", "expired"}
  /\ account' \in {"connected", "reauthorization_required", "unavailable"}
  /\ UNCHANGED crashes

\* What a publication sees of a step of the job.
Outcome(status) == IF status \in {"queued", "running"} THEN "open" ELSE status
JobStep ==
  \/ Outcome(job'.status) = Outcome(job.status)
  \/ job.status \in {"queued", "running"} /\ job'.status \in {"failed", "cancelled"}
  \/ job.status = "running" /\ job'.status = "succeeded" /\ Posted # {}
  \/ job.status = "failed" /\ job'.status = "queued"
Promised ==
  \/ RemoteStep /\ UNCHANGED <<job, checkpoint, platform>>
  \/ UNCHANGED remote /\ JobStep

\* The row as it is, is true.
LEMMA RowUnchanged == PublishInv => RowTrue(checkpoint)
  BY DEF PublishInv, TypeOK, RowInv, CheckpointIsTrue, LeftInv, RowTrue, Rows, Current, Of

\* A row with another status or offset is true when the service has as much.
LEMMA RowUpdated ==
  ASSUME PublishInv, NEW row \in Rows,
         row.remote = checkpoint.remote, row.session = checkpoint.session,
         Current = NoObject => row.uploaded = 0,
         Current # NoObject => row.uploaded <= remote[Current].received,
         row.status = "published" => checkpoint.remote \in Posted
  PROVE  RowTrue(row) /\ Of(row) = Current
<1>1. Of(row) = Current
  BY DEF Current, Of
<1> QED BY <1>1, RowUnchanged DEF RowTrue, Current

\* A row that is still true keeps what is known of the service.
LEMMA RowKept ==
  ASSUME PublishInv, RowTrue(checkpoint'), UNCHANGED <<remote, platform>>
  PROVE  CheckpointIsTrue' /\ RowInv' /\ ObjectsInv' /\ LeftInv'
<1>1. \A r \in Objects : Exists(r)' <=> Exists(r)
  BY DEF Exists
<1>2. Newest' = Newest /\ Posted' = Posted
  BY <1>1, NewestKept DEF Posted
<1>3. RowInv' /\ Current' = Of(checkpoint')
  BY DEF RowTrue, RowInv, Current, Of
<1>4. ObjectsInv'
  BY <1>1, <1>2 DEF PublishInv, ObjectsInv
<1>5. CheckpointIsTrue'
  BY <1>2 DEF RowTrue, CheckpointIsTrue, Of, Exists
<1>6. LeftInv'
  BY <1>3 DEF RowTrue, LeftInv, Remembers, PublishInv
<1> QED BY <1>3, <1>4, <1>5, <1>6

\* A handler that is done, or threw.
LEMMA HandlerSettles ==
  ASSUME PublishInv, handler.phase # "idle",
         Throw(TRUE) \/ Throw(FALSE) \/ (Return /\ Posted # {}),
         RowTrue(checkpoint'), UNCHANGED <<remote, platform>>, OthersTyped
  PROVE  PublishInv' /\ Promised
<1>1. PICK s \in {"queued", "succeeded", "failed", "cancelled"} :
        /\ job' = [job EXCEPT !.status = s] /\ handler' = Idle
        /\ s = "queued" => job.attempts < job.budget
        /\ s = "succeeded" => Posted # {}
  BY DEF Throw, Return, Settled
<1>2. job.status = "running"
  BY DEF PublishInv, JobInv
<1>3. TypeOK'
  BY <1>1 DEF PublishInv, TypeOK, OthersTyped, RowTrue, Rows, Idle, Phases, Answers
<1>4. JobInv'
  BY <1>1, <1>2 DEF PublishInv, TypeOK, JobInv, Idle
<1>5. PhaseInv' /\ AnswerInv'
  BY <1>1 DEF PhaseInv, Checked, AnswerInv, At, Idle
<1>6. JobStep
  BY <1>1, <1>2 DEF PublishInv, TypeOK, JobStep, Outcome
<1> QED BY <1>3, <1>4, <1>5, <1>6, RowKept DEF PublishInv, Promised

\* A handler that reaches its next await.
LEMMA HandlerGoesOn ==
  ASSUME PublishInv, handler.phase # "idle", NEW p \in Phases \ {"idle"},
         GoTo(p) \/ (handler' = [phase |-> p, answer |-> "ready"] /\ UNCHANGED job),
         RowTrue(checkpoint'), UNCHANGED <<remote, platform>>, OthersTyped,
         Checked(p, checkpoint')
  PROVE  PublishInv' /\ Promised
<1>1. PICK a \in {"none", "ready"} : handler' = [phase |-> p, answer |-> a] /\ UNCHANGED job
  BY DEF GoTo
<1>2. TypeOK'
  BY <1>1 DEF PublishInv, TypeOK, OthersTyped, RowTrue, Rows, Answers
<1>3. JobInv'
  BY <1>1 DEF PublishInv, JobInv
<1>4. PhaseInv'
  BY <1>1 DEF PhaseInv, Checked
<1>5. AnswerInv'
  BY <1>1 DEF AnswerInv, At
<1>6. JobStep
  BY <1>1 DEF JobStep
<1> QED BY <1>2, <1>3, <1>4, <1>5, <1>6, RowKept DEF PublishInv, Promised

\* A request of a handler that the service answers, or not.
LEMMA HandlerAsks ==
  ASSUME PublishInv, handler.phase # "idle", NEW a \in Answers, handler' = [handler EXCEPT !.answer = a],
         RemoteStep, UNCHANGED <<job, checkpoint, uploadUrl, account, crashes, platform>>,
         AnswerInv'
  PROVE  PublishInv' /\ Promised
<1>1. handler' = [phase |-> handler.phase, answer |-> a]
  BY DEF PublishInv, TypeOK
<1>2. TypeOK'
  BY <1>1, ServiceKeeps DEF PublishInv, TypeOK, Touched
<1>3. JobInv' /\ PhaseInv'
  BY <1>1 DEF PublishInv, JobInv, PhaseInv, Checked
<1> QED BY <1>2, <1>3, ServiceKeeps DEF PublishInv, Promised

\* A request, given what its outcomes do to the objects and say of them.
LEMMA RequestSent ==
  ASSUME PublishInv, NEW phase \in Phases \ {"idle"}, NEW outcomes,
         Ask(phase, outcomes), UNCHANGED platform,
         \A o \in outcomes :
           /\ o.answer \in Answers
           /\ remote' = o.remote => RemoteStep
           /\ remote' = o.remote /\ At(phase, o.answer)' => AnswerInv'
  PROVE  PublishInv' /\ Promised
<1>1. handler = [phase |-> phase, answer |-> "none"]
  BY DEF Ask, At
<1>2. UNCHANGED <<job, checkpoint, uploadUrl, account, crashes>>
  BY DEF Ask
<1>3. ASSUME NEW a \in {"lost", "invalid", "unavailable", "rejected"},
             handler' = [handler EXCEPT !.answer = a], RemoteStep
      PROVE  PublishInv' /\ Promised
  <2>1. AnswerInv'
    BY <1>1, <1>3 DEF AnswerInv, At
  <2> QED BY <1>1, <1>2, <1>3, <2>1, HandlerAsks DEF Answers
<1>4. ASSUME NEW o \in outcomes, handler' = [handler EXCEPT !.answer = o.answer],
             remote' = o.remote
      PROVE  PublishInv' /\ Promised
  <2>1. AnswerInv'
    BY <1>1, <1>4 DEF At
  <2> QED BY <1>1, <1>2, <1>4, <2>1, HandlerAsks
<1>5. CASE \E o \in outcomes : \E a \in {o.answer, "lost", "invalid", "unavailable"} :
             handler' = [handler EXCEPT !.answer = a] /\ remote' = o.remote
  BY <1>3, <1>4, <1>5
<1>6. CASE \E a \in {"lost", "unavailable", "rejected"} :
             handler' = [handler EXCEPT !.answer = a] /\ UNCHANGED remote
  <2>1. RemoteStep
    BY <1>6 DEF RemoteStep
  <2> QED BY <1>3, <1>6, <2>1
<1> QED BY <1>5, <1>6 DEF Ask

\* The request that creates an object.
LEMMA CreationAsked ==
  ASSUME PublishInv, Ask("create", Creation), UNCHANGED platform
  PROVE  PublishInv' /\ Promised
<1>1. Current = NoObject
  BY DEF Ask, At, PublishInv, PhaseInv, Checked, Current
<1>2. ASSUME NEW o \in Creation, remote' = o.remote
      PROVE  /\ o.answer \in Answers /\ RemoteStep
             /\ At("create", o.answer)' => AnswerInv'
  <2>1. Newest < RemoteBound /\ o = [answer |-> "ok", remote |-> Created]
    BY DEF Creation
  <2>2. RemoteStep
    BY <1>1, <1>2, <2>1 DEF RemoteStep
  <2>3. Newest' >= 1
    BY <1>2, <2>1, ObjectCreated, NewestBounded, Sizes DEF PublishInv
  <2>4. At("create", o.answer)' => AnswerInv'
    BY <2>1, <2>3 DEF AnswerInv, At
  <2> QED BY <2>1, <2>2, <2>4 DEF Answers
<1>3. \A o \in Creation : o.answer \in Answers
  BY DEF Creation, Answers
<1> QED BY <1>2, <1>3, RequestSent DEF Phases

\* A request whose outcomes leave the objects alone, and whose answers say
\* nothing untrue of them.
LEMMA OnlyAnswered ==
  ASSUME PublishInv, NEW phase \in Phases \ {"idle"}, NEW answers \in SUBSET Answers,
         Ask(phase, Unchanged(answers)), UNCHANGED platform,
         \A a \in answers : UNCHANGED <<remote, checkpoint>> /\ At(phase, a)' => AnswerInv'
  PROVE  PublishInv' /\ Promised
<1>1. \A o \in Unchanged(answers) : o.answer \in answers /\ o.remote = remote
  BY DEF Unchanged
<1>2. remote' = remote => RemoteStep
  BY DEF RemoteStep
<1>3. UNCHANGED checkpoint
  BY DEF Ask
<1> QED BY <1>1, <1>2, <1>3, RequestSent

\* The other variables keep their types when the upload URL and the account change.
LEMMA OthersKept ==
  ASSUME PublishInv, UNCHANGED crashes,
         uploadUrl' \in {uploadUrl, "none", "valid", "expired"},
         account' \in {account, "connected", "reauthorization_required", "unavailable"}
  PROVE  OthersTyped
  BY DEF PublishInv, TypeOK, OthersTyped

\* A call fails: the job is settled with the row as it is.
LEMMA CallFails ==
  ASSUME PublishInv, NEW phase \in Phases \ {"idle"}, CallFailed(phase), UNCHANGED platform
  PROVE  PublishInv' /\ Promised
<1>1. handler.phase # "idle" /\ (Throw(TRUE) \/ Throw(FALSE))
  BY DEF CallFailed, Throw
<1>2. OthersTyped
  BY DEF PublishInv, TypeOK, OthersTyped, CallFailed
<1> QED BY <1>1, <1>2, HandlerSettles, RowUnchanged DEF CallFailed

-----------------------------------------------------------------------------
(* What several handlers do alike.                                         *)

\* What holds of the types and of the row whenever a handler runs.
LEMMA Basics ==
  ASSUME PublishInv
  PROVE  /\ Size \in Nat \ {0} /\ NoObject \notin Objects /\ RowTrue(checkpoint)
         /\ checkpoint \in Rows
         /\ handler \in [phase : Phases, answer : Answers]
         /\ checkpoint.remote \in Objects \cup {NoObject}
         /\ checkpoint.session \in Objects \cup {NoObject}
         /\ checkpoint.uploaded \in 0..Size /\ checkpoint.status \in Statuses
         /\ remote \in [Objects -> [state : {"absent", "open"} \cup Touched,
                                    received : 0..Size, forgotten : BOOLEAN]]
         /\ Current \in Objects \cup {NoObject}
         /\ checkpoint.remote # NoObject => Current = checkpoint.remote
         /\ platform # "youtube" => Current = checkpoint.remote /\ checkpoint.session = NoObject
         /\ checkpoint.session # NoObject
              => Current = checkpoint.session /\ checkpoint.remote = NoObject
         /\ Current # NoObject => checkpoint.uploaded <= remote[Current].received
         /\ Current = NoObject => checkpoint.uploaded = 0
         /\ checkpoint.status = "published" => checkpoint.remote \in Posted
         /\ Checked(handler.phase, checkpoint)
<1>1. Size \in Nat \ {0} /\ NoObject \notin Objects
  BY Sizes DEF NoObject, Objects
<1>2. /\ handler \in [phase : Phases, answer : Answers]
      /\ checkpoint.remote \in Objects \cup {NoObject}
      /\ checkpoint.session \in Objects \cup {NoObject}
      /\ checkpoint.uploaded \in 0..Size /\ checkpoint.status \in Statuses
  BY DEF PublishInv, TypeOK
<1>3. remote \in [Objects -> [state : {"absent", "open"} \cup Touched,
                              received : 0..Size, forgotten : BOOLEAN]]
  BY DEF PublishInv, TypeOK, Touched
<1>4. /\ Current \in Objects \cup {NoObject}
      /\ checkpoint.remote # NoObject => Current = checkpoint.remote
      /\ platform # "youtube" => Current = checkpoint.remote /\ checkpoint.session = NoObject
      /\ checkpoint.session # NoObject
           => Current = checkpoint.session /\ checkpoint.remote = NoObject
  BY <1>2 DEF PublishInv, RowInv, Current, Of
<1>5. /\ Current # NoObject => checkpoint.uploaded <= remote[Current].received
      /\ Current = NoObject => checkpoint.uploaded = 0
      /\ checkpoint.status = "published" => checkpoint.remote \in Posted
  BY RowUnchanged DEF RowTrue, Current
<1> QED BY <1>1, <1>2, <1>3, <1>4, <1>5, RowUnchanged DEF PublishInv, PhaseInv, RowTrue

\* The row of an answered creation stands for the newest object.
LEMMA NewestSaved ==
  ASSUME PublishInv, At("create", "ok"), NEW row,
         \/ platform # "youtube" /\ row = WithObject("uploading")
         \/ platform = "youtube" /\ row = [checkpoint EXCEPT !.session = Newest, !.uploaded = 0]
  PROVE  RowTrue(row) /\ row.uploaded = 0 /\ Of(row) # NoObject
         /\ (platform = "youtube" => row.session # NoObject)
<1>1. Newest \in Objects /\ Exists(Newest)
  <2>1. Newest >= 1 /\ Newest <= RemoteBound /\ Newest \in Nat /\ RemoteBound \in Nat
    BY NewestBounded, Sizes DEF PublishInv, AnswerInv
  <2>2. Newest \in Objects
    BY <2>1 DEF Objects
  <2> QED BY <2>1, <2>2 DEF PublishInv, ObjectsInv
<1>2. /\ Current = NoObject /\ checkpoint.remote = NoObject /\ checkpoint.session = NoObject
      /\ checkpoint.uploaded = 0 /\ checkpoint.status # "published"
  <2>1. Of(checkpoint) = NoObject
    BY Basics DEF At, Checked
  <2> QED BY <2>1, Basics DEF Current, Of, Posted
<1>3. /\ row \in Rows
      /\ row.uploaded = 0 /\ row.status # "published"
      /\ \/ platform # "youtube" /\ row.remote = Newest /\ row.session = NoObject
         \/ platform = "youtube" /\ row.session = Newest /\ row.remote = NoObject
  BY <1>1, <1>2, Basics DEF WithObject, Statuses, Rows
<1>4. Of(row) = Newest
  BY <1>1, <1>3, Basics DEF Of
<1>5. \A r \in Objects : Remembers => remote[r].state \in {"absent", "open"}
  BY <1>2, Basics DEF PublishInv, LeftInv, Remembers
<1>6. 0 <= remote[Newest].received
  BY <1>1, Basics
<1> QED BY <1>1, <1>3, <1>4, <1>5, <1>6, Basics DEF RowTrue

\* Created: checkpointed first, then its upload URL is stored.
LEMMA ObjectCheckpointed ==
  ASSUME PublishInv, platform # "youtube", At("create", "ok"), checkpoint' = WithObject("uploading"),
         GoTo("storeUrl"), UNCHANGED <<uploadUrl, account, remote, crashes, platform>>
  PROVE  PublishInv' /\ Promised
<1>1. RowTrue(checkpoint') /\ checkpoint'.uploaded = 0 /\ Of(checkpoint') # NoObject
  BY NewestSaved
<1>2. Checked("storeUrl", checkpoint')
  BY <1>1, Basics DEF Checked
<1>3. handler.phase = "create" /\ OthersTyped
  BY OthersKept DEF At
<1> QED BY <1>1, <1>2, <1>3, HandlerGoesOn DEF Phases

\* The upload URL is stored, and the transfer begins.
LEMMA UrlStored ==
  ASSUME PublishInv, platform # "youtube", StoreUrl("transfer"), UNCHANGED platform
  PROVE  PublishInv' /\ Promised
<1>1. /\ handler.phase = "storeUrl" /\ UNCHANGED <<checkpoint, remote>> /\ OthersTyped
      /\ GoTo("transfer") \/ Throw(FALSE)
  BY OthersKept DEF StoreUrl, At
<1>2. Checked("transfer", checkpoint')
  BY <1>1, Basics DEF Checked
<1> QED BY <1>1, <1>2, Basics, HandlerSettles, HandlerGoesOn DEF Phases

\* Uploaded: the URL is deleted, then the service is polled.
LEMMA UrlDeleted ==
  ASSUME PublishInv, At("forgetUrl", "none"),
         (uploadUrl' = "none" /\ GoTo("poll")) \/ (UNCHANGED uploadUrl /\ Throw(FALSE)),
         UNCHANGED <<checkpoint, account, remote, crashes, platform>>
  PROVE  PublishInv' /\ Promised
<1>1. handler.phase = "forgetUrl" /\ OthersTyped
  BY OthersKept DEF At
<1>2. Checked("poll", checkpoint')
  BY <1>1, Basics DEF Checked
<1> QED BY <1>1, <1>2, Basics, HandlerSettles, HandlerGoesOn DEF Phases

\* A polled status is checkpointed, and the job settles by it.
LEMMA StatusPolled ==
  ASSUME PublishInv, handler.phase = "poll", NEW s \in Statuses,
         checkpoint' = [checkpoint EXCEPT !.status = s],
         s = "published" => checkpoint.remote \in Posted,
         Throw(TRUE) \/ Throw(FALSE) \/ (Return /\ s = "published"),
         UNCHANGED <<uploadUrl, account, remote, crashes, platform>>
  PROVE  PublishInv' /\ Promised
<1>1. RowTrue(checkpoint')
  <2>1. /\ checkpoint' \in Rows /\ checkpoint'.status = s
        /\ checkpoint'.remote = checkpoint.remote /\ checkpoint'.session = checkpoint.session
        /\ checkpoint'.uploaded = checkpoint.uploaded
    BY Basics DEF Rows
  <2> QED BY <2>1, Basics, RowUpdated
<1>2. OthersTyped
  BY OthersKept
<1> QED BY <1>1, <1>2, HandlerSettles

\* tiktok and youtube answer a poll with what became of the object.
LEMMA StatusAsked ==
  ASSUME PublishInv, UNCHANGED platform,
         Ask("poll", Unchanged({CASE remote[checkpoint.remote].state = "posted" -> "published"
                                  [] remote[checkpoint.remote].state = "failed" -> "failed"
                                  [] OTHER -> "processing"}))
  PROVE  PublishInv' /\ Promised
<1>1. PICK a \in {"published", "failed", "processing"} :
        /\ a = "published" => remote[checkpoint.remote].state = "posted"
        /\ Ask("poll", Unchanged({a}))
  <2>1. CASE remote[checkpoint.remote].state = "posted"
    BY <2>1
  <2>2. CASE remote[checkpoint.remote].state = "failed"
    BY <2>2
  <2>3. CASE remote[checkpoint.remote].state \notin {"posted", "failed"}
    BY <2>3
  <2> QED BY <2>1, <2>2, <2>3
<1>2. handler.phase = "poll"
  BY <1>1 DEF Ask, At
<1>3. a = "published" => checkpoint.remote \in Posted
  BY <1>1, <1>2, Basics DEF Posted, Checked
<1>4. UNCHANGED <<remote, checkpoint>> /\ At("poll", a)' => AnswerInv'
  BY <1>1, <1>3 DEF At, AnswerInv, Posted
<1> QED BY <1>1, <1>4, OnlyAnswered DEF Phases, Answers

\* The object the handler sends to has received n chunks.
LEMMA ChunkTaken ==
  ASSUME PublishInv, Current # NoObject, ~remote[Current].forgotten,
         NEW n \in remote[Current].received..Size, remote' = Received(Current, n),
         UNCHANGED <<checkpoint, platform>>
  PROVE  RemoteStep /\ Current' = Current /\ remote'[Current].received = n
<1>1. Current' = Current
  BY DEF Current, Of
<1>2. Current \in Objects
  BY Basics
<1> QED BY <1>1, <1>2, Basics DEF RemoteStep, Received

-----------------------------------------------------------------------------
(* The four handlers, action by action.                                    *)

\* TikTok is built from the common blocks.
LEMMA TikTokWords ==
  /\ \A p, a : TikTok!At(p, a) <=> At(p, a)
  /\ \A p : TikTok!GoTo(p) <=> GoTo(p)
  /\ \A b : TikTok!Throw(b) <=> Throw(b)
  /\ TikTok!Return <=> Return
  /\ \A row : TikTok!Save(row) <=> checkpoint' = row
  /\ TikTok!NoObject = NoObject /\ TikTok!Newest = Newest
  /\ \A s : TikTok!WithObject(s) = WithObject(s)
  /\ \A p : TikTok!CallFailed(p) <=> CallFailed(p)
  /\ \A p : TikTok!StoreUrl(p) <=> StoreUrl(p)
  /\ \A p, o : TikTok!Ask(p, o) <=> Ask(p, o)
  /\ TikTok!Creation = Creation
  /\ \A a : TikTok!Unchanged(a) = Unchanged(a)
  /\ \A r, n : TikTok!Received(r, n) = Received(r, n)
<1>1. \A p, a : TikTok!At(p, a) <=> At(p, a)
  BY DEF TikTok!At, At
<1>2. \A p : TikTok!GoTo(p) <=> GoTo(p)
  BY DEF TikTok!GoTo, GoTo
<1>3. \A b : TikTok!Settled(b) = Settled(b)
  BY DEF TikTok!Settled, Settled
<1>4. \A b : TikTok!Throw(b) <=> Throw(b)
  BY <1>3 DEF TikTok!Throw, Throw, TikTok!Idle, Idle
<1>5. TikTok!Return <=> Return
  BY DEF TikTok!Return, Return, TikTok!Idle, Idle
<1>6. TikTok!Newest = Newest
  <2>1. \A S : TikTok!Cardinality(S) = Cardinality(S)
    BY DEF TikTok!Cardinality, Cardinality
  <2> QED BY <2>1 DEF TikTok!Newest, Newest, TikTok!Objects, Objects, TikTok!Exists, Exists
<1>7. \A s : TikTok!WithObject(s) = WithObject(s)
  BY <1>6 DEF TikTok!WithObject, WithObject
<1>8. \A p : TikTok!CallFailed(p) <=> CallFailed(p)
  BY <1>4 DEF TikTok!CallFailed, CallFailed
<1>9. \A p : TikTok!StoreUrl(p) <=> StoreUrl(p)
  BY <1>1, <1>2, <1>4 DEF TikTok!StoreUrl, StoreUrl
<1>10. \A p, o : TikTok!Ask(p, o) <=> Ask(p, o)
  BY <1>1 DEF TikTok!Ask, Ask
<1>11. TikTok!Creation = Creation
  BY <1>6 DEF TikTok!Creation, Creation, TikTok!Created, Created
<1>12. \A a : TikTok!Unchanged(a) = Unchanged(a)
  BY DEF TikTok!Unchanged, Unchanged
<1>13. \A r, n : TikTok!Received(r, n) = Received(r, n)
  BY DEF TikTok!Received, Received
<1>14. TikTok!NoObject = NoObject /\ \A row : TikTok!Save(row) <=> checkpoint' = row
  BY DEF TikTok!NoObject, NoObject, TikTok!Save
<1> QED BY <1>1, <1>2, <1>4, <1>5, <1>6, <1>7, <1>8, <1>9, <1>10, <1>11, <1>12, <1>13, <1>14

\* YouTube is built from the common blocks.
LEMMA YouTubeWords ==
  /\ \A p, a : YouTube!At(p, a) <=> At(p, a)
  /\ \A p : YouTube!GoTo(p) <=> GoTo(p)
  /\ \A b : YouTube!Throw(b) <=> Throw(b)
  /\ YouTube!Return <=> Return
  /\ \A row : YouTube!Save(row) <=> checkpoint' = row
  /\ YouTube!NoObject = NoObject /\ YouTube!Newest = Newest
  /\ \A s : YouTube!WithObject(s) = WithObject(s)
  /\ \A p : YouTube!CallFailed(p) <=> CallFailed(p)
  /\ \A p : YouTube!StoreUrl(p) <=> StoreUrl(p)
  /\ \A p, o : YouTube!Ask(p, o) <=> Ask(p, o)
  /\ YouTube!Creation = Creation
  /\ \A a : YouTube!Unchanged(a) = Unchanged(a)
  /\ \A r, n : YouTube!Received(r, n) = Received(r, n)
<1>1. \A p, a : YouTube!At(p, a) <=> At(p, a)
  BY DEF YouTube!At, At
<1>2. \A p : YouTube!GoTo(p) <=> GoTo(p)
  BY DEF YouTube!GoTo, GoTo
<1>3. \A b : YouTube!Settled(b) = Settled(b)
  BY DEF YouTube!Settled, Settled
<1>4. \A b : YouTube!Throw(b) <=> Throw(b)
  BY <1>3 DEF YouTube!Throw, Throw, YouTube!Idle, Idle
<1>5. YouTube!Return <=> Return
  BY DEF YouTube!Return, Return, YouTube!Idle, Idle
<1>6. YouTube!Newest = Newest
  <2>1. \A S : YouTube!Cardinality(S) = Cardinality(S)
    BY DEF YouTube!Cardinality, Cardinality
  <2> QED BY <2>1 DEF YouTube!Newest, Newest, YouTube!Objects, Objects, YouTube!Exists, Exists
<1>7. \A s : YouTube!WithObject(s) = WithObject(s)
  BY <1>6 DEF YouTube!WithObject, WithObject
<1>8. \A p : YouTube!CallFailed(p) <=> CallFailed(p)
  BY <1>4 DEF YouTube!CallFailed, CallFailed
<1>9. \A p : YouTube!StoreUrl(p) <=> StoreUrl(p)
  BY <1>1, <1>2, <1>4 DEF YouTube!StoreUrl, StoreUrl
<1>10. \A p, o : YouTube!Ask(p, o) <=> Ask(p, o)
  BY <1>1 DEF YouTube!Ask, Ask
<1>11. YouTube!Creation = Creation
  BY <1>6 DEF YouTube!Creation, Creation, YouTube!Created, Created
<1>12. \A a : YouTube!Unchanged(a) = Unchanged(a)
  BY DEF YouTube!Unchanged, Unchanged
<1>13. \A r, n : YouTube!Received(r, n) = Received(r, n)
  BY DEF YouTube!Received, Received
<1>14. YouTube!NoObject = NoObject /\ \A row : YouTube!Save(row) <=> checkpoint' = row
  BY DEF YouTube!NoObject, NoObject, YouTube!Save
<1> QED BY <1>1, <1>2, <1>4, <1>5, <1>6, <1>7, <1>8, <1>9, <1>10, <1>11, <1>12, <1>13, <1>14

\* Instagram is built from the common blocks.
LEMMA InstagramWords ==
  /\ \A p, a : Instagram!At(p, a) <=> At(p, a)
  /\ \A p : Instagram!GoTo(p) <=> GoTo(p)
  /\ \A b : Instagram!Throw(b) <=> Throw(b)
  /\ Instagram!Return <=> Return
  /\ \A row : Instagram!Save(row) <=> checkpoint' = row
  /\ Instagram!NoObject = NoObject /\ Instagram!Newest = Newest
  /\ \A s : Instagram!WithObject(s) = WithObject(s)
  /\ \A p : Instagram!CallFailed(p) <=> CallFailed(p)
  /\ \A p : Instagram!StoreUrl(p) <=> StoreUrl(p)
  /\ \A p, o : Instagram!Ask(p, o) <=> Ask(p, o)
  /\ Instagram!Creation = Creation
  /\ \A a : Instagram!Unchanged(a) = Unchanged(a)
  /\ \A r, n : Instagram!Received(r, n) = Received(r, n)
<1>1. \A p, a : Instagram!At(p, a) <=> At(p, a)
  BY DEF Instagram!At, At
<1>2. \A p : Instagram!GoTo(p) <=> GoTo(p)
  BY DEF Instagram!GoTo, GoTo
<1>3. \A b : Instagram!Settled(b) = Settled(b)
  BY DEF Instagram!Settled, Settled
<1>4. \A b : Instagram!Throw(b) <=> Throw(b)
  BY <1>3 DEF Instagram!Throw, Throw, Instagram!Idle, Idle
<1>5. Instagram!Return <=> Return
  BY DEF Instagram!Return, Return, Instagram!Idle, Idle
<1>6. Instagram!Newest = Newest
  <2>1. \A S : Instagram!Cardinality(S) = Cardinality(S)
    BY DEF Instagram!Cardinality, Cardinality
  <2> QED BY <2>1 DEF Instagram!Newest, Newest, Instagram!Objects, Objects, Instagram!Exists, Exists
<1>7. \A s : Instagram!WithObject(s) = WithObject(s)
  BY <1>6 DEF Instagram!WithObject, WithObject
<1>8. \A p : Instagram!CallFailed(p) <=> CallFailed(p)
  BY <1>4 DEF Instagram!CallFailed, CallFailed
<1>9. \A p : Instagram!StoreUrl(p) <=> StoreUrl(p)
  BY <1>1, <1>2, <1>4 DEF Instagram!StoreUrl, StoreUrl
<1>10. \A p, o : Instagram!Ask(p, o) <=> Ask(p, o)
  BY <1>1 DEF Instagram!Ask, Ask
<1>11. Instagram!Creation = Creation
  BY <1>6 DEF Instagram!Creation, Creation, Instagram!Created, Created
<1>12. \A a : Instagram!Unchanged(a) = Unchanged(a)
  BY DEF Instagram!Unchanged, Unchanged
<1>13. \A r, n : Instagram!Received(r, n) = Received(r, n)
  BY DEF Instagram!Received, Received
<1>14. Instagram!NoObject = NoObject /\ \A row : Instagram!Save(row) <=> checkpoint' = row
  BY DEF Instagram!NoObject, NoObject, Instagram!Save
<1> QED BY <1>1, <1>2, <1>4, <1>5, <1>6, <1>7, <1>8, <1>9, <1>10, <1>11, <1>12, <1>13, <1>14

\* Facebook is built from the common blocks.
LEMMA FacebookWords ==
  /\ \A p, a : Facebook!At(p, a) <=> At(p, a)
  /\ \A p : Facebook!GoTo(p) <=> GoTo(p)
  /\ \A b : Facebook!Throw(b) <=> Throw(b)
  /\ Facebook!Return <=> Return
  /\ \A row : Facebook!Save(row) <=> checkpoint' = row
  /\ Facebook!NoObject = NoObject /\ Facebook!Newest = Newest
  /\ \A s : Facebook!WithObject(s) = WithObject(s)
  /\ \A p : Facebook!CallFailed(p) <=> CallFailed(p)
  /\ \A p : Facebook!StoreUrl(p) <=> StoreUrl(p)
  /\ \A p, o : Facebook!Ask(p, o) <=> Ask(p, o)
  /\ Facebook!Creation = Creation
  /\ \A a : Facebook!Unchanged(a) = Unchanged(a)
  /\ \A r, n : Facebook!Received(r, n) = Received(r, n)
<1>1. \A p, a : Facebook!At(p, a) <=> At(p, a)
  BY DEF Facebook!At, At
<1>2. \A p : Facebook!GoTo(p) <=> GoTo(p)
  BY DEF Facebook!GoTo, GoTo
<1>3. \A b : Facebook!Settled(b) = Settled(b)
  BY DEF Facebook!Settled, Settled
<1>4. \A b : Facebook!Throw(b) <=> Throw(b)
  BY <1>3 DEF Facebook!Throw, Throw, Facebook!Idle, Idle
<1>5. Facebook!Return <=> Return
  BY DEF Facebook!Return, Return, Facebook!Idle, Idle
<1>6. Facebook!Newest = Newest
  <2>1. \A S : Facebook!Cardinality(S) = Cardinality(S)
    BY DEF Facebook!Cardinality, Cardinality
  <2> QED BY <2>1 DEF Facebook!Newest, Newest, Facebook!Objects, Objects, Facebook!Exists, Exists
<1>7. \A s : Facebook!WithObject(s) = WithObject(s)
  BY <1>6 DEF Facebook!WithObject, WithObject
<1>8. \A p : Facebook!CallFailed(p) <=> CallFailed(p)
  BY <1>4 DEF Facebook!CallFailed, CallFailed
<1>9. \A p : Facebook!StoreUrl(p) <=> StoreUrl(p)
  BY <1>1, <1>2, <1>4 DEF Facebook!StoreUrl, StoreUrl
<1>10. \A p, o : Facebook!Ask(p, o) <=> Ask(p, o)
  BY <1>1 DEF Facebook!Ask, Ask
<1>11. Facebook!Creation = Creation
  BY <1>6 DEF Facebook!Creation, Creation, Facebook!Created, Created
<1>12. \A a : Facebook!Unchanged(a) = Unchanged(a)
  BY DEF Facebook!Unchanged, Unchanged
<1>13. \A r, n : Facebook!Received(r, n) = Received(r, n)
  BY DEF Facebook!Received, Received
<1>14. Facebook!NoObject = NoObject /\ \A row : Facebook!Save(row) <=> checkpoint' = row
  BY DEF Facebook!NoObject, NoObject, Facebook!Save
<1> QED BY <1>1, <1>2, <1>4, <1>5, <1>6, <1>7, <1>8, <1>9, <1>10, <1>11, <1>12, <1>13, <1>14

\* The handler of tiktok.
LEMMA TikTokHandles ==
  ASSUME PublishInv, platform = "tiktok", UNCHANGED platform, TikTok!HandlerStep
  PROVE  PublishInv' /\ Promised
<1>1. CASE TikTok!Start
  <2>1. /\ At("start", "none") /\ UNCHANGED <<checkpoint, uploadUrl, account, remote, crashes>>
        /\ \/ Throw(FALSE)
           \/ GoTo(IF checkpoint.remote # NoObject /\ checkpoint.uploaded >= Size
                   THEN "poll" ELSE "authorize")
    BY <1>1, TikTokWords DEF TikTok!Start
  <2>2. handler.phase = "start" /\ OthersTyped
    BY <2>1, OthersKept DEF At
  <2>3. \/ Throw(FALSE)
        \/ GoTo("poll") /\ Checked("poll", checkpoint')
        \/ GoTo("authorize") /\ Checked("authorize", checkpoint')
    <3>1. CASE checkpoint.remote # NoObject /\ checkpoint.uploaded >= Size
      BY <2>1, <3>1 DEF Checked
    <3>2. CASE ~(checkpoint.remote # NoObject /\ checkpoint.uploaded >= Size)
      <4>1. Checked("authorize", checkpoint')
        BY <2>1, <3>2, Basics DEF Checked
      <4> QED BY <2>1, <3>2, <4>1
    <3> QED BY <3>1, <3>2
  <2> QED BY <2>1, <2>2, <2>3, Basics, HandlerSettles, HandlerGoesOn DEF Phases
<1>2. CASE TikTok!Authorized
  <2>1. /\ At("authorize", "ok") /\ UNCHANGED <<checkpoint, uploadUrl, account, remote, crashes>>
        /\ Throw(FALSE) \/ GoTo(IF checkpoint.remote = NoObject THEN "create" ELSE "transfer")
    BY <1>2, TikTokWords DEF TikTok!Authorized
  <2>2. handler.phase = "authorize" /\ OthersTyped
    BY <2>1, OthersKept DEF At
  <2>3. \/ Throw(FALSE)
        \/ GoTo("create") /\ Checked("create", checkpoint')
        \/ GoTo("transfer") /\ Checked("transfer", checkpoint')
    <3>1. CASE checkpoint.remote = NoObject
      BY <2>1, <3>1, Basics DEF Checked, Of
    <3>2. CASE checkpoint.remote # NoObject
      BY <2>1, <2>2, <3>2, Basics DEF Checked, Of
    <3> QED BY <3>1, <3>2
  <2> QED BY <2>1, <2>2, <2>3, Basics, HandlerSettles, HandlerGoesOn DEF Phases
<1>3. CASE TikTok!Initialized
  BY <1>3, TikTokWords, ObjectCheckpointed DEF TikTok!Initialized
<1>4. CASE TikTok!StoreUrl("transfer")
  BY <1>4, TikTokWords, UrlStored
<1>5. CASE TikTok!NextChunk
  <2>1. /\ At("transfer", "none") /\ UNCHANGED <<checkpoint, uploadUrl, account, remote, crashes>>
        /\ GoTo("upload") \/ Throw(FALSE)
    BY <1>5, TikTokWords DEF TikTok!NextChunk
  <2>2. handler.phase = "transfer" /\ OthersTyped
    BY <2>1, OthersKept DEF At
  <2>3. Checked("upload", checkpoint')
    BY <2>1, <2>2, Basics DEF Checked
  <2> QED BY <2>1, <2>2, <2>3, Basics, HandlerSettles, HandlerGoesOn DEF Phases
<1>6. CASE TikTok!ChunkSent
  <2>1. /\ At("upload", "more") /\ UNCHANGED <<uploadUrl, account, remote, crashes>>
        /\ checkpoint' = [checkpoint EXCEPT !.uploaded = checkpoint.uploaded + 1]
        /\ GoTo("transfer")
    BY <1>6, TikTokWords DEF TikTok!ChunkSent
  <2>2. handler.phase = "upload" /\ OthersTyped
    BY <2>1, OthersKept DEF At
  <2>3. /\ remote[Current].received = checkpoint.uploaded + 1
        /\ checkpoint.uploaded + 1 \in 0..Size /\ checkpoint.uploaded + 1 < Size
        /\ Current # NoObject
    BY <2>1, <2>2, Basics DEF PublishInv, AnswerInv, Checked, Current
  <2>4. /\ checkpoint' \in Rows /\ checkpoint'.uploaded = checkpoint.uploaded + 1
        /\ checkpoint'.remote = checkpoint.remote /\ checkpoint'.session = checkpoint.session
        /\ checkpoint'.status = checkpoint.status
    BY <2>1, <2>3, Basics DEF Rows
  <2>5. RowTrue(checkpoint') /\ Of(checkpoint') = Current
    BY <2>3, <2>4, Basics, RowUpdated
  <2>6. Checked("transfer", checkpoint')
    BY <2>3, <2>4, <2>5 DEF Checked
  <2> QED BY <2>1, <2>2, <2>5, <2>6, HandlerGoesOn DEF Phases
<1>7. CASE TikTok!LastChunkSent
  <2>1. /\ At("upload", "ok") /\ UNCHANGED <<uploadUrl, account, remote, crashes>>
        /\ checkpoint' = [checkpoint EXCEPT !.uploaded = Size, !.status = "processing"]
        /\ GoTo("forgetUrl")
    BY <1>7, TikTokWords DEF TikTok!LastChunkSent
  <2>2. handler.phase = "upload" /\ OthersTyped
    BY <2>1, OthersKept DEF At
  <2>3. remote[Current].received = Size /\ Current # NoObject
    BY <2>1, <2>2, Basics DEF PublishInv, AnswerInv, Checked, Current
  <2>4. /\ checkpoint' \in Rows /\ checkpoint'.uploaded = Size
        /\ checkpoint'.remote = checkpoint.remote /\ checkpoint'.session = checkpoint.session
        /\ checkpoint'.status = "processing"
    BY <2>1, <2>3, Basics DEF Rows, Statuses
  <2>5. RowTrue(checkpoint') /\ checkpoint'.remote = checkpoint.remote
    BY <2>3, <2>4, Basics, RowUpdated
  <2>6. Checked("forgetUrl", checkpoint')
    BY <2>3, <2>5, Basics DEF Checked
  <2> QED BY <2>1, <2>2, <2>5, <2>6, HandlerGoesOn DEF Phases
<1>8. CASE TikTok!ForgetUrl
  BY <1>8, TikTokWords, UrlDeleted DEF TikTok!ForgetUrl, TikTok!UrlForgotten
<1>9. CASE TikTok!Polled
  <2>1. /\ handler.phase = "poll" /\ handler.answer \in {"processing", "published", "failed"}
        /\ checkpoint' = [checkpoint EXCEPT !.status = handler.answer]
        /\ UNCHANGED <<uploadUrl, account, remote, crashes>>
    BY <1>9, TikTokWords DEF TikTok!Polled
  <2>2. Throw(TRUE) \/ Throw(FALSE) \/ (Return /\ handler.answer = "published")
    <3>1. CASE handler.answer = "processing"
      BY <1>9, <3>1, TikTokWords DEF TikTok!Polled
    <3>2. CASE handler.answer = "published"
      BY <1>9, <3>2, TikTokWords DEF TikTok!Polled
    <3>3. CASE handler.answer = "failed"
      BY <1>9, <3>3, TikTokWords DEF TikTok!Polled
    <3> QED BY <2>1, <3>1, <3>2, <3>3
  <2>3. handler.answer = "published" => checkpoint.remote \in Posted
    BY <2>1, Basics DEF PublishInv, AnswerInv, At
  <2>4. handler.answer \in Statuses
    BY <2>1 DEF Statuses
  <2> QED BY <2>1, <2>2, <2>3, <2>4, StatusPolled
<1>10. CASE TikTok!Ask("authorize", TikTok!Unchanged({"ok"}))
  <2>1. At("authorize", "ok")' => AnswerInv'
    BY DEF At, AnswerInv
  <2> QED BY <1>10, <2>1, TikTokWords, OnlyAnswered DEF Phases, Answers
<1>11. CASE TikTok!Ask("create", TikTok!Creation)
  BY <1>11, TikTokWords, CreationAsked
<1>12. CASE TikTok!Ask("upload", TikTok!ChunkOutcomes)
  <2>1. Ask("upload", TikTok!ChunkOutcomes) /\ handler.phase = "upload" /\ UNCHANGED checkpoint
    BY <1>12, TikTokWords DEF Ask, At
  <2>2. /\ Current = checkpoint.remote /\ Current \in Objects /\ checkpoint.uploaded < Size
        /\ ~remote[Current].forgotten
    BY <2>1, Basics DEF Checked, Current, PublishInv, ObjectsInv
  <2>3. ASSUME NEW o \in TikTok!ChunkOutcomes
        PROVE  /\ o.answer = IF checkpoint.uploaded + 1 = Size THEN "ok" ELSE "more"
               /\ o.remote = Received(Current, checkpoint.uploaded + 1)
               /\ checkpoint.uploaded + 1 \in remote[Current].received..Size
    <3>1. ~(uploadUrl # "valid" \/ remote[checkpoint.remote].received > checkpoint.uploaded)
      BY <2>3 DEF TikTok!ChunkOutcomes
    <3>2. o = [answer |-> IF checkpoint.uploaded + 1 = Size THEN "ok" ELSE "more",
               remote |-> Received(Current, checkpoint.uploaded + 1)]
      BY <2>2, <2>3, <3>1, TikTokWords DEF TikTok!ChunkOutcomes
    <3>3. /\ remote[Current].received \in Nat /\ remote[Current].received <= checkpoint.uploaded
          /\ checkpoint.uploaded \in Nat /\ Size \in Nat
      BY <2>2, <3>1, Basics
    <3> QED BY <2>2, <3>2, <3>3
  <2>4. ASSUME NEW o \in TikTok!ChunkOutcomes, remote' = o.remote
        PROVE  RemoteStep /\ (At("upload", o.answer)' => AnswerInv')
    <3>1. RemoteStep /\ Current' = Current /\ remote'[Current].received = checkpoint.uploaded + 1
      BY <2>1, <2>2, <2>3, <2>4, ChunkTaken, Basics
    <3>2. checkpoint.uploaded + 1 # Size => checkpoint.uploaded + 1 < Size
      BY <2>2, Basics
    <3>3. At("upload", o.answer)' => AnswerInv'
      BY <2>1, <2>3, <3>1, <3>2 DEF At, AnswerInv
    <3> QED BY <3>1, <3>3
  <2> QED BY <2>1, <2>3, <2>4, RequestSent DEF Phases, Answers
<1>13. CASE TikTok!Ask("poll", TikTok!PollOutcomes)
  BY <1>13, TikTokWords, StatusAsked DEF TikTok!PollOutcomes
<1>14. ASSUME NEW p \in {"authorize", "create", "upload", "poll"}, TikTok!CallFailed(p)
       PROVE  PublishInv' /\ Promised
  BY <1>14, TikTokWords, CallFails DEF Phases
<1> QED BY <1>1, <1>2, <1>3, <1>4, <1>5, <1>6, <1>7, <1>8, <1>9, <1>10, <1>11, <1>12,
           <1>13, <1>14 DEF TikTok!HandlerStep, TikTok!Call

\* The handler of youtube.
LEMMA YouTubeHandles ==
  ASSUME PublishInv, platform = "youtube", UNCHANGED platform, YouTube!HandlerStep
  PROVE  PublishInv' /\ Promised
<1>1. CASE YouTube!Start
  <2>1. /\ At("start", "none") /\ UNCHANGED <<checkpoint, uploadUrl, account, remote, crashes>>
        /\ Throw(FALSE) \/ GoTo(IF checkpoint.remote # NoObject THEN "poll" ELSE "authorize")
    BY <1>1, YouTubeWords DEF YouTube!Start
  <2>2. handler.phase = "start" /\ OthersTyped
    BY <2>1, OthersKept DEF At
  <2>3. \/ Throw(FALSE)
        \/ GoTo("poll") /\ Checked("poll", checkpoint')
        \/ GoTo("authorize") /\ Checked("authorize", checkpoint')
    <3>1. CASE checkpoint.remote # NoObject
      BY <2>1, <3>1 DEF Checked
    <3>2. CASE checkpoint.remote = NoObject
      BY <2>1, <3>2 DEF Checked
    <3> QED BY <3>1, <3>2
  <2> QED BY <2>1, <2>2, <2>3, Basics, HandlerSettles, HandlerGoesOn DEF Phases
<1>2. CASE YouTube!Authorized
  <2>1. /\ At("authorize", "ok") /\ UNCHANGED <<checkpoint, uploadUrl, account, remote, crashes>>
        /\ GoTo(IF checkpoint.session = NoObject THEN "create" ELSE "resume")
    BY <1>2, YouTubeWords DEF YouTube!Authorized
  <2>2. handler.phase = "authorize" /\ OthersTyped /\ checkpoint.remote = NoObject
    BY <2>1, OthersKept, Basics DEF At, Checked
  <2>3. \/ GoTo("create") /\ Checked("create", checkpoint')
        \/ GoTo("resume") /\ Checked("resume", checkpoint')
    <3>1. CASE checkpoint.session = NoObject
      BY <2>1, <2>2, <3>1 DEF Checked, Of
    <3>2. CASE checkpoint.session # NoObject
      BY <2>1, <2>2, <3>2 DEF Checked, Of
    <3> QED BY <3>1, <3>2
  <2> QED BY <2>1, <2>2, <2>3, Basics, HandlerGoesOn DEF Phases
<1>3. CASE YouTube!SessionStarted
  <2>1. /\ At("create", "ok") /\ UNCHANGED <<uploadUrl, account, remote, crashes>>
        /\ checkpoint' = [checkpoint EXCEPT !.session = Newest, !.uploaded = 0]
        /\ GoTo("transfer")
    BY <1>3, YouTubeWords DEF YouTube!SessionStarted
  <2>2. handler.phase = "create" /\ OthersTyped
    BY <2>1, OthersKept DEF At
  <2>3. /\ RowTrue(checkpoint') /\ checkpoint'.uploaded = 0
        /\ Of(checkpoint') # NoObject /\ checkpoint'.session # NoObject
    BY <2>1, NewestSaved
  <2>4. Checked("transfer", checkpoint')
    BY <2>3, Basics DEF Checked
  <2> QED BY <2>1, <2>2, <2>3, <2>4, HandlerGoesOn DEF Phases
<1>4. CASE YouTube!SessionGone
  <2>1. /\ At("resume", "gone") /\ UNCHANGED <<uploadUrl, account, remote, crashes>>
        /\ checkpoint' = [checkpoint EXCEPT !.session = NoObject, !.uploaded = 0]
        /\ GoTo("create")
    BY <1>4, YouTubeWords DEF YouTube!SessionGone
  <2>2. handler.phase = "resume" /\ OthersTyped
    BY <2>1, OthersKept DEF At
  <2>3. /\ checkpoint.remote = NoObject /\ Current \in Objects /\ remote[Current].forgotten
        /\ checkpoint.status # "published"
    <3>1. checkpoint.session # NoObject
      BY <2>2, Basics DEF Checked
    <3>2. remote[Current].forgotten
      BY <2>1 DEF PublishInv, AnswerInv
    <3> QED BY <3>1, <3>2, Basics DEF Posted
  <2>4. /\ checkpoint' \in Rows /\ checkpoint'.uploaded = 0
        /\ checkpoint'.remote = NoObject /\ checkpoint'.session = NoObject
        /\ checkpoint'.status = checkpoint.status
    <3>1. checkpoint \in Rows /\ 0 \in 0..Size /\ NoObject \in Objects \cup {NoObject}
      BY Basics
    <3> QED BY <2>1, <2>3, <3>1 DEF Rows
  <2>5. Of(checkpoint') = NoObject
    BY <2>4 DEF Of
  <2>6. Remembers => \A r \in Objects : remote[r].state \in {"absent", "open"}
    BY <2>3, Basics DEF PublishInv, LeftInv, Remembers, ObjectsInv
  <2>7. RowTrue(checkpoint')
    BY <2>3, <2>4, <2>5, <2>6 DEF RowTrue
  <2>8. Checked("create", checkpoint')
    BY <2>5 DEF Checked
  <2> QED BY <2>1, <2>2, <2>7, <2>8, HandlerGoesOn DEF Phases
<1>5. CASE YouTube!OffsetConfirmed
  <2>1. /\ handler.phase \in {"resume", "upload"} /\ handler.answer = "more"
        /\ UNCHANGED <<uploadUrl, account, remote, crashes>>
        /\ checkpoint' = [checkpoint EXCEPT !.uploaded = remote[checkpoint.session].received]
        /\ GoTo("transfer")
    BY <1>5, YouTubeWords DEF YouTube!OffsetConfirmed
  <2>2. handler.phase # "idle" /\ OthersTyped
    BY <2>1, OthersKept
  <2>3. /\ checkpoint.session # NoObject /\ Current = checkpoint.session /\ Current \in Objects
        /\ remote[Current].received < Size /\ remote[Current].received \in 0..Size
    BY <2>1, Basics DEF Checked, PublishInv, AnswerInv, At
  <2>4. /\ checkpoint' \in Rows /\ checkpoint'.uploaded = remote[Current].received
        /\ checkpoint'.remote = checkpoint.remote /\ checkpoint'.session = checkpoint.session
        /\ checkpoint'.status = checkpoint.status
    BY <2>1, <2>3, Basics DEF Rows
  <2>5. RowTrue(checkpoint') /\ Of(checkpoint') = Current
    BY <2>3, <2>4, Basics, RowUpdated
  <2>6. Checked("transfer", checkpoint')
    BY <2>3, <2>4, <2>5, Basics DEF Checked
  <2> QED BY <2>1, <2>2, <2>5, <2>6, HandlerGoesOn DEF Phases
<1>6. CASE YouTube!Inserted
  <2>1. /\ handler.phase \in {"resume", "upload"} /\ handler.answer = "inserted"
        /\ UNCHANGED <<uploadUrl, account, remote, crashes>>
        /\ checkpoint' = [remote |-> checkpoint.session, session |-> NoObject,
                          status |-> "processing", uploaded |-> Size]
        /\ GoTo("poll")
    BY <1>6, YouTubeWords DEF YouTube!Inserted
  <2>2. handler.phase # "idle" /\ OthersTyped
    BY <2>1, OthersKept
  <2>3. /\ checkpoint.session # NoObject /\ Current = checkpoint.session /\ Current \in Objects
        /\ remote[Current].received = Size
    BY <2>1, Basics DEF Checked, PublishInv, AnswerInv
  <2>4. checkpoint' \in Rows /\ checkpoint'.remote = Current /\ checkpoint'.session = NoObject
        /\ checkpoint'.uploaded = Size /\ checkpoint'.status = "processing"
    BY <2>1, <2>3, Basics DEF Rows, Statuses
  <2>5. Of(checkpoint') = Of(checkpoint) /\ Of(checkpoint) = Current
    BY <2>3, <2>4, Basics DEF Of, Current
  <2>6. RowTrue(checkpoint')
    BY <2>3, <2>4, <2>5, Basics DEF RowTrue
  <2>7. Checked("poll", checkpoint')
    BY <2>3, <2>4, Basics DEF Checked
  <2> QED BY <2>1, <2>2, <2>6, <2>7, HandlerGoesOn DEF Phases
<1>7. CASE YouTube!NextChunk
  <2>1. /\ At("transfer", "none") /\ UNCHANGED <<checkpoint, uploadUrl, account, remote, crashes>>
        /\ GoTo("upload") \/ Throw(FALSE)
    BY <1>7, YouTubeWords DEF YouTube!NextChunk
  <2>2. handler.phase = "transfer" /\ OthersTyped
    BY <2>1, OthersKept DEF At
  <2>3. Checked("upload", checkpoint')
    BY <2>1, <2>2, Basics DEF Checked
  <2> QED BY <2>1, <2>2, <2>3, Basics, HandlerSettles, HandlerGoesOn DEF Phases
<1>8. CASE YouTube!Polled
  <2>1. /\ handler.phase = "poll" /\ handler.answer \in {"processing", "published", "failed"}
        /\ checkpoint' = [checkpoint EXCEPT !.status = handler.answer]
        /\ UNCHANGED <<uploadUrl, account, remote, crashes>>
    BY <1>8, YouTubeWords DEF YouTube!Polled
  <2>2. Throw(TRUE) \/ Throw(FALSE) \/ (Return /\ handler.answer = "published")
    <3>1. CASE handler.answer = "processing"
      BY <1>8, <3>1, YouTubeWords DEF YouTube!Polled
    <3>2. CASE handler.answer = "published"
      BY <1>8, <3>2, YouTubeWords DEF YouTube!Polled
    <3>3. CASE handler.answer = "failed"
      BY <1>8, <3>3, YouTubeWords DEF YouTube!Polled
    <3> QED BY <2>1, <3>1, <3>2, <3>3
  <2>3. handler.answer = "published" => checkpoint.remote \in Posted
    BY <2>1, Basics DEF PublishInv, AnswerInv, At
  <2>4. handler.answer \in Statuses
    BY <2>1 DEF Statuses
  <2> QED BY <2>1, <2>2, <2>3, <2>4, StatusPolled
<1>9. CASE YouTube!Ask("authorize", YouTube!Unchanged({"ok"}))
  <2>1. At("authorize", "ok")' => AnswerInv'
    BY DEF At, AnswerInv
  <2> QED BY <1>9, <2>1, YouTubeWords, OnlyAnswered DEF Phases, Answers
<1>10. CASE YouTube!Ask("create", YouTube!Creation)
  BY <1>10, YouTubeWords, CreationAsked
<1>11. CASE YouTube!Ask("resume", YouTube!ResumeOutcomes)
  <2>1. Ask("resume", YouTube!ResumeOutcomes) /\ handler.phase = "resume" /\ UNCHANGED checkpoint
    BY <1>11, YouTubeWords DEF Ask, At
  <2>2. Current = checkpoint.session /\ Current \in Objects
    BY <2>1, Basics DEF Checked
  <2>3. PICK a \in {"gone", "inserted", "more"} :
          /\ YouTube!ResumeOutcomes = Unchanged({a})
          /\ a = "gone" => remote[Current].forgotten
          /\ a = "inserted" => remote[Current].received = Size
          /\ a = "more" => remote[Current].received # Size
    <3>1. YouTube!ResumeOutcomes =
            Unchanged({IF remote[Current].forgotten THEN "gone"
                       ELSE IF remote[Current].received = Size THEN "inserted" ELSE "more"})
      BY <2>2, YouTubeWords DEF YouTube!ResumeOutcomes, YouTube!Session
    <3>2. CASE remote[Current].forgotten
      BY <3>1, <3>2
    <3>3. CASE ~remote[Current].forgotten /\ remote[Current].received = Size
      BY <3>1, <3>3
    <3>4. CASE ~remote[Current].forgotten /\ remote[Current].received # Size
      BY <3>1, <3>4
    <3> QED BY <3>2, <3>3, <3>4
  <2>4. a = "more" => remote[Current].received < Size
    BY <2>2, <2>3, Basics
  <2>5. UNCHANGED <<remote, checkpoint>> /\ At("resume", a)' => AnswerInv'
    <3>1. UNCHANGED checkpoint => Current' = Current
      BY DEF Current, Of
    <3> QED BY <2>3, <2>4, <3>1 DEF At, AnswerInv
  <2> QED BY <2>1, <2>3, <2>5, OnlyAnswered DEF Phases, Answers
<1>12. CASE YouTube!Ask("upload", YouTube!ChunkOutcomes)
  <2>1. Ask("upload", YouTube!ChunkOutcomes) /\ handler.phase = "upload" /\ UNCHANGED checkpoint
    BY <1>12, YouTubeWords DEF Ask, At
  <2>2. Current = checkpoint.session /\ Current \in Objects /\ checkpoint.uploaded < Size
    BY <2>1, Basics DEF Checked
  <2>3. ASSUME NEW o \in YouTube!ChunkOutcomes
        PROVE  /\ o.answer = IF checkpoint.uploaded + 1 = Size THEN "inserted" ELSE "more"
               /\ o.remote = Received(Current, checkpoint.uploaded + 1)
               /\ checkpoint.uploaded + 1 \in remote[Current].received..Size
               /\ ~remote[Current].forgotten
    <3>1. ~(remote[Current].forgotten \/ remote[Current].received # checkpoint.uploaded)
      BY <2>2, <2>3 DEF YouTube!ChunkOutcomes, YouTube!Session
    <3>2. o = [answer |-> IF checkpoint.uploaded + 1 = Size THEN "inserted" ELSE "more",
               remote |-> Received(Current, checkpoint.uploaded + 1)]
      BY <2>2, <2>3, <3>1, YouTubeWords DEF YouTube!ChunkOutcomes, YouTube!Session
    <3>3. checkpoint.uploaded \in Nat /\ Size \in Nat
      BY Basics
    <3> QED BY <2>2, <3>1, <3>2, <3>3
  <2>4. ASSUME NEW o \in YouTube!ChunkOutcomes, remote' = o.remote
        PROVE  RemoteStep /\ (At("upload", o.answer)' => AnswerInv')
    <3>1. RemoteStep /\ Current' = Current /\ remote'[Current].received = checkpoint.uploaded + 1
      BY <2>1, <2>2, <2>3, <2>4, ChunkTaken, Basics
    <3>2. checkpoint.uploaded + 1 # Size => checkpoint.uploaded + 1 < Size
      BY <2>2, Basics
    <3>3. At("upload", o.answer)' => AnswerInv'
      BY <2>1, <2>3, <3>1, <3>2 DEF At, AnswerInv
    <3> QED BY <3>1, <3>3
  <2> QED BY <2>1, <2>3, <2>4, RequestSent DEF Phases, Answers
<1>13. CASE YouTube!Ask("poll", YouTube!PollOutcomes)
  BY <1>13, YouTubeWords, StatusAsked DEF YouTube!PollOutcomes
<1>14. ASSUME NEW p \in {"authorize", "create", "resume", "upload", "poll"}, YouTube!CallFailed(p)
       PROVE  PublishInv' /\ Promised
  BY <1>14, YouTubeWords, CallFails DEF Phases
<1> QED BY <1>1, <1>2, <1>3, <1>4, <1>5, <1>6, <1>7, <1>8, <1>9, <1>10, <1>11, <1>12,
           <1>13, <1>14 DEF YouTube!HandlerStep, YouTube!Call

\* instagram and facebook start alike.
LEMMA MetaStarts ==
  ASSUME PublishInv, platform \in {"instagram", "facebook"}, UNCHANGED platform,
         At("start", "none"),
         UNCHANGED <<uploadUrl, remote, crashes>>,
         \/ Throw(FALSE) /\ UNCHANGED <<checkpoint, account>>
         \/ /\ account = "connected"
            /\ Throw(FALSE)
            /\ account' = "reauthorization_required"
            /\ UNCHANGED checkpoint
         \/ /\ account = "connected"
            /\ IF checkpoint.status = "uploading" /\ checkpoint.remote = NoObject
               THEN checkpoint' = [checkpoint EXCEPT !.status = "validating"]
               ELSE UNCHANGED checkpoint
            /\ GoTo(IF checkpoint.remote = NoObject THEN "create" ELSE "transfer")
            /\ UNCHANGED account
  PROVE  PublishInv' /\ Promised
<1>1. handler.phase = "start" /\ OthersTyped
  <2>1. account' \in {account, "connected", "reauthorization_required", "unavailable"}
    OBVIOUS
  <2> QED BY <2>1, OthersKept DEF At
<1>2. CASE Throw(FALSE) /\ UNCHANGED checkpoint
  BY <1>1, <1>2, Basics, HandlerSettles
<1>3. CASE /\ IF checkpoint.status = "uploading" /\ checkpoint.remote = NoObject
              THEN checkpoint' = [checkpoint EXCEPT !.status = "validating"]
              ELSE UNCHANGED checkpoint
           /\ GoTo(IF checkpoint.remote = NoObject THEN "create" ELSE "transfer")
  <2>1. RowTrue(checkpoint') /\ checkpoint'.remote = checkpoint.remote /\ Of(checkpoint') = Current
    <3>1. CASE checkpoint' = [checkpoint EXCEPT !.status = "validating"]
      <4>1. /\ checkpoint' \in Rows /\ checkpoint'.status = "validating"
            /\ checkpoint'.remote = checkpoint.remote /\ checkpoint'.session = checkpoint.session
            /\ checkpoint'.uploaded = checkpoint.uploaded
        BY <3>1, Basics DEF Rows, Statuses
      <4> QED BY <4>1, Basics, RowUpdated
    <3>2. CASE UNCHANGED checkpoint
      BY <3>2, Basics DEF Current
    <3> QED BY <1>3, <3>1, <3>2
  <2>2. \/ GoTo("create") /\ Checked("create", checkpoint')
        \/ GoTo("transfer") /\ Checked("transfer", checkpoint')
    <3>1. CASE checkpoint.remote = NoObject
      BY <1>3, <2>1, <3>1, Basics DEF Checked
    <3>2. CASE checkpoint.remote # NoObject
      <4>1. Checked("transfer", checkpoint')
        BY <2>1, <3>2, Basics DEF Checked
      <4> QED BY <1>3, <3>2, <4>1
    <3> QED BY <3>1, <3>2
  <2> QED BY <1>1, <2>1, <2>2, HandlerGoesOn DEF Phases
<1> QED BY <1>2, <1>3

\* The handler of instagram.
LEMMA InstagramHandles ==
  ASSUME PublishInv, platform = "instagram", UNCHANGED platform, Instagram!HandlerStep
  PROVE  PublishInv' /\ Promised
<1>1. CASE Instagram!Start
  <2>1. At("start", "none") /\ UNCHANGED <<uploadUrl, remote, crashes>>
    BY <1>1, InstagramWords DEF Instagram!Start
  <2>2. \/ Throw(FALSE) /\ UNCHANGED <<checkpoint, account>>
        \/ /\ account = "connected"
           /\ Throw(FALSE)
           /\ account' = "reauthorization_required"
           /\ UNCHANGED checkpoint
        \/ /\ account = "connected"
           /\ IF checkpoint.status = "uploading" /\ checkpoint.remote = NoObject
              THEN checkpoint' = [checkpoint EXCEPT !.status = "validating"]
              ELSE UNCHANGED checkpoint
           /\ GoTo(IF checkpoint.remote = NoObject THEN "create" ELSE "transfer")
           /\ UNCHANGED account
    BY <1>1, InstagramWords DEF Instagram!Start
  <2> QED BY <2>1, <2>2, MetaStarts
<1>2. CASE Instagram!ContainerCreated
  BY <1>2, InstagramWords, ObjectCheckpointed DEF Instagram!ContainerCreated
<1>3. CASE Instagram!StoreUrl("transfer")
  BY <1>3, InstagramWords, UrlStored
<1>4. CASE Instagram!RefusesToReplay
  <2>1. /\ At("transfer", "none") /\ UNCHANGED <<checkpoint, uploadUrl, account, remote, crashes>>
        /\ Throw(FALSE)
    BY <1>4, InstagramWords DEF Instagram!RefusesToReplay
  <2>2. handler.phase = "transfer" /\ OthersTyped
    BY <2>1, OthersKept DEF At
  <2> QED BY <2>1, <2>2, Basics, HandlerSettles
<1>5. CASE Instagram!Transfer
  <2>1. /\ At("transfer", "none") /\ UNCHANGED <<checkpoint, uploadUrl, account, remote, crashes>>
        /\ \/ GoTo("poll")
           \/ GoTo("upload") /\ checkpoint.uploaded < Size
           \/ Throw(FALSE)
    BY <1>5, InstagramWords DEF Instagram!Transfer
  <2>2. handler.phase = "transfer" /\ OthersTyped
    BY <2>1, OthersKept DEF At
  <2>3. Checked("poll", checkpoint') /\ (checkpoint.uploaded < Size => Checked("upload", checkpoint'))
    BY <2>1, <2>2, Basics DEF Checked, Current
  <2> QED BY <2>1, <2>2, <2>3, Basics, HandlerSettles, HandlerGoesOn DEF Phases
<1>6. CASE Instagram!Uploaded
  <2>1. /\ At("upload", "ok") /\ UNCHANGED <<uploadUrl, account, remote, crashes>>
        /\ checkpoint' = [checkpoint EXCEPT !.status = "processing", !.uploaded = Size]
        /\ GoTo("forgetUrl")
    BY <1>6, InstagramWords DEF Instagram!Uploaded
  <2>2. handler.phase = "upload" /\ OthersTyped
    BY <2>1, OthersKept DEF At
  <2>3. remote[Current].received = Size /\ Current # NoObject
    BY <2>1, <2>2, Basics DEF PublishInv, AnswerInv, Checked, Current
  <2>4. /\ checkpoint' \in Rows /\ checkpoint'.uploaded = Size
        /\ checkpoint'.remote = checkpoint.remote /\ checkpoint'.session = checkpoint.session
        /\ checkpoint'.status = "processing"
    BY <2>1, <2>3, Basics DEF Rows, Statuses
  <2>5. RowTrue(checkpoint')
    BY <2>3, <2>4, Basics, RowUpdated
  <2>6. Checked("forgetUrl", checkpoint')
    BY <2>3, <2>4, Basics DEF Checked
  <2> QED BY <2>1, <2>2, <2>5, <2>6, HandlerGoesOn DEF Phases
<1>7. CASE Instagram!UploadFailed
  <2>1. /\ handler.phase = "upload" /\ UNCHANGED <<uploadUrl, account, remote, crashes>>
        /\ \/ checkpoint' = [checkpoint EXCEPT !.status = "upload_retryable"] /\ Throw(TRUE)
           \/ UNCHANGED checkpoint /\ Throw(FALSE)
    BY <1>7, InstagramWords DEF Instagram!UploadFailed
  <2>2. OthersTyped
    BY <2>1, OthersKept
  <2>3. RowTrue(checkpoint')
    <3>1. CASE checkpoint' = [checkpoint EXCEPT !.status = "upload_retryable"]
      <4>1. /\ checkpoint' \in Rows /\ checkpoint'.status = "upload_retryable"
            /\ checkpoint'.remote = checkpoint.remote /\ checkpoint'.session = checkpoint.session
            /\ checkpoint'.uploaded = checkpoint.uploaded
        BY <3>1, Basics DEF Rows, Statuses
      <4> QED BY <4>1, Basics, RowUpdated
    <3> QED BY <2>1, <3>1, Basics
  <2> QED BY <2>1, <2>2, <2>3, HandlerSettles
<1>8. CASE Instagram!ForgetUrl
  BY <1>8, InstagramWords, UrlDeleted DEF Instagram!ForgetUrl, Instagram!UrlForgotten
<1>9. CASE Instagram!Finished
  <2>1. /\ At("poll", "finished") /\ UNCHANGED <<uploadUrl, account, remote, crashes>>
        /\ \/ Throw(FALSE) /\ UNCHANGED checkpoint
           \/ checkpoint.status = "published" /\ Return /\ UNCHANGED checkpoint
           \/ checkpoint' = [checkpoint EXCEPT !.status = "publishing"] /\ GoTo("publish")
    BY <1>9, InstagramWords DEF Instagram!Finished
  <2>2. handler.phase = "poll" /\ OthersTyped
    BY <2>1, OthersKept DEF At
  <2>3. CASE UNCHANGED checkpoint /\ (Throw(FALSE) \/ (checkpoint.status = "published" /\ Return))
    BY <2>1, <2>2, <2>3, Basics, HandlerSettles
  <2>4. CASE checkpoint' = [checkpoint EXCEPT !.status = "publishing"] /\ GoTo("publish")
    <3>1. /\ checkpoint' \in Rows /\ checkpoint'.status = "publishing"
          /\ checkpoint'.remote = checkpoint.remote /\ checkpoint'.session = checkpoint.session
          /\ checkpoint'.uploaded = checkpoint.uploaded
      BY <2>4, Basics DEF Rows, Statuses
    <3>2. RowTrue(checkpoint')
      BY <3>1, Basics, RowUpdated
    <3>3. Checked("publish", checkpoint')
      BY <2>2, <3>1, Basics DEF Checked
    <3> QED BY <2>1, <2>2, <2>4, <3>2, <3>3, HandlerGoesOn DEF Phases
  <2> QED BY <2>1, <2>3, <2>4
<1>10. CASE Instagram!Polled
  <2>1. /\ handler.phase = "poll" /\ UNCHANGED <<uploadUrl, account, remote, crashes>>
        /\ \/ Throw(TRUE) /\ UNCHANGED checkpoint
           \/ /\ handler.answer \in {"published", "failed"}
              /\ checkpoint' = [checkpoint EXCEPT !.status = handler.answer]
              /\ Throw(FALSE) \/ (Return /\ handler.answer = "published")
    <3>1. CASE handler.answer \in {"processing", "unknown"}
      BY <1>10, <3>1, InstagramWords DEF Instagram!Polled
    <3>2. CASE handler.answer = "published"
      BY <1>10, <3>2, InstagramWords DEF Instagram!Polled
    <3>3. CASE handler.answer = "failed"
      BY <1>10, <3>3, InstagramWords DEF Instagram!Polled
    <3> QED BY <1>10, <3>1, <3>2, <3>3 DEF Instagram!Polled
  <2>2. OthersTyped
    BY <2>1, OthersKept
  <2>3. handler.answer = "published" => checkpoint.remote \in Posted
    BY <2>1, Basics DEF PublishInv, AnswerInv, At
  <2>4. CASE Throw(TRUE) /\ UNCHANGED checkpoint
    BY <2>1, <2>2, <2>4, Basics, HandlerSettles
  <2>5. CASE /\ handler.answer \in {"published", "failed"}
             /\ checkpoint' = [checkpoint EXCEPT !.status = handler.answer]
             /\ Throw(FALSE) \/ (Return /\ handler.answer = "published")
    <3>1. handler.answer \in Statuses
      BY <2>5 DEF Statuses
    <3> QED BY <2>1, <2>3, <2>5, <3>1, StatusPolled
  <2> QED BY <2>1, <2>4, <2>5
<1>11. CASE Instagram!Published
  <2>1. /\ At("publish", "ok") /\ UNCHANGED <<uploadUrl, account, remote, crashes>>
        /\ checkpoint' = [checkpoint EXCEPT !.status = "published"] /\ Return
    BY <1>11, InstagramWords DEF Instagram!Published
  <2>2. handler.phase = "publish" /\ OthersTyped
    BY <2>1, OthersKept DEF At
  <2>3. checkpoint.remote \in Posted
    BY <2>1 DEF PublishInv, AnswerInv
  <2>4. /\ checkpoint' \in Rows /\ checkpoint'.status = "published"
        /\ checkpoint'.remote = checkpoint.remote /\ checkpoint'.session = checkpoint.session
        /\ checkpoint'.uploaded = checkpoint.uploaded
    BY <2>1, Basics DEF Rows, Statuses
  <2>5. RowTrue(checkpoint')
    BY <2>3, <2>4, Basics, RowUpdated
  <2> QED BY <2>1, <2>2, <2>3, <2>5, HandlerSettles
<1>12. CASE Instagram!PublishFailed
  <2>1. /\ handler.phase = "publish" /\ (Throw(TRUE) \/ Throw(FALSE))
        /\ UNCHANGED <<checkpoint, uploadUrl, account, remote, crashes>>
    <3>1. Throw(handler.answer \in {"unavailable", "invalid"})
      BY <1>12, InstagramWords DEF Instagram!PublishFailed
    <3>2. Throw(TRUE) \/ Throw(FALSE)
      BY <3>1 DEF Throw, Settled
    <3> QED BY <1>12, <3>2 DEF Instagram!PublishFailed
  <2>2. OthersTyped
    BY <2>1, OthersKept
  <2> QED BY <2>1, <2>2, Basics, HandlerSettles
<1>13. CASE Instagram!AccessRefused
  <2>1. /\ handler.phase \in {"create", "poll", "publish"} /\ Throw(FALSE)
        /\ account' \in {"reauthorization_required", "unavailable"}
        /\ UNCHANGED <<checkpoint, uploadUrl, remote, crashes>>
    BY <1>13, InstagramWords DEF Instagram!AccessRefused
  <2>2. OthersTyped
    BY <2>1, OthersKept
  <2> QED BY <2>1, <2>2, Basics, HandlerSettles
<1>14. CASE Instagram!Ask("create", Instagram!Creation)
  BY <1>14, InstagramWords, CreationAsked
<1>15. CASE Instagram!Ask("upload", Instagram!UploadOutcomes)
  <2>1. Ask("upload", Instagram!UploadOutcomes) /\ handler.phase = "upload" /\ UNCHANGED checkpoint
    BY <1>15, InstagramWords DEF Ask, At
  <2>2. /\ Current = checkpoint.remote /\ Current \in Objects
        /\ ~remote[Current].forgotten
    BY <2>1, Basics DEF Checked, Current, PublishInv, ObjectsInv
  <2>3. ASSUME NEW o \in Instagram!UploadOutcomes
        PROVE  \E n \in remote[Current].received..Size :
                 /\ o.answer = IF n = Size THEN "ok" ELSE "lost"
                 /\ o.remote = Received(Current, n)
    <3>1. remote[Current].received # Size
      BY <2>2, <2>3 DEF Instagram!UploadOutcomes, Instagram!Container
    <3>2. PICK n \in {Size} \cup {remote[Current].received + 1} :
            o = [answer |-> IF n = Size THEN "ok" ELSE "lost", remote |-> Received(Current, n)]
      BY <2>2, <2>3, <3>1, InstagramWords DEF Instagram!UploadOutcomes, Instagram!Container
    <3>3. n \in remote[Current].received..Size
      BY <2>2, <3>1, Basics
    <3> QED BY <3>2, <3>3
  <2>4. ASSUME NEW o \in Instagram!UploadOutcomes, remote' = o.remote
        PROVE  RemoteStep /\ (At("upload", o.answer)' => AnswerInv')
    <3>1. PICK n \in remote[Current].received..Size :
                 /\ o.answer = IF n = Size THEN "ok" ELSE "lost"
                 /\ o.remote = Received(Current, n)
      BY <2>3
    <3>2. RemoteStep /\ Current' = Current /\ remote'[Current].received = n
      BY <2>1, <2>2, <2>4, <3>1, ChunkTaken, Basics
    <3>3. At("upload", o.answer)' => AnswerInv'
      BY <2>1, <3>1, <3>2 DEF At, AnswerInv
    <3> QED BY <3>2, <3>3
  <2> QED BY <2>1, <2>3, <2>4, RequestSent DEF Phases, Answers
<1>16. CASE Instagram!Ask("poll", Instagram!PollOutcomes)
  <2> DEFINE answers == {"published", "finished", "unknown", "failed", "processing"}
  <2>1. PICK S \in SUBSET answers :
          /\ Ask("poll", Unchanged(S)) /\ handler.phase = "poll"
          /\ "published" \in S => \/ checkpoint.status = "published"
                                  \/ remote[checkpoint.remote].state = "posted"
    <3>1. CASE checkpoint.status = "published"
      <4>1. Ask("poll", Unchanged({"published", "finished", "unknown"}))
        BY <1>16, <3>1, InstagramWords DEF Instagram!PollOutcomes
      <4> QED BY <3>1, <4>1 DEF Ask, At
    <3>2. CASE checkpoint.status # "published"
      <4>1. PICK a \in answers :
              /\ a = "published" => remote[checkpoint.remote].state = "posted"
              /\ Instagram!PollOutcomes = Instagram!Unchanged({a})
        <5>1. CASE remote[checkpoint.remote].state = "posted"
          BY <3>2, <5>1 DEF Instagram!PollOutcomes, Instagram!Container
        <5>2. CASE remote[checkpoint.remote].state = "failed"
          BY <3>2, <5>2 DEF Instagram!PollOutcomes, Instagram!Container
        <5>3. CASE remote[checkpoint.remote].state = "ready"
          BY <3>2, <5>3 DEF Instagram!PollOutcomes, Instagram!Container
        <5>4. CASE remote[checkpoint.remote].state \notin {"posted", "failed", "ready"}
          BY <3>2, <5>4 DEF Instagram!PollOutcomes, Instagram!Container
        <5> QED BY <5>1, <5>2, <5>3, <5>4
      <4>2. Ask("poll", Unchanged({a})) /\ {a} \in SUBSET answers
        BY <1>16, <4>1, InstagramWords
      <4>3. handler.phase = "poll"
        BY <4>2 DEF Ask, At
      <4> HIDE DEF answers
      <4> QED BY <4>1, <4>2, <4>3
    <3> QED BY <3>1, <3>2
  <2>2. "published" \in S => checkpoint.remote \in Posted
    BY <2>1, Basics DEF Posted, Checked
  <2>3. \A a \in S : UNCHANGED <<remote, checkpoint>> /\ At("poll", a)' => AnswerInv'
    BY <2>1, <2>2 DEF At, AnswerInv, Posted
  <2> QED BY <2>1, <2>3, OnlyAnswered DEF Phases, Answers
<1>17. CASE Instagram!Ask("publish", Instagram!PublishOutcomes)
  <2>1. /\ Ask("publish", Instagram!PublishOutcomes) /\ handler.phase = "publish"
        /\ UNCHANGED checkpoint
    BY <1>17, InstagramWords DEF Ask, At
  <2>2. checkpoint.remote \in Objects
    BY <2>1, Basics DEF Checked
  <2>3. ASSUME NEW o \in Instagram!PublishOutcomes
        PROVE  /\ o.answer = "ok" /\ remote[checkpoint.remote].state = "ready"
               /\ o.remote = [remote EXCEPT ![checkpoint.remote].state = "posted"]
    BY <2>3 DEF Instagram!PublishOutcomes, Instagram!Container
  <2>4. ASSUME NEW o \in Instagram!PublishOutcomes, remote' = o.remote
        PROVE  RemoteStep /\ (At("publish", o.answer)' => AnswerInv')
    <3>1. RemoteStep
      BY <2>2, <2>3, <2>4 DEF RemoteStep, Touched
    <3>2. checkpoint'.remote \in Posted'
      <4>1. Objects = DOMAIN remote /\ DOMAIN remote[checkpoint.remote] =
                                        {"state", "received", "forgotten"}
        BY <2>2, Basics
      <4>2. remote' = [remote EXCEPT ![checkpoint.remote].state = "posted"]
        BY <2>3, <2>4
      <4>3. remote'[checkpoint.remote].state = "posted"
        BY <2>2, <4>1, <4>2
      <4> QED BY <2>1, <2>2, <4>3 DEF Posted
    <3>3. At("publish", o.answer)' => AnswerInv'
      BY <2>3, <3>2 DEF At, AnswerInv
    <3> QED BY <3>1, <3>3
  <2> QED BY <2>1, <2>3, <2>4, RequestSent DEF Phases, Answers
<1>18. CASE Instagram!CallFailed("create") \/ Instagram!CallFailed("poll")
  BY <1>18, InstagramWords, CallFails DEF Phases
<1> QED BY <1>1, <1>2, <1>3, <1>4, <1>5, <1>6, <1>7, <1>8, <1>9, <1>10, <1>11, <1>12, <1>13,
           <1>14, <1>15, <1>16, <1>17, <1>18 DEF Instagram!HandlerStep, Instagram!Call

\* The handler of facebook.
LEMMA FacebookHandles ==
  ASSUME PublishInv, platform = "facebook", UNCHANGED platform, Facebook!HandlerStep
  PROVE  PublishInv' /\ Promised
<1>1. CASE Facebook!Start
  <2>1. At("start", "none") /\ UNCHANGED <<uploadUrl, remote, crashes>>
    BY <1>1, FacebookWords DEF Facebook!Start
  <2>2. \/ Throw(FALSE) /\ UNCHANGED <<checkpoint, account>>
        \/ /\ account = "connected"
           /\ Throw(FALSE)
           /\ account' = "reauthorization_required"
           /\ UNCHANGED checkpoint
        \/ /\ account = "connected"
           /\ IF checkpoint.status = "uploading" /\ checkpoint.remote = NoObject
              THEN checkpoint' = [checkpoint EXCEPT !.status = "validating"]
              ELSE UNCHANGED checkpoint
           /\ GoTo(IF checkpoint.remote = NoObject THEN "create" ELSE "transfer")
           /\ UNCHANGED account
    BY <1>1, FacebookWords DEF Facebook!Start
  <2> QED BY <2>1, <2>2, MetaStarts
<1>2. CASE Facebook!SessionStarted
  BY <1>2, FacebookWords, ObjectCheckpointed DEF Facebook!SessionStarted
<1>3. CASE Facebook!StoreUrl("transfer")
  BY <1>3, FacebookWords, UrlStored
<1>4. CASE Facebook!Transfer
  <2>1. At("transfer", "none") /\ UNCHANGED <<checkpoint, uploadUrl, account, remote, crashes>>
    BY <1>4, FacebookWords DEF Facebook!Transfer
  <2>2. \/ Return /\ checkpoint.status = "published"
        \/ (GoTo("resume") \/ GoTo("upload")) /\ checkpoint.uploaded < Size
        \/ GoTo("publish")
    <3>1. CASE checkpoint.status = "published"
      BY <1>4, <3>1, FacebookWords DEF Facebook!Transfer
    <3>2. CASE checkpoint.status # "published" /\ checkpoint.uploaded < Size
      BY <1>4, <3>2, FacebookWords DEF Facebook!Transfer
    <3>3. CASE checkpoint.status # "published" /\ ~(checkpoint.uploaded < Size)
      BY <1>4, <3>3, FacebookWords DEF Facebook!Transfer
    <3> QED BY <3>1, <3>2, <3>3
  <2>3. handler.phase = "transfer" /\ OthersTyped
    BY <2>1, OthersKept DEF At
  <2>4. /\ Checked("resume", checkpoint') /\ Checked("publish", checkpoint')
        /\ checkpoint.uploaded < Size => Checked("upload", checkpoint')
    BY <2>1, <2>3, Basics DEF Checked, Current
  <2> QED BY <2>1, <2>2, <2>3, <2>4, Basics, HandlerSettles, HandlerGoesOn DEF Phases
<1>5. CASE Facebook!OffsetRecovered
  <2>1. /\ At("resume", "more") /\ UNCHANGED <<uploadUrl, account, remote, crashes>>
        /\ checkpoint' = [checkpoint EXCEPT !.status = "uploading",
                                            !.uploaded = remote[checkpoint.remote].received]
        /\ GoTo(IF remote[checkpoint.remote].received < Size THEN "upload" ELSE "publish")
    BY <1>5, FacebookWords DEF Facebook!OffsetRecovered
  <2>2. handler.phase = "resume" /\ OthersTyped
    BY <2>1, OthersKept DEF At
  <2>3. /\ Current = checkpoint.remote /\ Current \in Objects
        /\ remote[Current].received \in 0..Size
    BY <2>2, Basics DEF Checked, Current
  <2>4. /\ checkpoint' \in Rows /\ checkpoint'.uploaded = remote[Current].received
        /\ checkpoint'.remote = checkpoint.remote /\ checkpoint'.session = checkpoint.session
        /\ checkpoint'.status = "uploading"
    BY <2>1, <2>3, Basics DEF Rows, Statuses
  <2>5. RowTrue(checkpoint') /\ Of(checkpoint') = Current
    BY <2>3, <2>4, Basics, RowUpdated
  <2>6. \/ GoTo("upload") /\ Checked("upload", checkpoint')
        \/ GoTo("publish") /\ Checked("publish", checkpoint')
    <3>1. CASE remote[checkpoint.remote].received < Size
      <4>1. Checked("upload", checkpoint')
        BY <2>3, <2>4, <2>5, <3>1, Basics DEF Checked
      <4> QED BY <2>1, <3>1, <4>1
    <3>2. CASE ~(remote[checkpoint.remote].received < Size)
      <4>1. Checked("publish", checkpoint')
        BY <2>3, <2>4, Basics DEF Checked
      <4> QED BY <2>1, <3>2, <4>1
    <3> QED BY <3>1, <3>2
  <2> QED BY <2>1, <2>2, <2>5, <2>6, HandlerGoesOn DEF Phases
<1>6. CASE Facebook!UrlMissing
  <2>1. /\ At("upload", "none") /\ UNCHANGED <<checkpoint, uploadUrl, account, remote, crashes>>
        /\ Throw(FALSE)
    BY <1>6, FacebookWords DEF Facebook!UrlMissing
  <2>2. handler.phase = "upload" /\ OthersTyped
    BY <2>1, OthersKept DEF At
  <2> QED BY <2>1, <2>2, Basics, HandlerSettles
<1>7. CASE Facebook!Uploaded
  <2>1. /\ At("upload", "ok") /\ UNCHANGED <<uploadUrl, account, remote, crashes>>
        /\ checkpoint' = [checkpoint EXCEPT !.status = "uploaded", !.uploaded = Size]
        /\ GoTo("publish")
    BY <1>7, FacebookWords DEF Facebook!Uploaded
  <2>2. handler.phase = "upload" /\ OthersTyped
    BY <2>1, OthersKept DEF At
  <2>3. remote[Current].received = Size /\ Current # NoObject
    BY <2>1, <2>2, Basics DEF PublishInv, AnswerInv, Checked, Current
  <2>4. /\ checkpoint' \in Rows /\ checkpoint'.uploaded = Size
        /\ checkpoint'.remote = checkpoint.remote /\ checkpoint'.session = checkpoint.session
        /\ checkpoint'.status = "uploaded"
    BY <2>1, <2>3, Basics DEF Rows, Statuses
  <2>5. RowTrue(checkpoint')
    BY <2>3, <2>4, Basics, RowUpdated
  <2>6. Checked("publish", checkpoint')
    BY <2>3, <2>4, Basics DEF Checked
  <2> QED BY <2>1, <2>2, <2>5, <2>6, HandlerGoesOn DEF Phases
<1>8. CASE Facebook!BeginFinish
  <2>1. /\ At("publish", "none") /\ UNCHANGED <<job, uploadUrl, account, remote, crashes>>
        /\ checkpoint' = [checkpoint EXCEPT !.status = "publishing"]
        /\ handler' = [phase |-> "publish", answer |-> "ready"]
    BY <1>8, FacebookWords DEF Facebook!BeginFinish
  <2>2. handler.phase = "publish" /\ OthersTyped
    BY <2>1, OthersKept DEF At
  <2>3. /\ checkpoint' \in Rows /\ checkpoint'.uploaded = checkpoint.uploaded
        /\ checkpoint'.remote = checkpoint.remote /\ checkpoint'.session = checkpoint.session
        /\ checkpoint'.status = "publishing"
    BY <2>1, Basics DEF Rows, Statuses
  <2>4. RowTrue(checkpoint')
    BY <2>3, Basics, RowUpdated
  <2>5. Checked("publish", checkpoint')
    BY <2>2, <2>3, Basics DEF Checked
  <2> QED BY <2>1, <2>2, <2>4, <2>5, HandlerGoesOn DEF Phases
<1>9. CASE Facebook!FinishKnown
  <2>1. /\ At("publish", "none") /\ UNCHANGED <<checkpoint, uploadUrl, account, remote, crashes>>
        /\ GoTo("poll")
    BY <1>9, FacebookWords DEF Facebook!FinishKnown
  <2>2. handler.phase = "publish" /\ OthersTyped
    BY <2>1, OthersKept DEF At
  <2>3. Checked("poll", checkpoint')
    BY <2>1, <2>2, Basics DEF Checked
  <2> QED BY <2>1, <2>2, <2>3, Basics, HandlerGoesOn DEF Phases
<1>10. CASE Facebook!Finished
  <2>1. /\ At("publish", "ok") /\ UNCHANGED <<uploadUrl, account, remote, crashes>>
        /\ checkpoint' = [checkpoint EXCEPT !.status = "verifying"]
        /\ GoTo("poll")
    BY <1>10, FacebookWords DEF Facebook!Finished
  <2>2. handler.phase = "publish" /\ OthersTyped
    BY <2>1, OthersKept DEF At
  <2>3. /\ checkpoint' \in Rows /\ checkpoint'.uploaded = checkpoint.uploaded
        /\ checkpoint'.remote = checkpoint.remote /\ checkpoint'.session = checkpoint.session
        /\ checkpoint'.status = "verifying"
    BY <2>1, Basics DEF Rows, Statuses
  <2>4. RowTrue(checkpoint')
    BY <2>3, Basics, RowUpdated
  <2>5. Checked("poll", checkpoint')
    BY <2>2, <2>3, Basics DEF Checked
  <2> QED BY <2>1, <2>2, <2>4, <2>5, HandlerGoesOn DEF Phases
<1>11. CASE Facebook!FinishFailed
  <2>1. /\ handler.phase = "publish" /\ (Throw(TRUE) \/ Throw(FALSE))
        /\ UNCHANGED <<checkpoint, uploadUrl, account, remote, crashes>>
    <3>1. Throw(handler.answer = "unavailable")
      BY <1>11, FacebookWords DEF Facebook!FinishFailed
    <3>2. Throw(TRUE) \/ Throw(FALSE)
      BY <3>1 DEF Throw, Settled
    <3> QED BY <1>11, <3>2 DEF Facebook!FinishFailed
  <2>2. OthersTyped
    BY <2>1, OthersKept
  <2> QED BY <2>1, <2>2, Basics, HandlerSettles
<1>12. CASE Facebook!Reconciled
  <2>1. /\ At("poll", "published") /\ UNCHANGED <<uploadUrl, account, remote, crashes>>
        /\ checkpoint' = [checkpoint EXCEPT !.status = "published"]
        /\ GoTo("forgetUrl")
    BY <1>12, FacebookWords DEF Facebook!Reconciled
  <2>2. handler.phase = "poll" /\ OthersTyped
    BY <2>1, OthersKept DEF At
  <2>3. checkpoint.remote \in Posted
    BY <2>1 DEF PublishInv, AnswerInv
  <2>4. /\ checkpoint' \in Rows /\ checkpoint'.uploaded = checkpoint.uploaded
        /\ checkpoint'.remote = checkpoint.remote /\ checkpoint'.session = checkpoint.session
        /\ checkpoint'.status = "published"
    BY <2>1, Basics DEF Rows, Statuses
  <2>5. RowTrue(checkpoint')
    BY <2>3, <2>4, Basics, RowUpdated
  <2>6. Checked("forgetUrl", checkpoint')
    BY <2>2, <2>4, Basics DEF Checked
  <2> QED BY <2>1, <2>2, <2>5, <2>6, HandlerGoesOn DEF Phases
<1>13. CASE Facebook!StillProcessing
  <2>1. /\ handler.phase = "poll" /\ UNCHANGED <<uploadUrl, account, remote, crashes>>
        /\ handler.answer \in {"uploading", "processing", "publishing", "ready", "failed"}
        /\ checkpoint' = [checkpoint EXCEPT !.status = handler.answer]
        /\ Throw(TRUE) \/ Throw(FALSE)
    BY <1>13, FacebookWords DEF Facebook!StillProcessing
  <2>2. handler.answer \in Statuses \ {"published"}
    BY <2>1 DEF Statuses
  <2> QED BY <2>1, <2>2, StatusPolled
<1>14. CASE Facebook!ForgetUrl
  <2>1. /\ At("forgetUrl", "none") /\ UNCHANGED <<checkpoint, account, remote, crashes>>
        /\ \/ uploadUrl' = "none" /\ Return
           \/ UNCHANGED uploadUrl /\ Throw(FALSE)
    BY <1>14, FacebookWords DEF Facebook!ForgetUrl, Facebook!UrlForgotten
  <2>2. handler.phase = "forgetUrl" /\ OthersTyped
    BY <2>1, OthersKept DEF At
  <2>3. checkpoint.status = "published"
    BY <2>2, Basics DEF Checked
  <2> QED BY <2>1, <2>2, <2>3, Basics, HandlerSettles
<1>15. CASE Facebook!AccessRefused
  <2>1. /\ handler.phase \in {"create", "resume", "upload", "publish", "poll"} /\ Throw(FALSE)
        /\ account' \in {"reauthorization_required", "unavailable"}
        /\ UNCHANGED <<checkpoint, uploadUrl, remote, crashes>>
    BY <1>15, FacebookWords DEF Facebook!AccessRefused
  <2>2. OthersTyped
    BY <2>1, OthersKept
  <2> QED BY <2>1, <2>2, Basics, HandlerSettles
<1>16. CASE Facebook!Ask("create", Facebook!Creation)
  BY <1>16, FacebookWords, CreationAsked
<1>17. CASE Facebook!Ask("resume", Facebook!Unchanged({"more"}))
  <2>1. At("resume", "more")' => AnswerInv'
    BY DEF At, AnswerInv
  <2> QED BY <1>17, <2>1, FacebookWords, OnlyAnswered DEF Phases, Answers
<1>18. CASE uploadUrl = "valid" /\ Facebook!Ask("upload", Facebook!UploadOutcomes)
  <2>1. Ask("upload", Facebook!UploadOutcomes) /\ handler.phase = "upload" /\ UNCHANGED checkpoint
    BY <1>18, FacebookWords DEF Ask, At
  <2>2. /\ Current = checkpoint.remote /\ Current \in Objects
        /\ ~remote[Current].forgotten /\ checkpoint.uploaded < Size
    BY <2>1, Basics DEF Checked, Current, PublishInv, ObjectsInv
  <2>3. ASSUME NEW o \in Facebook!UploadOutcomes
        PROVE  \E n \in remote[Current].received..Size :
                 /\ o.answer = IF n = Size THEN "ok" ELSE "lost"
                 /\ o.remote = Received(Current, n)
    <3>1. remote[Current].received = checkpoint.uploaded
      BY <2>2, <2>3 DEF Facebook!UploadOutcomes, Facebook!Video
    <3>2. PICK n \in {Size} \cup {remote[Current].received + 1} :
            o = [answer |-> IF n = Size THEN "ok" ELSE "lost", remote |-> Received(Current, n)]
      BY <1>18, <2>2, <2>3, <3>1, FacebookWords DEF Facebook!UploadOutcomes, Facebook!Video
    <3>3. n \in remote[Current].received..Size
      BY <2>2, <3>1, Basics
    <3> QED BY <3>2, <3>3
  <2>4. ASSUME NEW o \in Facebook!UploadOutcomes, remote' = o.remote
        PROVE  RemoteStep /\ (At("upload", o.answer)' => AnswerInv')
    <3>1. PICK n \in remote[Current].received..Size :
                 /\ o.answer = IF n = Size THEN "ok" ELSE "lost"
                 /\ o.remote = Received(Current, n)
      BY <2>3
    <3>2. RemoteStep /\ Current' = Current /\ remote'[Current].received = n
      BY <2>1, <2>2, <2>4, <3>1, ChunkTaken, Basics
    <3>3. At("upload", o.answer)' => AnswerInv'
      BY <2>1, <3>1, <3>2 DEF At, AnswerInv
    <3> QED BY <3>2, <3>3
  <2> QED BY <2>1, <2>3, <2>4, RequestSent DEF Phases, Answers
<1>19. CASE Facebook!Ask("poll", Facebook!PollOutcomes)
  <2> DEFINE answers == {"published", "failed", "processing", "publishing", "ready", "uploading"}
  <2>1. PICK S \in SUBSET answers :
          /\ Facebook!PollOutcomes = Facebook!Unchanged(S)
          /\ "published" \in S => remote[checkpoint.remote].state = "posted"
    <3>1. CASE remote[checkpoint.remote].state = "posted"
      BY <3>1 DEF Facebook!PollOutcomes, Facebook!Video
    <3>2. CASE remote[checkpoint.remote].state = "failed"
      BY <3>2 DEF Facebook!PollOutcomes, Facebook!Video
    <3>3. CASE remote[checkpoint.remote].state = "publishing"
      BY <3>3 DEF Facebook!PollOutcomes, Facebook!Video
    <3>4. CASE remote[checkpoint.remote].state = "uploaded"
      BY <3>4 DEF Facebook!PollOutcomes, Facebook!Video
    <3>5. CASE remote[checkpoint.remote].state \notin {"posted", "failed", "publishing", "uploaded"}
      BY <3>5 DEF Facebook!PollOutcomes, Facebook!Video
    <3> QED BY <3>1, <3>2, <3>3, <3>4, <3>5
  <2>2. Ask("poll", Unchanged(S))
    BY <1>19, <2>1, FacebookWords
  <2>3. handler.phase = "poll"
    BY <2>2 DEF Ask, At
  <2>4. "published" \in S => checkpoint.remote \in Posted
    BY <2>1, <2>3, Basics DEF Posted, Checked
  <2>5. \A a \in S : UNCHANGED <<remote, checkpoint>> /\ At("poll", a)' => AnswerInv'
    BY <2>1, <2>4 DEF At, AnswerInv, Posted
  <2> QED BY <2>1, <2>2, <2>5, OnlyAnswered DEF Phases, Answers
<1>20. CASE Facebook!AskFinish
  <2>1. /\ At("publish", "ready") /\ UNCHANGED <<job, checkpoint, uploadUrl, account, crashes>>
        /\ \/ UNCHANGED remote
           \/ /\ remote[checkpoint.remote].state = "uploaded"
              /\ remote' = [remote EXCEPT ![checkpoint.remote].state = "publishing"]
    BY <1>20, FacebookWords DEF Facebook!AskFinish, Facebook!FinishOutcomes, Facebook!Video
  <2>2. PICK a \in {"ok", "lost", "unavailable", "rejected"} : handler' = [handler EXCEPT !.answer = a]
    BY <1>20 DEF Facebook!AskFinish, Facebook!FinishOutcomes
  <2>3. handler.phase = "publish" /\ checkpoint.remote \in Objects
    BY <2>1, Basics DEF At, Checked
  <2>4. RemoteStep
    BY <2>1, <2>3 DEF RemoteStep, Touched
  <2>5. AnswerInv'
    BY <2>1, <2>2, <2>3, Basics DEF AnswerInv, At
  <2> QED BY <2>1, <2>2, <2>3, <2>4, <2>5, HandlerAsks DEF Answers
<1>21. ASSUME NEW p \in {"create", "resume", "upload", "poll"}, Facebook!CallFailed(p)
       PROVE  PublishInv' /\ Promised
  BY <1>21, FacebookWords, CallFails DEF Phases
<1> QED BY <1>1, <1>2, <1>3, <1>4, <1>5, <1>6, <1>7, <1>8, <1>9, <1>10, <1>11, <1>12, <1>13,
           <1>14, <1>15, <1>16, <1>17, <1>18, <1>19, <1>20, <1>21
        DEF Facebook!HandlerStep, Facebook!Call

-----------------------------------------------------------------------------
(* The services between two steps of the handlers, and the job runner.     *)

\* What a service does on its own leaves every answer true that it has given.
LEMMA ServiceActs ==
  ASSUME PublishInv, RemoteStep, UNCHANGED Newest,
         UNCHANGED <<job, handler, checkpoint, uploadUrl, account, crashes, platform>>,
         \A r \in Objects : remote'[r].received = remote[r].received
  PROVE  PublishInv' /\ Promised
<1>1. TypeOK'
  BY ServiceKeeps DEF PublishInv, TypeOK, Touched
<1>2. JobInv' /\ PhaseInv'
  BY DEF PublishInv, JobInv, PhaseInv, Checked
<1>3. AnswerInv'
  <2>1. /\ Current' = Current
        /\ handler.phase \in {"resume", "upload"} => Current \in Objects
    BY Basics DEF Current, Checked
  <2>2. Current \in Objects => /\ remote'[Current].received = remote[Current].received
                               /\ remote[Current].forgotten => remote'[Current].forgotten
    <3>1. Current \in Objects => Exists(Current)
      BY Basics DEF RowTrue, Current
    <3> QED BY <3>1, ServiceKeeps DEF PublishInv, Grows
  <2>3. Posted \subseteq Posted'
    BY ServiceKeeps DEF PublishInv, Grows, Posted, Exists
  <2>4. At("create", "ok")' => Newest' >= 1
    BY DEF PublishInv, AnswerInv, At
  <2>5. /\ At("poll", "published")' => checkpoint'.remote \in Posted'
        /\ At("publish", "ok")' /\ platform' = "instagram" => checkpoint'.remote \in Posted'
    BY <2>3 DEF PublishInv, AnswerInv, At
  <2>6. At("resume", "gone")' => remote'[Current'].forgotten
    BY <2>1, <2>2 DEF PublishInv, AnswerInv, At
  <2>7. /\ At("upload", "ok")' => remote'[Current'].received = Size
        /\ At("upload", "more")' => /\ remote'[Current'].received = checkpoint'.uploaded + 1
                                    /\ remote'[Current'].received < Size
        /\ At("resume", "more")' /\ platform' = "youtube" => remote'[Current'].received < Size
        /\ handler'.phase \in {"resume", "upload"} /\ handler'.answer = "inserted"
             => remote'[Current'].received = Size
    <3>1. handler.phase \in {"resume", "upload"} => remote'[Current'].received = remote[Current].received
      BY <2>1, <2>2
    <3> QED BY <3>1 DEF PublishInv, AnswerInv, At
  <2> QED BY <2>4, <2>5, <2>6, <2>7 DEF AnswerInv
<1> QED BY <1>1, <1>2, <1>3, ServiceKeeps DEF PublishInv, Promised

\* The service moves an object on by itself.
LEMMA StateChanges ==
  ASSUME PublishInv, NEW r \in Objects, NEW s \in Touched,
         remote[r].state \in Touched \ {"posted"}, remote' = [remote EXCEPT ![r].state = s],
         UNCHANGED <<job, handler, checkpoint, uploadUrl, account, crashes, platform>>
  PROVE  PublishInv' /\ Promised
<1>1. RemoteStep
  BY DEF RemoteStep
<1>2. /\ remote'[r].state = s /\ remote'[r].received = remote[r].received
      /\ \A q \in Objects : q # r => remote'[q] = remote[q]
  BY Basics
<1>3. \A q \in Objects : Exists(q)' <=> Exists(q)
  BY <1>2 DEF Exists, Touched
<1> QED BY <1>1, <1>2, <1>3, NewestKept, ServiceActs

\* The type of the URL and of the account is all that matters of them.
LEMMA SameObjects ==
  ASSUME PublishInv, OthersTyped,
         UNCHANGED <<job, handler, checkpoint, remote, platform>>
  PROVE  PublishInv' /\ Promised
<1>1. CheckpointIsTrue' /\ RowInv' /\ ObjectsInv' /\ LeftInv'
  BY Basics, RowKept
<1>2. TypeOK'
  BY DEF PublishInv, TypeOK, OthersTyped
<1>3. JobInv' /\ PhaseInv' /\ JobStep
  BY DEF PublishInv, JobInv, PhaseInv, Checked, JobStep
<1>4. Newest' = Newest /\ Posted' = Posted /\ Current' = Current
  BY NewestKept DEF Exists, Posted, Current, Of
<1>5. AnswerInv'
  BY <1>4 DEF PublishInv, AnswerInv, At
<1> QED BY <1>1, <1>2, <1>3, <1>5 DEF PublishInv, Promised

\* What the services do by themselves.
LEMMA ServicesAct ==
  ASSUME PublishInv, ServiceStep
  PROVE  PublishInv' /\ Promised
<1>1. CASE TikTok!ServiceStep
  BY <1>1, StateChanges DEF ServiceStep, TikTok!ServiceStep, TikTok!Objects, Objects, Touched
<1>2. CASE YouTube!ServiceStep /\ platform = "youtube"
  <2>1. /\ UNCHANGED <<job, handler, checkpoint, uploadUrl, account, crashes, platform>>
        /\ \/ \E r \in Objects, s \in {"posted", "failed"} :
                remote[r].state = "uploaded" /\ remote' = [remote EXCEPT ![r].state = s]
           \/ \E r \in Objects :
                /\ Exists(r) /\ (remote[r].received < Size \/ ForgetsInserted)
                /\ remote' = [remote EXCEPT ![r].forgotten = TRUE]
    BY <1>2 DEF ServiceStep, YouTube!ServiceStep, YouTube!Objects, Objects, YouTube!Exists, Exists
  <2>2. CASE \E r \in Objects, s \in {"posted", "failed"} :
               remote[r].state = "uploaded" /\ remote' = [remote EXCEPT ![r].state = s]
    BY <2>1, <2>2, StateChanges DEF Touched
  <2>3. ASSUME NEW r \in Objects, Exists(r), remote[r].received < Size \/ ForgetsInserted,
               remote' = [remote EXCEPT ![r].forgotten = TRUE]
        PROVE  PublishInv' /\ Promised
    <3>1. RemoteStep
      BY <1>2, <2>3 DEF RemoteStep
    <3>2. \A q \in Objects : /\ remote'[q].received = remote[q].received
                             /\ remote'[q].state = remote[q].state
      BY <2>3, Basics
    <3>3. \A q \in Objects : Exists(q)' <=> Exists(q)
      BY <3>2 DEF Exists
    <3> QED BY <2>1, <3>1, <3>2, <3>3, NewestKept, ServiceActs
  <2> QED BY <2>1, <2>2, <2>3
<1>3. CASE Instagram!ServiceStep
  BY <1>3, StateChanges DEF ServiceStep, Instagram!ServiceStep, Instagram!Objects, Objects, Touched
<1>4. CASE Facebook!ServiceStep
  BY <1>4, StateChanges DEF ServiceStep, Facebook!ServiceStep, Facebook!Objects, Objects, Touched
<1>5. CASE UrlExpires \/ Reconnect
  <2>1. OthersTyped /\ UNCHANGED <<job, handler, checkpoint, remote, platform>>
    BY <1>5, OthersKept DEF ServiceStep, UrlExpires, Reconnect
  <2> QED BY <2>1, SameObjects
<1> QED BY <1>1, <1>2, <1>3, <1>4, <1>5 DEF ServiceStep

\* Claiming, cancelling, retrying and a crash change the job and the handler
\* only.
LEMMA RunnerActs ==
  ASSUME PublishInv, Manage
  PROVE  PublishInv' /\ Promised
<1>1. UNCHANGED <<checkpoint, uploadUrl, account, remote, platform>>
  BY DEF Manage, RunnerStep, Claim, Cancel, Retry, Crash
<1>2. CheckpointIsTrue' /\ RowInv' /\ ObjectsInv' /\ LeftInv'
  BY <1>1, Basics, RowKept
<1>3. Newest' = Newest /\ Posted' = Posted /\ Current' = Current
  BY <1>1, NewestKept DEF Exists, Posted, Current, Of
<1>4. ASSUME job' \in [status : {"queued", "running", "succeeded", "failed", "cancelled"},
                       attempts : 0..RetryBound, budget : 1..RetryBound,
                       cancelRequested : BOOLEAN],
             crashes' \in 0..CrashBound, JobInv', JobStep,
             handler' \in {handler, Idle, [phase |-> "start", answer |-> "none"]}
      PROVE  PublishInv' /\ Promised
  <2>1. TypeOK'
    BY <1>1, <1>4 DEF PublishInv, TypeOK, Idle, Phases, Answers
  <2>2. PhaseInv'
    BY <1>1, <1>4 DEF PublishInv, PhaseInv, Checked, Idle
  <2>3. AnswerInv'
    BY <1>1, <1>3, <1>4 DEF PublishInv, AnswerInv, At, Idle
  <2> QED BY <1>1, <1>2, <1>4, <2>1, <2>2, <2>3 DEF PublishInv, Promised
<1>5. CASE Claim
  <2>1. /\ job' = [job EXCEPT !.status = "running", !.attempts = job.attempts + 1]
        /\ job.status = "queued" /\ job.attempts < job.budget
        /\ handler' = [phase |-> "start", answer |-> "none"] /\ UNCHANGED crashes
    BY <1>5 DEF Claim, PublishInv, JobInv
  <2>2. job.attempts + 1 \in 0..RetryBound
    BY <2>1, Sizes DEF PublishInv, TypeOK
  <2>3. JobInv' /\ JobStep
    BY <2>1 DEF PublishInv, TypeOK, JobInv, JobStep, Outcome
  <2> QED BY <1>4, <2>1, <2>2, <2>3 DEF PublishInv, TypeOK
<1>6. CASE Cancel
  BY <1>4, <1>6, Sizes DEF Cancel, PublishInv, TypeOK, JobInv, JobStep, Outcome
<1>7. CASE Retry
  <2>1. PICK budget \in 1..RetryBound :
          /\ job' = [job EXCEPT !.status = "queued", !.budget = budget]
          /\ job.status = "failed" /\ job.attempts < budget
          /\ UNCHANGED <<handler, crashes>>
    <3> DEFINE budget == IF job.budget > job.attempts THEN job.budget ELSE job.attempts + 1
    <3>1. budget \in 1..RetryBound /\ job.attempts < budget
      BY <1>7, Sizes DEF Retry, PublishInv, TypeOK
    <3>2. job' = [job EXCEPT !.status = "queued", !.budget = budget]
      BY <1>7 DEF Retry
    <3> HIDE DEF budget
    <3> QED BY <1>7, <3>1, <3>2 DEF Retry
  <2>2. JobInv' /\ JobStep
    BY <2>1 DEF PublishInv, TypeOK, JobInv, JobStep, Outcome
  <2> QED BY <1>4, <2>1, <2>2 DEF PublishInv, TypeOK
<1>8. CASE Crash
  BY <1>4, <1>8, Sizes
     DEF Crash, Throw, Settled, Idle, PublishInv, TypeOK, JobInv, JobStep, Outcome
<1> QED BY <1>5, <1>6, <1>7, <1>8 DEF Manage, RunnerStep

-----------------------------------------------------------------------------
(* The theorems.                                                           *)

\* Every step keeps the invariant and what it promises.
LEMMA PublishStep ==
  ASSUME PublishInv, PublishNext
  PROVE  PublishInv' /\ Promised
<1>1. CASE Handle
  BY <1>1, TikTokHandles, YouTubeHandles, InstagramHandles, FacebookHandles DEF Handle
<1> QED BY <1>1, ServicesAct, RunnerActs DEF PublishNext

\* Nothing is published yet.
LEMMA PublishBegins == PublishInit => PublishInv
<1> SUFFICES ASSUME PublishInit PROVE PublishInv
  OBVIOUS
<1>1. TypeOK /\ platform \in Platforms
  BY Sizes
     DEF PublishInit, Init, TypeOK, Idle, Objects, NoObject, Statuses, Phases, Answers
<1>2. \A r \in Objects : remote[r] = [state |-> "absent", received |-> 0, forgotten |-> FALSE]
  BY DEF PublishInit, Init
<1>3. Newest = 0
  <2>1. {r \in Objects : Exists(r)} = {}
    BY <1>2 DEF Exists
  <2> QED BY <2>1, FS_EmptySet DEF Newest
<1>4. ObjectsInv
  BY <1>2, <1>3, Sizes DEF ObjectsInv, Exists, Objects
<1>5. LeftInv
  BY <1>2, Sizes DEF LeftInv, Remembers
<1>6. CheckpointIsTrue /\ JobInv /\ RowInv /\ PhaseInv /\ AnswerInv
  BY Sizes DEF PublishInit, Init, CheckpointIsTrue, JobInv, RowInv, PhaseInv, Checked,
               AnswerInv, At, Idle, NoObject
<1> QED BY <1>1, <1>4, <1>5, <1>6 DEF PublishInv

\* Nothing that a publish job or its service does makes the invariant untrue.
LEMMA PublishInvKept == ASSUME PublishInv, [PublishNext]_allVars PROVE PublishInv'
<1>1. CASE UNCHANGED allVars
  BY <1>1, OthersKept, SameObjects DEF allVars, vars
<1> QED BY <1>1, PublishStep

\* The inductive invariant holds in every state a publish job reaches.
THEOREM PublishInvHolds == PublishSpec => []PublishInv
BY PublishInvKept, PublishBegins, PTL DEF PublishSpec

\* A publish handler that resumes from its checkpoint (save() and the resume
\* branches of the four handlers) skips no byte the service does not have, and
\* a row that says "published" stands for a post: through crashes, retries,
\* lost and late answers, for every file size and number of attempts.
THEOREM CheckpointTrue == PublishSpec => []CheckpointIsTrue
BY PublishInvHolds, PTL DEF PublishInv

\* While Remembers, what has left "open" is the upload the row stands for.
LEMMA OnlyCurrent ==
  ASSUME PublishInv, Remembers
  PROVE  \A r \in Objects : r # Current => /\ remote[r].received < Size
                                           /\ r \notin Posted
<1>1. \A r \in Objects : r # Current => remote[r].state \in {"absent", "open"}
  BY DEF PublishInv, LeftInv
<1> QED BY <1>1, Basics DEF PublishInv, ObjectsInv, Posted

\* A new object is only asked for while the row stands for none.
LEMMA OnlyWhenNone ==
  ASSUME PublishInv, Promised, Newest' > Newest
  PROVE  Current = NoObject
<1>1. ~UNCHANGED remote
  BY NewestKept, NewestBounded DEF Exists
<1>2. RemoteStep /\ UNCHANGED <<checkpoint, platform>>
  BY <1>1 DEF Promised
<1> QED BY <1>2, ServiceKeeps, NewestBounded DEF PublishInv

\* No handler starts another upload when one it started before has taken the
\* whole file: that one may still be published on its own.  An upload is
\* started only while the row stands for none (Checked), and those that were
\* left are not whole (LeftInv).  For youtube this is as sure as youtube's
\* answer that a session is gone: a 404 for one that took the file would have
\* SessionGone replace it.
THEOREM NoUploadTwice ==
  ASSUME "youtube" \notin Platforms \/ ~ForgetsInserted
  PROVE  PublishSpec => NoSecondUpload
<1>1. PublishInv /\ [PublishNext]_allVars
        => [Newest' > Newest => \A r \in 1..Newest : remote[r].received < Size]_vars
  <2> SUFFICES ASSUME PublishInv, [PublishNext]_allVars, Newest' > Newest, NEW r \in 1..Newest
               PROVE  remote[r].received < Size
    OBVIOUS
  <2>1. PublishNext
    <3>1. CASE UNCHANGED allVars
      BY <3>1, NewestKept, NewestBounded DEF Exists, allVars, vars
    <3> QED BY <3>1
  <2>2. Current = NoObject /\ Remembers
    BY <2>1, PublishStep, OnlyWhenNone DEF PublishInv, Remembers
  <2>3. r \in Objects /\ r # NoObject
    BY NewestBounded, Sizes DEF Objects, NoObject
  <2> QED BY <2>2, <2>3, OnlyCurrent
<1> QED BY <1>1, PublishInvHolds, PTL DEF PublishSpec, NoSecondUpload

\* While Remembers, there is one post or none.
LEMMA OnePost ==
  ASSUME PublishInv, Remembers
  PROVE  Cardinality(Posted) = IF Posted = {} THEN 0 ELSE 1
<1>1. Posted = {} \/ Posted = {Current}
  BY OnlyCurrent DEF Posted
<1>2. Cardinality({}) = 0 /\ Cardinality({Current}) = 1
  BY FS_EmptySet, FS_Singleton
<1> QED BY <1>1, <1>2

\* A publish job implements the abstract publication: through four handlers,
\* their services, crashes, retries and cancellations its video is posted at
\* most once, and it succeeds only when posted (class comments of the four
\* handlers), on the condition of NoUploadTwice.
THEOREM PublicationImplemented ==
  ASSUME "youtube" \notin Platforms \/ ~ForgetsInserted
  PROVE  PublishSpec => ImplementsPublication
<1> DEFINE posts == Cardinality(Posted)
           outcome == IF job.status \in {"queued", "running"} THEN "open" ELSE job.status
<1>1. PublishInit => P!Init
  <2> SUFFICES ASSUME PublishInit PROVE P!Init
    OBVIOUS
  <2>1. Posted = {}
    BY DEF PublishInit, Init, Posted
  <2>2. posts = 0 /\ outcome = "open"
    BY <2>1, FS_EmptySet DEF PublishInit, Init
  <2> QED BY <2>2 DEF P!Init
<1>2. PublishInv /\ PublishInv' /\ [PublishNext]_allVars => [P!Next]_<<posts, outcome>>
  <2> SUFFICES ASSUME PublishInv, PublishInv', [PublishNext]_allVars
               PROVE  P!Next \/ (posts' = posts /\ outcome' = outcome)
    OBVIOUS
  <2>1. Remembers /\ Remembers'
    BY DEF PublishInv, Remembers
  <2>2. /\ posts = IF Posted = {} THEN 0 ELSE 1
        /\ posts' = IF Posted' = {} THEN 0 ELSE 1
    <3>1. posts = IF Posted = {} THEN 0 ELSE 1
      BY <2>1, OnePost
    <3>2. Posted' = {} \/ Posted' = {Current'}
      <4>1. \A r \in Objects : r # Current' => remote'[r].state \in {"absent", "open"}
        BY <2>1 DEF PublishInv, LeftInv
      <4> QED BY <4>1 DEF Posted
    <3>3. posts' = IF Posted' = {} THEN 0 ELSE 1
      BY <3>2, FS_EmptySet, FS_Singleton
    <3> QED BY <3>1, <3>3
  <2>3. outcome = Outcome(job.status) /\ outcome' = Outcome(job'.status)
    BY DEF Outcome
  <2> HIDE DEF posts, outcome
  <2>4. CASE UNCHANGED allVars
    <3>1. Posted' = Posted /\ job' = job
      BY <2>4 DEF allVars, vars, Posted
    <3> QED BY <2>2, <2>3, <3>1
  <2>5. CASE RemoteStep /\ UNCHANGED <<job, checkpoint, platform>>
    <3>1. Posted \subseteq Posted'
      BY <2>5, ServiceKeeps DEF PublishInv, Grows, Posted, Exists
    <3>2. outcome' = outcome
      BY <2>3, <2>5
    <3>3. posts' = posts \/ (posts = 0 /\ posts' = 1)
      BY <2>2, <3>1
    <3> QED BY <3>2, <3>3 DEF P!Next, P!Post, posts, outcome
  <2>6. CASE UNCHANGED remote /\ JobStep
    <3>1. posts' = posts
      BY <2>2, <2>6 DEF Posted
    <3>2. CASE Outcome(job'.status) = Outcome(job.status)
      BY <2>3, <3>1, <3>2
    <3>3. CASE job.status \in {"queued", "running"} /\ job'.status \in {"failed", "cancelled"}
      <4>1. outcome = "open" /\ outcome' \in {"failed", "cancelled"}
        BY <2>3, <3>3 DEF Outcome
      <4> QED BY <3>1, <4>1 DEF P!Next, P!GiveUp, posts, outcome
    <3>4. CASE job.status = "running" /\ job'.status = "succeeded" /\ Posted # {}
      <4>1. outcome = "open" /\ outcome' = "succeeded" /\ posts = 1
        BY <2>2, <2>3, <3>4 DEF Outcome
      <4> QED BY <3>1, <4>1 DEF P!Next, P!Succeed, posts, outcome
    <3>5. CASE job.status = "failed" /\ job'.status = "queued"
      <4>1. outcome = "failed" /\ outcome' = "open"
        BY <2>3, <3>5 DEF Outcome
      <4> QED BY <3>1, <4>1 DEF P!Next, P!Reopen, posts, outcome
    <3> QED BY <2>6, <3>2, <3>3, <3>4, <3>5 DEF JobStep
  <2> QED BY <2>4, <2>5, <2>6, PublishStep DEF Promised
<1> QED BY <1>1, <1>2, PublishInvHolds, PTL DEF PublishSpec, ImplementsPublication, P!Spec
=============================================================================
