----------------------------- MODULE LocalProofs ----------------------------
(***************************************************************************)
(* Theorems about what goes on on the machine, for every number of jobs,   *)
(* editors, executions, recordings, clips, definitions, forms, recipes,    *)
(* failures and crashes: files that rows name are there, a source is taken *)
(* in whole and once, nothing is overwritten by somebody who has not seen  *)
(* it, a definition that is stored is the one that was shown, a recipe     *)
(* renders as it was written, and close() leaves no handler, child or poll *)
(* behind.  One section per component gives its inductive invariant and a  *)
(* lemma per action; the last two put them together.                       *)
(***************************************************************************)
EXTENDS StorageProofs

-----------------------------------------------------------------------------
(* TransformCache                                                          *)

\* Whoever writes to the directory of the derivative does so alone and while
\* the row is running (or was cancelled under him); a row that runs has such a
\* writer while the server is up, so a row that succeeded has none.
Writes(v) == v.at \in {"prepare", "ffmpeg", "probe", "finalize", "record", "discard"}
DirectoryInv ==
  /\ \A v \in works : Writes(v) => derivative \in {"running", "cancelled"}
  /\ \A u, v \in works : Writes(u) /\ Writes(v) => u = v
  /\ \A v \in works : v.at = "record" => "final" \in files
  /\ derivative = "running" /\ serving => \E v \in works : Writes(v)
  /\ ~serving => works = {} /\ ~transform.live
  /\ Transforms!Owned => derivative \in {"running", "succeeded"}
TransformInv ==
  /\ Transforms!TransformTypeOK
  /\ transform.attempt = claims
  /\ DirectoryInv
  /\ Transforms!OutputIsThere

\* Moves: the execution goes to its next step.
LEMMA MovedWork ==
  ASSUME NEW v \in Transforms!Work, NEW step \in Transforms!Phases, Transforms!Moves(v, step)
  PROVE  \E n \in Transforms!Work : n.at = step /\ works' = (works \ {v}) \cup {n}
<1>1. [v EXCEPT !.at = step] \in Transforms!Work /\ [v EXCEPT !.at = step].at = step
  BY DEF Transforms!Work
<1> QED  BY <1>1 DEF Transforms!Moves

\* Throws: the execution goes to the catch block.
LEMMA ThrownWork ==
  ASSUME NEW v \in Transforms!Work, NEW failure \in {"cancelled", "transient", "permanent"},
         Transforms!Throws(v, failure)
  PROVE  \E n \in Transforms!Work : n.at = "discard" /\ works' = (works \ {v}) \cup {n}
<1>1. ASSUME NEW f \in {"cancelled", "transient", "permanent"}
      PROVE  /\ [v EXCEPT !.at = "discard", !.failure = f] \in Transforms!Work
             /\ [v EXCEPT !.at = "discard", !.failure = f].at = "discard"
  BY DEF Transforms!Work, Transforms!Phases
<1> QED  BY <1>1 DEF Transforms!Throws

\* The end of an execution settles the job only while its lease is held.
LEMMA AfterJob ==
  ASSUME NEW v, NEW failure, Transforms!Leaves(v, failure)
  PROVE  /\ works' = works \ {v}
         /\ IF Transforms!Owned
            THEN \E s \in Transforms!Waits \cup Transforms!Ended : transform' = Transforms!Left(s)
            ELSE transform' = transform
BY DEF Transforms!Leaves, Transforms!JobAfter, Transforms!Waits, Transforms!Ended

\* A job that was left is nobody's.
LEMMA LeftJob ==
  ASSUME Transforms!TransformTypeOK, NEW s \in Transforms!Waits \cup Transforms!Ended,
         transform' = Transforms!Left(s)
  PROVE  /\ transform' \in [status : {"absent", "running"} \cup Transforms!Waits \cup Transforms!Ended,
                            attempt : 0..ClaimBound, max : Nat, cancel : BOOLEAN, live : BOOLEAN]
         /\ transform'.attempt = transform.attempt /\ ~transform'.live /\ ~Transforms!Owned'
BY DEF Transforms!TransformTypeOK, Transforms!Left, Transforms!Owned

\* The one execution that writes goes on; the directory is its own.
LEMMA WriterGoesOn ==
  ASSUME TransformInv, NEW v \in works, Writes(v), NEW n \in Transforms!Work, Writes(n),
         works' = (works \ {v}) \cup {n}, n.at = "record" => "final" \in files',
         files' \subseteq {"partial", "final"},
         UNCHANGED <<derivative, transform, claims, source, serving, deaths, removed>>
  PROVE  TransformInv'
<1>1. derivative # "succeeded" /\ serving
  BY DEF TransformInv, DirectoryInv
<1>2. Transforms!TransformTypeOK'
  BY DEF TransformInv, Transforms!TransformTypeOK
<1>3. \A u \in works : Writes(u) => u = v
  BY DEF TransformInv, DirectoryInv
<1>4. \A u \in works' : Writes(u) => u = n
  BY <1>3
<1>5. \A u \in works' : u.at = "record" => "final" \in files'
  BY <1>4 DEF Writes
<1>6. DirectoryInv'
  BY <1>1, <1>4, <1>5 DEF TransformInv, DirectoryInv, Transforms!Owned
<1> QED  BY <1>1, <1>2, <1>6 DEF TransformInv, Transforms!OutputIsThere

\* TransformJobHandler, TransformService, the leases of the job and the recovery
\* at boot keep it.
LEMMA TransformStep ==
  ASSUME TransformInv, [Transforms!TransformNext]_Transforms!transformVars
  PROVE  TransformInv'
<1> USE DEF TransformInv, DirectoryInv, Writes, Transforms!TransformTypeOK,
            Transforms!OutputIsThere,
            Transforms!Waits, Transforms!Ended, Transforms!Phases, Transforms!Work,
            Transforms!CanFinish, Transforms!CanRun, Transforms!CanComplete,
            Transforms!Invalidated, Transforms!Recovered, Transforms!Usable, Transforms!Discarded,
            Transforms!StaleRemoved,
            Transforms!Owned, Transforms!Retried
<1>1. CASE Transforms!Prepare
  <2>1. transform' = transform
        \/ (~Transforms!Owned' /\ transform' = [transform EXCEPT !.status = "pending"])
    BY <1>1 DEF Transforms!Prepare, Transforms!Owned, TransformInv, Transforms!TransformTypeOK
  <2>2. derivative' = derivative \/ (derivative = "none" /\ derivative' = "pending")
    BY <1>1 DEF Transforms!Prepare, Transforms!Reserved
  <2>3. UNCHANGED <<claims, files, source, works, serving, deaths, removed>>
    BY <1>1 DEF Transforms!Prepare
  <2> QED  BY <2>1, <2>2, <2>3
<1>2. CASE Transforms!Claim
  <2> DEFINE w == [claim |-> transform.attempt + 1, at |-> "prepare", aborted |-> FALSE, failure |-> "none"]
             claimed == [transform EXCEPT !.status = "running", !.attempt = @ + 1, !.live = TRUE]
  <2>1. /\ serving /\ claims < ClaimBound /\ claims' = claims + 1
        /\ UNCHANGED <<files, source, serving, deaths, removed>>
    BY <1>2 DEF Transforms!Claim
  <2>2. /\ claims' \in 0..ClaimBound /\ transform.attempt + 1 \in 1..ClaimBound
        /\ w \in Transforms!Work
    BY <2>1, TransformsAssumption
  <2>3. /\ [w EXCEPT !.at = "verify"] \in Transforms!Work
        /\ [w EXCEPT !.at = "discard", !.failure = "permanent"] \in Transforms!Work
    BY <2>2
  <2>4. /\ claimed \in [status : {"absent", "running"} \cup Transforms!Waits \cup Transforms!Ended,
                        attempt : 0..ClaimBound, max : Nat, cancel : BOOLEAN, live : BOOLEAN]
        /\ claimed.attempt = claims'
        /\ [claimed EXCEPT !.status = "failed", !.live = FALSE] \in
             [status : {"absent", "running"} \cup Transforms!Waits \cup Transforms!Ended,
              attempt : 0..ClaimBound, max : Nat, cancel : BOOLEAN, live : BOOLEAN]
        /\ [claimed EXCEPT !.status = "failed", !.live = FALSE].attempt = claims'
    BY <2>1, <2>2
  <2> HIDE DEF w, claimed
  <2>5. w.at = "prepare" /\ [w EXCEPT !.at = "verify"].at = "verify"
        /\ [w EXCEPT !.at = "discard", !.failure = "permanent"].at = "discard"
    BY <2>2 DEF w
  <2>6. CASE /\ derivative = "succeeded" /\ derivative' = derivative
             /\ works' = works \cup {[w EXCEPT !.at = "verify"]}
             /\ transform' = claimed
    BY <2>1, <2>2, <2>3, <2>4, <2>5, <2>6
  <2>7. CASE \E n \in {w, [w EXCEPT !.at = "discard", !.failure = "permanent"]} :
                /\ derivative \in {"pending", "failed"} /\ derivative' = "running"
                /\ works' = works \cup {n} /\ transform' = claimed
    <3>1. PICK n \in Transforms!Work : Writes(n) /\ n.at # "record" /\ works' = works \cup {n}
      BY <2>2, <2>3, <2>5, <2>7
    <3>2. \A u \in works : ~Writes(u)
      BY <2>7
    <3>3. Transforms!OutputIsThere' /\ claims' = claimed.attempt /\ transform' = claimed
      BY <2>4, <2>7
    <3>4. Transforms!TransformTypeOK'
      BY <2>1, <2>2, <2>4, <2>7, <3>1
    <3>5. DirectoryInv'
      BY <2>1, <2>7, <3>1, <3>2
    <3> QED  BY <3>3, <3>4, <3>5
  <2>8. CASE /\ transform' = [claimed EXCEPT !.status = "failed", !.live = FALSE]
             /\ UNCHANGED <<derivative, works>>
    <3>1. ~Transforms!Owned'
      BY <2>4, <2>8
    <3> QED  BY <2>1, <2>2, <2>4, <2>8, <3>1
  <2> QED  BY <1>2, <2>6, <2>7, <2>8 DEF Transforms!Claim, w, claimed
<1>3. ASSUME NEW v \in works, Transforms!Verify(v) PROVE TransformInv'
  <2>1. v \in Transforms!Work /\ v.at = "verify" /\ ~Writes(v)
        /\ UNCHANGED <<claims, files, source, serving, deaths>>
    BY <1>3 DEF Transforms!Verify
  <2>2. CASE /\ derivative = "succeeded" /\ derivative' = "running" /\ removed' = FALSE
             /\ UNCHANGED transform
             /\ Transforms!Moves(v, "prepare") \/ Transforms!Throws(v, "permanent")
    <3>1. PICK n \in Transforms!Work :
            Writes(n) /\ n.at # "record" /\ works' = (works \ {v}) \cup {n}
      BY <2>1, <2>2, MovedWork, ThrownWork
    <3> QED  BY <2>1, <2>2, <3>1
  <2>3. CASE /\ \E failure : Transforms!Leaves(v, failure)
             /\ UNCHANGED <<derivative, removed>>
    <3>1. /\ works' = works \ {v}
          /\ \/ transform' = transform
             \/ \E s \in Transforms!Waits \cup Transforms!Ended : transform' = Transforms!Left(s)
      BY <2>3, AfterJob
    <3>2. (\E u \in works : Writes(u)) => \E n \in works' : Writes(n)
      BY <3>1, <2>1
    <3> QED  BY <2>1, <2>3, <3>1, <3>2, LeftJob
  <2> QED  BY <1>3, <2>2, <2>3 DEF Transforms!Verify
<1>4. ASSUME NEW v \in works, Transforms!PrepareOutput(v) PROVE TransformInv'
  <2>1. v \in Transforms!Work /\ Writes(v)
    BY <1>4 DEF Transforms!PrepareOutput
  <2>2. PICK n \in Transforms!Work :
          /\ Writes(n) /\ works' = (works \ {v}) \cup {n}
          /\ n.at = "record" => "final" \in files'
    BY <1>4, <2>1, MovedWork, ThrownWork DEF Transforms!PrepareOutput
  <2>3. files' \subseteq {"partial", "final"}
    BY <1>4 DEF Transforms!PrepareOutput
  <2>4. UNCHANGED <<derivative, transform, claims, source, serving, deaths, removed>>
    BY <1>4 DEF Transforms!PrepareOutput
  <2> QED  BY <2>1, <2>2, <2>3, <2>4, WriterGoesOn
<1>5. ASSUME NEW v \in works, Transforms!Ffmpeg(v) PROVE TransformInv'
  <2>1. v \in Transforms!Work /\ Writes(v)
    BY <1>5 DEF Transforms!Ffmpeg
  <2>2. PICK n \in Transforms!Work :
          /\ Writes(n) /\ works' = (works \ {v}) \cup {n}
          /\ n.at = "record" => "final" \in files'
    BY <1>5, <2>1, MovedWork, ThrownWork DEF Transforms!Ffmpeg
  <2>3. files' \subseteq {"partial", "final"}
    BY <1>5 DEF Transforms!Ffmpeg
  <2>4. UNCHANGED <<derivative, transform, claims, source, serving, deaths, removed>>
    BY <1>5 DEF Transforms!Ffmpeg
  <2> QED  BY <2>1, <2>2, <2>3, <2>4, WriterGoesOn
<1>6. ASSUME NEW v \in works, Transforms!Probe(v) PROVE TransformInv'
  <2>1. v \in Transforms!Work /\ Writes(v)
    BY <1>6 DEF Transforms!Probe
  <2>2. PICK n \in Transforms!Work :
          /\ Writes(n) /\ works' = (works \ {v}) \cup {n}
          /\ n.at = "record" => "final" \in files'
    BY <1>6, <2>1, MovedWork, ThrownWork DEF Transforms!Probe
  <2>3. files' \subseteq {"partial", "final"}
    BY <1>6 DEF Transforms!Probe
  <2>4. UNCHANGED <<derivative, transform, claims, source, serving, deaths, removed>>
    BY <1>6 DEF Transforms!Probe
  <2> QED  BY <2>1, <2>2, <2>3, <2>4, WriterGoesOn
<1>7. ASSUME NEW v \in works, Transforms!Finalize(v) PROVE TransformInv'
  <2>1. v \in Transforms!Work /\ Writes(v)
    BY <1>7 DEF Transforms!Finalize
  <2>2. PICK n \in Transforms!Work :
          /\ Writes(n) /\ works' = (works \ {v}) \cup {n}
          /\ n.at = "record" => "final" \in files'
    BY <1>7, <2>1, MovedWork, ThrownWork DEF Transforms!Finalize
  <2>3. files' \subseteq {"partial", "final"}
    BY <1>7 DEF Transforms!Finalize
  <2>4. UNCHANGED <<derivative, transform, claims, source, serving, deaths, removed>>
    BY <1>7 DEF Transforms!Finalize
  <2> QED  BY <2>1, <2>2, <2>3, <2>4, WriterGoesOn
<1>8. ASSUME NEW v \in works, Transforms!Record(v) PROVE TransformInv'
  <2>1. v \in Transforms!Work /\ Writes(v) /\ "final" \in files
        /\ UNCHANGED <<claims, files, source, serving, deaths, removed>>
    BY <1>8 DEF Transforms!Record
  <2>2. CASE Transforms!Throws(v, "permanent") /\ UNCHANGED <<derivative, transform>>
    <3>1. PICK n \in Transforms!Work :
            /\ Writes(n) /\ works' = (works \ {v}) \cup {n} /\ n.at # "record"
      BY <2>1, <2>2, ThrownWork
    <3> QED  BY <2>1, <2>2, <3>1, WriterGoesOn
  <2>3. CASE derivative' = "succeeded" /\ Transforms!Leaves(v, "none")
    <3>1. /\ works' = works \ {v}
          /\ \/ transform' = transform
             \/ \E s \in Transforms!Waits \cup Transforms!Ended : transform' = Transforms!Left(s)
      BY <2>3, AfterJob
    <3> QED  BY <2>1, <2>3, <3>1, LeftJob
  <2> QED  BY <1>8, <2>2, <2>3 DEF Transforms!Record
<1>9. ASSUME NEW v \in works, Transforms!Discard(v) PROVE TransformInv'
  <2>1. /\ v \in Transforms!Work /\ Writes(v) /\ derivative \in {"running", "cancelled"}
        /\ files' \subseteq {"partial", "final"}
        /\ UNCHANGED <<claims, source, serving, deaths, removed>>
    BY <1>9 DEF Transforms!Discard
  <2>2. derivative' \in {"cancelled", "failed"}
    BY <1>9, <2>1 DEF Transforms!Discard
  <2>3. /\ works' = works \ {v}
        /\ IF Transforms!Owned
           THEN \E s \in Transforms!Waits \cup Transforms!Ended : transform' = Transforms!Left(s)
           ELSE transform' = transform
    BY <1>9, AfterJob DEF Transforms!Discard
  <2> QED  BY <2>1, <2>2, <2>3, LeftJob
<1>10. ASSUME NEW v \in works, Transforms!Heartbeat(v) PROVE TransformInv'
  <2>1. PICK n \in Transforms!Work : n.at = v.at /\ works' = (works \ {v}) \cup {n}
    <3>1. PICK u \in Transforms!Work : u = v
      OBVIOUS
    <3>2. [u EXCEPT !.aborted = TRUE] \in Transforms!Work /\ [u EXCEPT !.aborted = TRUE].at = u.at
      BY DEF Transforms!Work
    <3> QED  BY <1>10, <3>1, <3>2 DEF Transforms!Heartbeat
  <2> QED  BY <1>10, <2>1 DEF Transforms!Heartbeat
<1>11. CASE Transforms!ExpireLease
  <2>1. PICK s \in Transforms!Waits \cup Transforms!Ended : transform' = Transforms!Left(s)
    BY <1>11 DEF Transforms!ExpireLease
  <2> QED  BY <1>11, <2>1, LeftJob DEF Transforms!ExpireLease
<1>12. CASE Transforms!CancelTransform
  <2>1. CASE transform.status = "running"
    <3>1. /\ transform' = [transform EXCEPT !.cancel = TRUE]
          /\ UNCHANGED <<derivative, claims, files, source, works, serving, deaths, removed>>
      BY <1>12, <2>1 DEF Transforms!CancelTransform
    <3> QED  BY <3>1
  <2>2. CASE transform.status # "running"
    <3>1. /\ transform' = [transform EXCEPT !.status = "cancelled", !.cancel = TRUE]
          /\ \/ derivative' = derivative
             \/ derivative \in {"pending", "running"} /\ derivative' = "cancelled"
          /\ UNCHANGED <<claims, files, source, works, serving, deaths, removed>>
      BY <1>12, <2>2 DEF Transforms!CancelTransform
    <3>2. Transforms!TransformTypeOK' /\ ~Transforms!Owned'
      BY <3>1
    <3>3. CASE derivative' = derivative
      BY <3>1, <3>2, <3>3
    <3>4. CASE derivative \in {"pending", "running"} /\ derivative' = "cancelled"
      BY <3>1, <3>2, <3>4
    <3> QED  BY <3>1, <3>3, <3>4
  <2> QED  BY <2>1, <2>2
<1>13. CASE Transforms!CancelOverMcp
  BY <1>13 DEF Transforms!CancelOverMcp
<1>14. CASE Transforms!RetryTransform
  <2>1. PICK m \in Nat : transform' = [transform EXCEPT !.status = "pending", !.cancel = FALSE, !.max = m]
    <3>1. transform.max \in Nat /\ transform.attempt + 1 \in Nat
      BY TransformsAssumption
    <3> QED  BY <1>14, <3>1 DEF Transforms!RetryTransform
  <2> QED  BY <1>14, <2>1 DEF Transforms!RetryTransform
<1>15. CASE Transforms!RemoveOutput
  BY <1>15 DEF Transforms!RemoveOutput
<1>16. CASE Transforms!ChangeSource
  <2>1. /\ source' \in BOOLEAN
        /\ UNCHANGED <<derivative, transform, claims, files, works, serving, deaths, removed>>
    BY <1>16 DEF Transforms!ChangeSource
  <2>2. Transforms!TransformTypeOK'
    BY <2>1
  <2>3. DirectoryInv'
    BY <2>1
  <2>4. Transforms!OutputIsThere'
    BY <2>1
  <2> QED  BY <2>1, <2>2, <2>3, <2>4
<1>17. CASE Transforms!CrashServer
  <2>1. deaths' \in 0..TransformCrashBound
    BY <1>17, TransformsAssumption DEF Transforms!CrashServer
  <2> QED  BY <1>17, <2>1 DEF Transforms!CrashServer
<1>18. CASE Transforms!Boot
  BY <1>18 DEF Transforms!Boot
<1>19. CASE UNCHANGED Transforms!transformVars
  BY <1>19 DEF Transforms!transformVars
<1> QED
  BY <1>1, <1>2, <1>3, <1>4, <1>5, <1>6, <1>7, <1>8, <1>9, <1>10, <1>11, <1>12, <1>13,
     <1>14, <1>15, <1>16, <1>17, <1>18, <1>19
  DEF Transforms!TransformNext, Transforms!HandlerStep

\* A job succeeds when the owner of its lease returns.
LEMMA SettledJob ==
  ASSUME Transforms!TransformTypeOK, NEW v, NEW failure \in {"none", "transient", "permanent"},
         Transforms!Leaves(v, failure), transform.status = "running", transform'.status = "succeeded"
  PROVE  Transforms!Owned /\ failure = "none"
<1>1. Transforms!Owned
  BY DEF Transforms!Leaves, Transforms!JobAfter
<1>2. CASE v.aborted \/ transform.cancel
  <2>1. transform' = Transforms!Left("cancelled")
    BY <1>1, <1>2 DEF Transforms!Leaves, Transforms!JobAfter
  <2> QED  BY <2>1 DEF Transforms!Left, Transforms!TransformTypeOK
<1>3. CASE ~(v.aborted \/ transform.cancel) /\ failure # "none"
  <2>1. \E s \in {"retrying", "failed"} : transform' = Transforms!Left(s)
    BY <1>1, <1>3 DEF Transforms!Leaves, Transforms!JobAfter
  <2> QED  BY <2>1 DEF Transforms!Left, Transforms!TransformTypeOK
<1> QED  BY <1>1, <1>2, <1>3

\* The last execution to end leaves a job that succeeded with a finished
\* derivative: whoever holds the lease found the row running or succeeded, and
\* no other execution is left to be writing.
LEMMA ReleasedStep ==
  ASSUME TransformInv, Transforms!TransformNext, transform.status = "running",
         transform'.status = "succeeded", works' = {}
  PROVE  derivative' = "succeeded" /\ "final" \in files'
<1> USE DEF TransformInv, DirectoryInv, Transforms!TransformTypeOK, Transforms!Waits,
            Transforms!Ended
<1>1. ASSUME NEW v \in works, Transforms!Verify(v)
      PROVE  derivative' = "succeeded" /\ "final" \in files'
  <2>1. v.at = "verify" /\ UNCHANGED <<files>> /\ transform' # transform
    BY <1>1 DEF Transforms!Verify
  <2>2. \E failure \in {"none", "permanent"} :
          /\ Transforms!Leaves(v, failure) /\ derivative' = derivative
          /\ failure = "none" => "final" \in files
    BY <1>1, <2>1 DEF Transforms!Verify, Transforms!Usable
  <2>3. PICK failure \in {"none", "permanent"} :
          /\ Transforms!Leaves(v, failure) /\ derivative' = derivative
          /\ failure = "none" => "final" \in files
    BY <2>2
  <2>4. Transforms!Owned /\ failure = "none"
    BY <2>3, SettledJob
  <2>5. works \subseteq {v}
    BY <2>3 DEF Transforms!Leaves
  <2>6. derivative # "running"
    BY <2>1, <2>5 DEF Writes
  <2> QED  BY <2>1, <2>3, <2>4, <2>6
<1>2. ASSUME NEW v \in works, Transforms!Record(v)
      PROVE  derivative' = "succeeded" /\ "final" \in files'
  BY <1>2 DEF Transforms!Record, Writes
<1>3. ASSUME NEW v \in works, Transforms!Discard(v)
      PROVE  FALSE
  <2>1. PICK failure \in {"transient", "permanent"} : Transforms!Leaves(v, failure)
    BY <1>3 DEF Transforms!Discard
  <2> QED  BY <2>1 DEF Transforms!Leaves, Transforms!JobAfter, Transforms!Left
<1>4. ASSUME NEW v \in works,
             \/ Transforms!PrepareOutput(v) \/ Transforms!Ffmpeg(v)
             \/ Transforms!Probe(v) \/ Transforms!Finalize(v)
               \/ Transforms!Heartbeat(v)
      PROVE  FALSE
  BY <1>4 DEF Transforms!PrepareOutput, Transforms!Ffmpeg, Transforms!Probe, Transforms!Finalize,
              Transforms!Heartbeat
<1>5. ~Transforms!Claim /\ ~Transforms!Prepare
  BY DEF Transforms!Claim, Transforms!Prepare
<1>6. ~Transforms!ExpireLease
  <2>1. Transforms!ExpireLease =>
          \E s \in {"cancelled", "retrying", "failed"} : transform' = Transforms!Left(s)
    BY DEF Transforms!ExpireLease, Transforms!Retried
  <2> QED  BY <2>1 DEF Transforms!Left
<1>7. ~Transforms!CancelTransform /\ ~Transforms!CancelOverMcp
  BY DEF Transforms!CancelTransform, Transforms!CancelOverMcp
<1>8. ~Transforms!RetryTransform /\ ~Transforms!RemoveOutput /\ ~Transforms!ChangeSource
  BY DEF Transforms!RetryTransform, Transforms!RemoveOutput, Transforms!ChangeSource
<1>9. ~Transforms!CrashServer /\ ~Transforms!Boot
  BY DEF Transforms!CrashServer, Transforms!Boot
<1> QED
  BY <1>1, <1>2, <1>3, <1>4, <1>5, <1>6, <1>7, <1>8, <1>9
  DEF Transforms!TransformNext, Transforms!HandlerStep

\* No derivative, no job and no execution at first.
LEMMA TransformBegins == Transforms!TransformInit => TransformInv
<1> SUFFICES ASSUME Transforms!TransformInit PROVE TransformInv
  OBVIOUS
<1> USE DEF Transforms!TransformInit
<1>1. 0 \in 0..ClaimBound /\ 0 \in 0..TransformCrashBound /\ TransformAttempts \in Nat
  BY TransformsAssumption
<1>2. Transforms!TransformTypeOK
  BY <1>1 DEF Transforms!TransformTypeOK, Transforms!Waits, Transforms!Ended
<1>3. transform.attempt = claims /\ ~transform.live /\ works = {}
  OBVIOUS
<1> QED  BY <1>2, <1>3 DEF TransformInv, DirectoryInv, Transforms!OutputIsThere, Transforms!Owned

-----------------------------------------------------------------------------
(* Transcription                                                           *)

\* Cues of an editor are marked as edited and never lost again; a handler that
\* resumes has cues; an execution that has an output has its captions.
HasOutput(x) == outputs \cap ({x} \X Outputs) # {}
TranscriptionInv ==
  /\ Captions!TranscriptionTypeOK
  /\ transcribe.status # "absent" => transcribe.for \in Executions
  /\ inference # "idle" => transcribe.status = "running"
  /\ inference = "resume" => transcript.cues # "none"
  /\ transcript.edited => transcript.cues # "none"
  /\ transcript.cues \in Editors => transcript.edited
  /\ \A x \in Executions \cap Captioning : HasOutput(x) => captions[x] # "none"
  /\ Captions!SuccessResumed

\* executeMedia and the transcription handler keep this, with every interleaving
\* of executions, editors, failures and crashes.
LEMMA TranscriptionStep ==
  ASSUME TranscriptionInv, [Captions!TranscriptionNext]_Captions!transcriptionVars
  PROVE  TranscriptionInv'
<1> USE DEF TranscriptionInv, HasOutput, Captions!TranscriptionTypeOK, Captions!SuccessResumed,
            Captions!NoCues, Captions!NoOne, Captions!Generated,
            Captions!Texts, Captions!Usable, Captions!CaptionStep, Captions!Reserved,
            Captions!Dispatch,
            Captions!MayGenerate, Captions!Unchanged
<1>1. ASSUME NEW x \in Executions, Captions!Execute(x) PROVE TranscriptionInv'
  <2>1. transcript' = [transcript EXCEPT !.reserved = TRUE]
    BY <1>1 DEF Captions!Execute
  <2>2. CASE transcript.cues # "none"
    <3>1. /\ Captions!Dispatch(x)
          /\ UNCHANGED <<transcribe, opened, inference, troubles>>
      BY <1>1, <2>2 DEF Captions!Execute
    <3>2. Captions!TranscriptionTypeOK'
      BY <2>1, <2>2, <3>1
    <3>3. \A y \in Executions \cap Captioning : HasOutput(y)' => captions'[y] # "none"
      BY <2>2, <3>1
    <3>4. Captions!SuccessResumed'
      BY <2>1, <2>2, <3>1, <3>3
    <3> QED  BY <2>1, <3>1, <3>2, <3>3, <3>4
  <2>3. CASE transcript.cues = "none"
    <3>1. \/ transcribe.status = "absent" /\ transcribe' = [status |-> "pending", for |-> x]
          \/ transcribe.status # "absent" /\ transcribe' = transcribe
      BY <1>1, <2>3 DEF Captions!Execute
    <3>2. /\ execution' = [execution EXCEPT ![x] = "waiting"]
          /\ UNCHANGED <<outputs, captions, opened, inference, troubles>>
      BY <1>1, <2>3 DEF Captions!Execute
    <3>3. transcribe'.status # "succeeded" \/ transcribe' = transcribe
      BY <3>1
    <3>4. Captions!TranscriptionTypeOK'
      <4>1. transcribe' \in [status : {"absent", "pending", "running", "succeeded", "failed", "cancelled"},
                               for : Executions \cup {"nobody"}]
        BY <3>1
      <4> QED  BY <2>1, <4>1, <3>2
    <3> QED  BY <2>1, <2>3, <3>1, <3>2, <3>3, <3>4
  <2> QED  BY <2>2, <2>3
<1>2. CASE Captions!Claim
  BY <1>2 DEF Captions!Claim
<1>3. CASE Captions!Infer
  <2>1. /\ inference = "infer" /\ inference' = "resume"
        /\ UNCHANGED <<opened, transcribe, execution, outputs, captions, troubles>>
    BY <1>3 DEF Captions!Infer
  <2>2. CASE transcript.edited
    <3>1. transcript' = transcript
      BY <1>3, <2>2 DEF Captions!Infer
    <3> QED  BY <2>1, <2>2, <3>1
  <2>3. CASE ~transcript.edited
    <3>1. /\ transcript' = [transcript EXCEPT !.cues = "generated", !.revision = @ + 1]
          /\ transcript.revision + 1 \in 0..EditBound
      BY <1>3, <2>3, CaptionsAssumption DEF Captions!Infer
    <3>2. Captions!TranscriptionTypeOK'
      BY <2>1, <3>1
    <3> QED  BY <2>1, <2>3, <3>1, <3>2, CaptionsAssumption
  <2> QED  BY <2>2, <2>3
<1>4. CASE Captions!Resume
  BY <1>4, CaptionsAssumption DEF Captions!Resume
<1>5. CASE Captions!InferenceFails
  BY <1>5, CaptionsAssumption DEF Captions!InferenceFails
<1>6. CASE Captions!Die
  BY <1>6, CaptionsAssumption DEF Captions!Die
<1>7. CASE Captions!RecoverLease
  BY <1>7, CaptionsAssumption DEF Captions!RecoverLease
<1>8. CASE Captions!Retry
  BY <1>8, CaptionsAssumption DEF Captions!Retry
<1>9. CASE Captions!Cancel
  BY <1>9, CaptionsAssumption DEF Captions!Cancel
<1>10. ASSUME NEW e \in Editors, Captions!Open(e) PROVE TranscriptionInv'
  BY <1>10, CaptionsAssumption DEF Captions!Open
<1>11. ASSUME NEW e \in Editors, Captions!Save(e) PROVE TranscriptionInv'
  <2>1. /\ transcript' = [transcript EXCEPT !.cues = e, !.edited = TRUE, !.revision = @ + 1]
        /\ transcript.revision < EditBound /\ e # "none"
        /\ opened' = [opened EXCEPT ![e] = transcript.revision + 1]
        /\ UNCHANGED <<transcribe, inference, execution, outputs, captions, troubles>>
    BY <1>11, CaptionsAssumption DEF Captions!Save
  <2>2. transcript.revision + 1 \in 0..EditBound /\ transcript.revision + 1 \in -1..EditBound
    BY <2>1, CaptionsAssumption
  <2>3. Captions!TranscriptionTypeOK'
    BY <2>1, <2>2
  <2> QED  BY <2>1, <2>3, CaptionsAssumption
<1>12. CASE UNCHANGED Captions!transcriptionVars
  BY <1>12 DEF Captions!transcriptionVars
<1> QED
  BY <1>1, <1>2, <1>3, <1>4, <1>5, <1>6, <1>7, <1>8, <1>9, <1>10, <1>11, <1>12
  DEF Captions!TranscriptionNext, Captions!HandlerStep

\* Cues somebody saved are replaced only by somebody who had them on the
\* screen: an inference leaves edited cues alone, a save names its revision.
LEMMA EditsSurviveStep ==
  ASSUME TranscriptionInv, Captions!TranscriptionNext, transcript.cues \in Editors,
         transcript'.cues # transcript.cues
  PROVE  \E e \in Editors : opened[e] = transcript.revision /\ transcript'.cues = e
<1>1. transcript.edited
  BY DEF TranscriptionInv
<1>2. ASSUME NEW e \in Editors, Captions!Save(e)
      PROVE  opened[e] = transcript.revision /\ transcript'.cues = e
  BY <1>2 DEF Captions!Save, Captions!Unchanged, TranscriptionInv, Captions!TranscriptionTypeOK
<1>3. ~Captions!Infer
  BY <1>1 DEF Captions!Infer, Captions!MayGenerate
<1>4. ASSUME NEW x \in Executions PROVE ~Captions!Execute(x)
  BY DEF Captions!Execute, Captions!Reserved, TranscriptionInv, Captions!TranscriptionTypeOK
<1> QED
  BY <1>2, <1>3, <1>4
  DEF Captions!TranscriptionNext, Captions!HandlerStep, Captions!Claim, Captions!Resume,
      Captions!InferenceFails,
      Captions!Die, Captions!RecoverLease, Captions!Retry, Captions!Cancel, Captions!Open

\* No transcript, no job and no execution at first.
LEMMA TranscriptionBegins == Captions!TranscriptionInit => TranscriptionInv
BY CaptionsAssumption DEF Captions!TranscriptionInit, TranscriptionInv,
                          Captions!TranscriptionTypeOK,
   Captions!SuccessResumed, Captions!NoCues, Captions!NoOne, Captions!Texts, HasOutput

-----------------------------------------------------------------------------
(* WatchedFolder                                                           *)

\* A content is registered once, by whoever asked before: what is being probed
\* is not known yet, and not by the other importer either.
Rows ==
  /\ \A a \in assets : a = <<a[1], a[2]>>
  /\ \A j \in jobsMade : j = <<j[1], j[2], j[3]>>
Once ==
  /\ \A a, b \in assets : a[2] = b[2] => a = b
  /\ scan.at = "probe" => \A a \in assets : a[2] # scan.content
  /\ manual.at = "probe" => \A a \in assets : a[2] # manual.content
  /\ scan.at = "probe" /\ manual.at = "probe" => scan.content # manual.content
ImportInv == Rows /\ (overlapped \/ Once)

\* Scans, imports, writes and crashes keep it.
LEMMA ImportStep ==
  ASSUME ImportInv, [Watching!WatchNext]_Watching!watchVars
  PROVE  ImportInv'
<1> USE DEF ImportInv
<1>a. \A c : Watching!Known(c) = {} => \A a \in assets : a[2] # c
  BY DEF Watching!Known
<1>1. ASSUME UNCHANGED <<assets, jobsMade, manual>>, overlapped => overlapped',
             scan'.at # "probe" \/ scan' = scan
      PROVE  ImportInv'
  BY <1>1 DEF Rows, Once
<1>2. CASE Watching!ScanStep
  <2>1. CASE Watching!BeginScan
    BY <1>1, <2>1 DEF Watching!BeginScan
  <2>2. ASSUME NEW v \in Watching!Visits, Watching!Stat(v) PROVE ImportInv'
    <3>1. scan'.at # "probe"
      BY <2>2 DEF Watching!Stat, Watching!NoScan
    <3> QED
      BY <1>1, <2>2, <3>1 DEF Watching!Stat
  <2>3. CASE Watching!Inspect
    <3>1. UNCHANGED <<assets, jobsMade, manual>>
      BY <2>3 DEF Watching!Inspect
    <3>2. CASE scan'.at # "probe" /\ overlapped' = overlapped
      BY <1>1, <3>1, <3>2
    <3>3. ASSUME NEW c, Watching!Known(c) = {}, scan'.at = "probe", scan'.content = c,
                 overlapped' = (overlapped \/ (manual.at = "probe" /\ manual.content = c))
          PROVE  ImportInv'
      BY <1>a, <3>1, <3>3 DEF Rows, Once
    <3> QED
      BY <2>3, <3>2, <3>3 DEF Watching!Inspect, Watching!Scanned, Watching!NoScan
  <2>4. CASE Watching!Probe
    <3>1. /\ assets' = assets \cup {<<Watching!NewAsset, scan.content>>} /\ scan'.at # "probe"
          /\ scan.at = "probe" /\ UNCHANGED <<jobsMade, manual, overlapped>>
      BY <2>4 DEF Watching!Probe, Watching!Created
    <3> QED
      BY <3>1 DEF Rows, Once
  <2>5. CASE Watching!Execute
    <3>1. /\ scan'.at # "probe" /\ UNCHANGED <<assets, manual, overlapped>>
          /\ jobsMade' \subseteq
               jobsMade \cup ({scan.visit[1]} \X {scan.media} \X Targets)
      BY <2>5 DEF Watching!Execute, Watching!Dispatched, Watching!Scanned, Watching!NoScan
    <3> QED
      BY <3>1 DEF Rows, Once
  <2> QED
    BY <1>2, <2>1, <2>2, <2>3, <2>4, <2>5 DEF Watching!ScanStep
<1>3. CASE Watching!ImportFails
  <2>1. scan'.at # "probe"
    BY <1>3 DEF Watching!ImportFails, Watching!Scanned, Watching!NoScan
  <2> QED
    BY <1>1, <1>3, <2>1 DEF Watching!ImportFails
<1>4. CASE Watching!Die
  <2>1. scan'.at = "idle" /\ manual'.at = "idle" /\ UNCHANGED <<assets, overlapped>>
    BY <1>4 DEF Watching!Die, Watching!NoScan, Watching!NoImport
  <2>2. \/ UNCHANGED jobsMade
        \/ \E made \in SUBSET Targets :
             jobsMade' \subseteq jobsMade \cup ({scan.visit[1]} \X {scan.media} \X made)
    BY <1>4 DEF Watching!Die, Watching!Dispatched
  <2> QED
    BY <2>1, <2>2 DEF Rows, Once
<1>5. ASSUME NEW c \in Contents, Watching!ManualImport(c) PROVE ImportInv'
  <2>1. UNCHANGED <<assets, jobsMade, scan>>
    BY <1>5 DEF Watching!ManualImport
  <2>2. CASE UNCHANGED <<manual, overlapped>>
    BY <1>1, <2>1, <2>2
  <2>3. CASE /\ Watching!Known(c) = {} /\ manual' = [at |-> "probe", content |-> c]
             /\ overlapped' = (overlapped \/ (scan.at = "probe" /\ scan.content = c))
    BY <1>a, <2>1, <2>3 DEF Rows, Once
  <2> QED
    BY <1>5, <2>2, <2>3 DEF Watching!ManualImport
<1>6. CASE Watching!ManualImported
  <2>1. /\ assets' = assets \cup {<<Watching!NewAsset, manual.content>>} /\ manual'.at = "idle"
        /\ manual.at = "probe" /\ UNCHANGED <<jobsMade, scan, overlapped>>
    BY <1>6 DEF Watching!ManualImported, Watching!Created, Watching!NoImport
  <2> QED
    BY <2>1 DEF Rows, Once
<1>7. CASE UNCHANGED <<assets, jobsMade, manual, scan, overlapped>>
  BY <1>1, <1>7
<1> QED
  BY <1>2, <1>3, <1>4, <1>5, <1>6, <1>7
  DEF Watching!WatchNext, Watching!Tick, Watching!Write, Watching!Switch, Watching!watchVars

\* Nothing is registered at first.
LEMMA ImportBegins ==
  ASSUME Watching!WatchInit
  PROVE  ImportInv
BY DEF Watching!WatchInit, Watching!NoScan, Watching!NoImport, ImportInv, Rows, Once

\* All jobs of one content name the one medium.
LEMMA ImportHolds ==
  ASSUME ImportInv
  PROVE  Watching!DispatchedOnce
<1>1. ASSUME ~overlapped, NEW w \in Watchers, NEW c \in Contents, NEW t \in Targets
      PROVE  Cardinality({j \in Watching!JobsFor(w, c) : j[3] = t}) <= 1
  <2> DEFINE same == {j \in Watching!JobsFor(w, c) : j[3] = t}
  <2>1. ASSUME NEW i \in same, NEW j \in same PROVE i = j
    <3>1. /\ i = <<w, i[2], t>> /\ j = <<w, j[2], t>>
          /\ <<i[2], c>> \in assets /\ <<j[2], c>> \in assets
      BY <2>1 DEF Watching!JobsFor, ImportInv, Rows
    <3>2. <<i[2], c>> = <<j[2], c>>
      BY <1>1, <3>1 DEF ImportInv, Once
    <3> QED  BY <3>1, <3>2
  <2> HIDE DEF same
  <2>2. ASSUME same = {} PROVE Cardinality(same) <= 1
    <3>1. Cardinality(same) = 0
      BY <2>2, FS_EmptySet
    <3> QED  BY <3>1
  <2>3. ASSUME same # {} PROVE Cardinality(same) <= 1
    <3>1. PICK j : j \in same
      BY <2>3
    <3>2. same = {j}
      BY <2>1, <3>1
    <3>3. Cardinality(same) = 1
      BY <3>2, FS_Singleton
    <3> QED  BY <3>3
  <2>4. Cardinality(same) <= 1
    BY <2>2, <2>3
  <2> QED
    BY <2>4 DEF same
<1>2. ASSUME NEW S PROVE Watching!Cardinality(S) = Cardinality(S)
  BY DEF Watching!Cardinality, Cardinality
<1> QED
  BY <1>1, <1>2 DEF Watching!DispatchedOnce

-----------------------------------------------------------------------------
(* WorkflowPlan                                                            *)

\* Induction over the naturals, from their order being well founded.
Less == {ss \in Nat \X Nat : ss[1] < ss[2]}
\* A set of numbers has a least one.
LEMMA LeastNat ==
  ASSUME NEW T \in SUBSET Nat, T # {}
  PROVE  \E n \in T : \A m \in T : n <= m
<1>1. IsWellFoundedOn(Less, Nat)
  BY NatLessThanWellFounded DEF OpToRel, Less
<1>2. PICK n \in T : \A m \in T : ~(<<m, n>> \in Less)
  BY <1>1, WFMin
<1>3. ASSUME NEW m \in T, m < n PROVE FALSE
  <2>1. <<m, n>> \in Nat \X Nat /\ <<m, n>>[1] < <<m, n>>[2]
    BY <1>3
  <2> QED  BY <1>2, <2>1 DEF Less
<1> QED  BY <1>3

\* A set with 0 and with the number after each of its own has all numbers.
LEMMA SetInduction ==
  ASSUME NEW S, 0 \in S, \A n \in Nat : n \in S => n + 1 \in S
  PROVE  Nat \subseteq S
<1>1. ASSUME Nat \ S # {} PROVE FALSE
  <2>1. PICK n \in Nat \ S : \A m \in Nat \ S : n <= m
    BY <1>1, LeastNat
  <2>2. n - 1 \in Nat
    BY <2>1
  <2>3. n - 1 \in S
    BY <2>1, <2>2
  <2> QED  BY <2>1, <2>2, <2>3
<1> QED  BY <1>1

\* The walk of visit(), one round of edges after the other: there is one, of
\* every length.
Followed(d, T) == T \cup {e[2] : e \in {x \in d.edges : x[1] \in T}}
Walk(d, root, n, f) ==
  f = [k \in 0..n |-> IF k = 0 THEN {root} ELSE Followed(d, f[k - 1])]
\* Such a walk takes place, of any length.
LEMMA WalkExists ==
  ASSUME NEW d, NEW root, NEW n \in Nat
  PROVE  \E f : Walk(d, root, n, f)
<1> DEFINE S == {m \in Nat : \E f : Walk(d, root, m, f)}
<1>1. 0 \in S
  <2>1. Walk(d, root, 0, [k \in 0..0 |-> {root}])
    BY DEF Walk
  <2> QED  BY <2>1
<1>2. ASSUME NEW m \in Nat, m \in S PROVE m + 1 \in S
  <2>1. PICK f : Walk(d, root, m, f)
    BY <1>2
  <2> DEFINE g == [k \in 0..(m + 1) |-> IF k = m + 1 THEN Followed(d, f[m]) ELSE f[k]]
  <2>2. ASSUME NEW k \in 0..(m + 1)
        PROVE  g[k] = IF k = 0 THEN {root} ELSE Followed(d, g[k - 1])
    <3>1. CASE k = m + 1
      BY <3>1
    <3>2. CASE k # m + 1
      <4>1. k \in 0..m /\ g[k] = f[k] /\ (k # 0 => g[k - 1] = f[k - 1])
        BY <3>2
      <4> HIDE DEF g
      <4> QED  BY <2>1, <4>1 DEF Walk
    <3> QED  BY <3>1, <3>2
  <2>3. Walk(d, root, m + 1, g)
    BY <2>2 DEF Walk
  <2> QED  BY <2>3
<1> HIDE DEF S
<1>3. n \in S
  BY <1>1, <1>2, SetInduction
<1> QED  BY <1>3 DEF S

\* Reachable is the last round of such a walk.
LEMMA ReachedByWalk ==
  ASSUME NEW d, NEW root, Len(d.steps) \in Nat
  PROVE  \E f : /\ Walk(d, root, Len(d.steps), f)
                /\ Workflows!Reachable(d, root) = f[Len(d.steps)]
<1> DEFINE found == CHOOSE f : Walk(d, root, Len(d.steps), f)
<1>1. Workflows!Reachable(d, root) = found[Len(d.steps)]
  BY DEF Workflows!Reachable, Walk, Followed
<1>2. Walk(d, root, Len(d.steps), found)
  BY WalkExists
<1> QED  BY <1>1, <1>2

\* What every round stays in, all that is reached is in.
LEMMA ReachedWithin ==
  ASSUME NEW d, NEW root, Len(d.steps) \in Nat,
         NEW S, root \in S, \A e \in d.edges : e[1] \in S => e[2] \in S
  PROVE  Workflows!Reachable(d, root) \subseteq S
<1>1. PICK f : /\ Walk(d, root, Len(d.steps), f)
               /\ Workflows!Reachable(d, root) = f[Len(d.steps)]
  BY ReachedByWalk
<1> DEFINE Within == {k \in Nat : k <= Len(d.steps) => f[k] \subseteq S}
<1>2. 0 \in Within
  BY <1>1 DEF Walk
<1>3. ASSUME NEW k \in Nat, k \in Within PROVE k + 1 \in Within
  <2>1. ASSUME k + 1 <= Len(d.steps) PROVE f[k + 1] \subseteq S
    <3>1. f[k] \subseteq S
      BY <1>3, <2>1
    <3>2. k + 1 \in 0..Len(d.steps) /\ k + 1 # 0 /\ (k + 1) - 1 = k
      BY <2>1
    <3>3. f[k + 1] = Followed(d, f[k])
      BY <1>1, <3>2 DEF Walk
    <3> QED  BY <3>1, <3>3 DEF Followed
  <2> QED  BY <2>1
<1> HIDE DEF Within
<1>4. Len(d.steps) \in Within
  BY <1>2, <1>3, SetInduction
<1> QED  BY <1>1, <1>4 DEF Within

\* A definition whose steps are of the kinds there are.
IsDefinition(d) == d.steps \in Seq(Workflows!Kinds)

\* Every set of steps beside the source is entered from outside, or visit()
\* would not have found it.
LEMMA ValidIsRoute ==
  ASSUME NEW d, IsDefinition(d), Workflows!Valid(d)
  PROVE  Workflows!OnTheRoute(d)
<1>1. Len(d.steps) \in Nat
  BY DEF IsDefinition
<1>2. ASSUME NEW T \in SUBSET (Workflows!Positions(d) \ Workflows!OfKind(d, "source")), T # {},
             \A e \in d.edges : ~(e[1] \notin T /\ e[2] \in T)
      PROVE  FALSE
  <2>1. PICK s : s \in Workflows!OfKind(d, "source")
    <3>1. Workflows!Cardinality(Workflows!OfKind(d, "source")) = 1
      BY DEF Workflows!Valid
    <3>2. Cardinality(Workflows!OfKind(d, "source")) = 1
      BY <3>1 DEF Workflows!Cardinality, Cardinality
    <3>3. Workflows!OfKind(d, "source") # {}
      BY <3>2, FS_EmptySet
    <3> QED  BY <3>3
  <2>2. Workflows!Reachable(d, s) = Workflows!Positions(d)
    BY <2>1 DEF Workflows!Valid
  <2>3. d.edges \subseteq Workflows!Positions(d) \X Workflows!Positions(d)
    BY DEF Workflows!Valid
  <2>4. Workflows!Reachable(d, s) \subseteq Workflows!Positions(d) \ T
    <3>1. s \in Workflows!Positions(d) \ T
      BY <2>1, <1>2 DEF Workflows!OfKind
    <3>2. ASSUME NEW e \in d.edges, e[1] \in Workflows!Positions(d) \ T
          PROVE  e[2] \in Workflows!Positions(d) \ T
      BY <1>2, <2>3, <3>2
    <3> QED  BY <1>1, <3>1, <3>2, ReachedWithin
  <2> QED  BY <1>2, <2>2, <2>4
<1> QED  BY <1>2 DEF Workflows!OnTheRoute

\* Edges go from an earlier kind to a later one, so that of any steps the
\* earliest have no edge from the others.
LEMMA ValidIsAcyclic ==
  ASSUME NEW d, IsDefinition(d), Workflows!Valid(d)
  PROVE  Workflows!Acyclic(d)
<1> DEFINE Order(i) == Workflows!StepOrder[d.steps[i]]
<1>1. ASSUME NEW i \in Workflows!Positions(d) PROVE Order(i) \in Nat
  <2>1. d.steps[i] \in Workflows!Kinds
    BY DEF IsDefinition, Workflows!Positions
  <2> QED  BY <2>1 DEF Workflows!Kinds, Workflows!StepOrder
<1>2. /\ d.edges \subseteq Workflows!Positions(d) \X Workflows!Positions(d)
      /\ \A e \in d.edges : Order(e[1]) < Order(e[2])
  BY DEF Workflows!Valid, Workflows!Ordered
<1> HIDE DEF Order
<1>3. ASSUME NEW T \in SUBSET Workflows!Positions(d), T # {}
      PROVE  \E i \in T : \A e \in Workflows!Into(d, i) : e[1] \notin T
  <2> DEFINE orders == {Order(i) : i \in T}
  <2>1. orders \in SUBSET Nat /\ orders # {}
    BY <1>1, <1>3
  <2>2. PICK n \in orders : \A m \in orders : n <= m
    BY <2>1, LeastNat
  <2>3. PICK i \in T : n = Order(i)
    OBVIOUS
  <2>4. ASSUME NEW e \in Workflows!Into(d, i), e[1] \in T PROVE FALSE
    <3>1. e \in d.edges /\ e[2] = i
      BY <2>4 DEF Workflows!Into
    <3>2. Order(e[1]) < Order(i) /\ Order(i) <= Order(e[1])
      BY <1>2, <2>2, <2>3, <2>4, <3>1
    <3>3. Order(i) \in Nat /\ Order(e[1]) \in Nat
      BY <1>1, <1>3, <2>3, <2>4
    <3> QED  BY <3>2, <3>3
  <2> QED  BY <2>3, <2>4
<1> QED  BY <1>3 DEF Workflows!Acyclic

\* Only what is valid is stored, and only what is stored is executed.
WorkflowInv ==
  /\ Workflows!WorkflowTypeOK
  /\ workflow = "stored" => Workflows!Valid(draft)
  /\ planRun # "none" => workflow = "stored"
  /\ Workflows!CaptionsAreTranscribed
  /\ planRun = "done" => \A i \in DOMAIN published : published[i] # {}

\* The steps that a destination's media went through are those of the plan.
LEMMA FannedOut ==
  ASSUME WorkflowInv, workflow = "stored", Workflows!FanOut, UNCHANGED <<draft, workflow>>
  PROVE  WorkflowInv'
<1>1. IsDefinition(draft) /\ Workflows!Valid(draft)
  BY WorkflowsAssumption DEF WorkflowInv, Workflows!WorkflowTypeOK, IsDefinition
<1>2. Workflows!Has("captions") => Workflows!Has("transcription")
  <2>1. ASSUME Workflows!Has("captions") PROVE Workflows!Has("transcription")
    <3>1. Workflows!OfKind(draft, "captions") # {}
      BY <1>1, <2>1 DEF Workflows!Has, Workflows!PlanSteps, Workflows!OfKind,
                        Workflows!Positions, IsDefinition
    <3>2. Workflows!OfKind(draft, "transcription") # {}
      BY <1>1, <3>1 DEF Workflows!Valid
    <3> QED
      BY <1>1, <3>2 DEF Workflows!Has, Workflows!PlanSteps, Workflows!OfKind,
                        Workflows!Positions, IsDefinition
  <2> QED  BY <2>1
<1>3. Workflows!OfKind(draft, "destination") # {} => Workflows!Has("destination")
  BY <1>1 DEF Workflows!Has, Workflows!PlanSteps, Workflows!OfKind,
              Workflows!Positions, IsDefinition
<1> DEFINE passed == {kind \in {"transform", "transcription", "captions", "destination"} :
                        Workflows!Has(kind)}
<1>4. CASE planRun' = "failed" /\ UNCHANGED published
  BY <1>4 DEF WorkflowInv, Workflows!WorkflowTypeOK, Workflows!CaptionsAreTranscribed,
              Workflows!OfKind, Workflows!Positions
<1>5. CASE /\ planRun' = "done"
           /\ published' = [i \in Workflows!OfKind(draft, "destination") |-> passed]
  <2>1. passed \subseteq Workflows!Kinds
    BY DEF Workflows!Kinds, Workflows!StepOrder
  <2>2. /\ Workflows!OfKind(draft, "destination") # {} => "destination" \in passed
        /\ "captions" \in passed => "transcription" \in passed
    BY <1>2, <1>3
  <2> HIDE DEF passed
  <2>3. Workflows!WorkflowTypeOK'
    BY <1>5, <2>1 DEF WorkflowInv, Workflows!WorkflowTypeOK, Workflows!OfKind,
                      Workflows!Positions
  <2> QED
    BY <1>1, <1>5, <2>2, <2>3 DEF WorkflowInv, Workflows!CaptionsAreTranscribed
<1> QED  BY <1>4, <1>5 DEF Workflows!FanOut

\* Every step of the workflow keeps the invariant.
LEMMA WorkflowStep ==
  ASSUME WorkflowInv, [Workflows!WorkflowNext]_Workflows!workflowVars
  PROVE  WorkflowInv'
<1>1. CASE Workflows!Submit
  BY <1>1 DEF Workflows!Submit, WorkflowInv, Workflows!WorkflowTypeOK,
              Workflows!CaptionsAreTranscribed, Workflows!OfKind, Workflows!Positions
<1>2. CASE Workflows!Execute
  <2>1. CASE planRun' = "transcribing" /\ UNCHANGED published
    BY <1>2, <2>1 DEF Workflows!Execute, WorkflowInv, Workflows!WorkflowTypeOK,
                      Workflows!CaptionsAreTranscribed, Workflows!OfKind, Workflows!Positions
  <2> QED  BY <1>2, <2>1, FannedOut DEF Workflows!Execute
<1>3. CASE Workflows!Resume
  BY <1>3, FannedOut DEF Workflows!Resume, WorkflowInv
<1>4. CASE UNCHANGED Workflows!workflowVars
  BY <1>4 DEF Workflows!workflowVars, WorkflowInv, Workflows!WorkflowTypeOK,
              Workflows!CaptionsAreTranscribed, Workflows!OfKind, Workflows!Positions
<1> QED  BY <1>1, <1>2, <1>3, <1>4 DEF Workflows!WorkflowNext

\* It holds at the beginning.
LEMMA WorkflowBegins == Workflows!WorkflowInit => WorkflowInv
BY DEF Workflows!WorkflowInit, Workflows!WorkflowInitOf, WorkflowInv, Workflows!WorkflowTypeOK,
       Workflows!CaptionsAreTranscribed

\* It says that what is stored is a route.
LEMMA WorkflowHolds == WorkflowInv => Workflows!StoredIsRoute
BY ValidIsRoute, ValidIsAcyclic, WorkflowsAssumption
DEF WorkflowInv, Workflows!WorkflowTypeOK, IsDefinition, Workflows!StoredIsRoute

\* Rows of media are numbered from one on; a visit that is under way is of a
\* file in the folder, and names a medium that is there.
Numbered ==
  /\ IsFiniteSet(assets)
  /\ \A a \in assets : a \in (1..Cardinality(assets)) \X Contents
  /\ jobsMade \subseteq Watchers \X (1..Cardinality(assets)) \X Targets
Visiting ==
  /\ scan.at \in {"idle", "stat", "inspect", "probe", "metadata"}
  /\ scan.at # "idle" => scan.todo \subseteq Watching!Visits
  /\ scan.at \in {"inspect", "probe", "metadata"}
       => scan.visit \in Watching!Visits /\ scan.signature \in 0..WriteBound
  /\ scan.at = "probe" => scan.content \in Contents
  /\ scan.at = "metadata" => scan.media \in 1..Cardinality(assets)
  /\ manual.at \in {"idle", "probe"}
  /\ manual.at = "probe" => manual.content \in Contents
FolderTypes ==
  /\ disk \in [Recordings -> [content : Contents \cup {Watching!NoContent},
                              signature : 0..WriteBound]]
  /\ cursors \in [Watching!Visits -> [state : {"none", "pending", "processed"},
                                      signature : 0..WriteBound, age : 0..Settle]]
  /\ enabled \subseteq Watchers
  /\ faults \in 0..ImportFaults /\ imports \in 0..ManualImports /\ overlapped \in BOOLEAN
WatchInv == Numbered /\ Visiting /\ FolderTypes

\* A new row takes the next number.
LEMMA NextAsset ==
  ASSUME Numbered, Visiting, NEW c \in Contents, Watching!Created(c), UNCHANGED jobsMade
  PROVE  /\ Numbered' /\ Cardinality(assets) \in Nat
         /\ Cardinality(assets') = Cardinality(assets) + 1
         /\ Watching!NewAsset = Cardinality(assets) + 1
<1>1. Watching!NewAsset = Cardinality(assets) + 1
  BY DEF Watching!NewAsset, Watching!Cardinality, Cardinality
<1>2. Cardinality(assets) \in Nat
  BY FS_CardinalityType DEF Numbered
<1> DEFINE a == <<Cardinality(assets) + 1, c>>
<1>3. a \notin assets
  BY <1>2 DEF Numbered
<1>4. assets' = assets \cup {a}
  BY <1>1 DEF Watching!Created
<1> HIDE DEF a
<1>5. IsFiniteSet(assets') /\ Cardinality(assets') = Cardinality(assets) + 1
  BY <1>3, <1>4, FS_AddElement DEF Numbered
<1>6. a \in (1..Cardinality(assets')) \X Contents
  BY <1>2, <1>5 DEF a
<1>7. \A i \in 1..Cardinality(assets) : i \in 1..Cardinality(assets')
  BY <1>2, <1>5
<1>8. Numbered'
  BY <1>4, <1>5, <1>6, <1>7 DEF Numbered
<1> QED  BY <1>1, <1>2, <1>5, <1>8

\* There is a last write, of which the next is the successor.
LEMMA LastWrite ==
  ASSUME FolderTypes, NEW f \in Recordings
  PROVE  Watching!writes \in 0..WriteBound
<1> DEFINE later == {WriteBound - disk[g].signature : g \in Recordings}
<1>0. \A g \in Recordings : disk[g].signature \in 0..WriteBound
  BY DEF FolderTypes
<1>1. later \in SUBSET Nat /\ later # {}
  BY <1>0, WatchingAssumption
<1>2. PICK n \in later : \A m \in later : n <= m
  BY <1>1, LeastNat
<1>3. PICK g \in Recordings : n = WriteBound - disk[g].signature
  OBVIOUS
<1>4. ASSUME NEW h \in Recordings PROVE disk[h].signature <= disk[g].signature
  <2>1. WriteBound - disk[h].signature \in later
    OBVIOUS
  <2>2. WriteBound - disk[g].signature <= WriteBound - disk[h].signature
    BY <1>2, <1>3, <2>1
  <2> QED  BY <1>0, <2>2, WatchingAssumption
<1> QED  BY <1>0, <1>4 DEF Watching!writes

\* What a step that leaves the rows alone has to show.
LEMMA SameRows ==
  ASSUME WatchInv, UNCHANGED <<assets, jobsMade>>, FolderTypes', Visiting'
  PROVE  WatchInv'
BY DEF WatchInv, Numbered

\* A cursor that is written has its type.
LEMMA CursorSet ==
  ASSUME FolderTypes, NEW v \in Watching!Visits, NEW state \in {"pending", "processed"},
         NEW signature \in 0..WriteBound, NEW age \in 0..Settle,
         Watching!CursorOf(v, state, signature, age)
  PROVE  cursors' \in [Watching!Visits -> [state : {"none", "pending", "processed"},
                                           signature : 0..WriteBound, age : 0..Settle]]
BY DEF FolderTypes, Watching!CursorOf

\* Every step of the watched folders keeps their types.
LEMMA WatchTypeStep ==
  ASSUME WatchInv, [Watching!WatchNext]_Watching!watchVars
  PROVE  WatchInv'
<1>0. Numbered /\ Visiting /\ FolderTypes /\ Cardinality(assets) \in Nat
  BY FS_CardinalityType DEF WatchInv, Numbered
<1>1. CASE Watching!BeginScan
  <2>1. enabled \X Recordings \subseteq Watching!Visits
    BY <1>0 DEF FolderTypes, Watching!Visits
  <2>2. Visiting'
    BY <1>0, <1>1, <2>1 DEF Watching!BeginScan, Visiting
  <2> QED  BY <1>0, <1>1, <2>2, SameRows DEF Watching!BeginScan, FolderTypes
<1>2. ASSUME NEW v \in Watching!Visits, Watching!Stat(v) PROVE WatchInv'
  <2>1. disk[v[2]] \in [content : Contents \cup {Watching!NoContent}, signature : 0..WriteBound]
    BY <1>0 DEF FolderTypes, Watching!Visits
  <2>2. scan.todo \ {v} \subseteq Watching!Visits /\ scan.at = "stat"
    BY <1>0, <1>2 DEF Watching!Stat, Visiting
  <2>3. Visiting'
    BY <1>0, <1>2, <2>1, <2>2 DEF Watching!Stat, Visiting, Watching!NoScan
  <2>4. FolderTypes'
    <3>1. CASE UNCHANGED cursors
      BY <1>0, <1>2, <3>1 DEF Watching!Stat, FolderTypes
    <3>2. CASE Watching!CursorOf(v, "pending", disk[v[2]].signature, 0)
      BY <1>0, <1>2, <2>1, <3>2, CursorSet, WatchingAssumption DEF Watching!Stat, FolderTypes
    <3> QED  BY <1>2, <3>1, <3>2 DEF Watching!Stat
  <2> QED  BY <1>2, <2>3, <2>4, SameRows DEF Watching!Stat
<1>3. CASE Watching!Inspect
  <2>1. scan.at = "inspect" /\ scan.visit \in Watching!Visits /\ scan.todo \subseteq Watching!Visits
        /\ scan.signature \in 0..WriteBound /\ manual' = manual /\ assets' = assets
    BY <1>0, <1>3 DEF Watching!Inspect, Visiting
  <2> DEFINE c == disk[scan.visit[2]].content
  <2>2. c \in Contents \cup {Watching!NoContent}
    BY <1>0, <2>1 DEF FolderTypes, Watching!Visits
  <2>3. \A a \in Watching!Known(c) : a \in 1..Cardinality(assets)
    BY <1>0 DEF Watching!Known, Numbered
  <2>4. Visiting'
    BY <1>0, <1>3, <2>1, <2>2, <2>3
    DEF Watching!Inspect, Visiting, Watching!Scanned, Watching!NoScan
  <2>5. FolderTypes'
    BY <1>0, <1>3 DEF Watching!Inspect, FolderTypes
  <2> QED  BY <1>3, <2>4, <2>5, SameRows DEF Watching!Inspect
<1>4. CASE Watching!Probe
  <2>1. /\ scan.at = "probe" /\ scan.content \in Contents /\ scan.todo \subseteq Watching!Visits
        /\ scan.visit \in Watching!Visits /\ scan.signature \in 0..WriteBound
        /\ UNCHANGED <<jobsMade, manual>> /\ Watching!Created(scan.content)
    BY <1>0, <1>4 DEF Watching!Probe, Visiting
  <2>2. /\ Numbered' /\ Cardinality(assets') = Cardinality(assets) + 1
        /\ Watching!NewAsset \in 1..Cardinality(assets')
    BY <1>0, <2>1, NextAsset
  <2>3. Visiting'
    BY <1>0, <1>4, <2>1, <2>2 DEF Watching!Probe, Visiting
  <2> QED  BY <1>0, <1>4, <2>2, <2>3 DEF Watching!Probe, FolderTypes, WatchInv
<1>5. CASE Watching!Execute
  <2>1. /\ scan.at = "metadata" /\ scan.media \in 1..Cardinality(assets)
        /\ scan.todo \subseteq Watching!Visits /\ scan.visit \in Watching!Visits
        /\ scan.signature \in 0..WriteBound /\ UNCHANGED <<manual, assets>>
    BY <1>0, <1>5 DEF Watching!Execute, Visiting
  <2>2. cursors[scan.visit].age \in 0..Settle
    BY <1>0, <2>1 DEF FolderTypes
  <2>3. FolderTypes'
    BY <1>0, <1>5, <2>1, <2>2, CursorSet DEF Watching!Execute, FolderTypes
  <2>4. Visiting'
    BY <1>0, <1>5, <2>1 DEF Watching!Execute, Watching!Scanned, Watching!NoScan, Visiting
  <2>5. Numbered'
    BY <1>0, <1>5, <2>1 DEF Watching!Execute, Watching!Dispatched, Numbered, Watching!Visits
  <2> QED  BY <2>3, <2>4, <2>5 DEF WatchInv
<1>6. CASE Watching!ImportFails
  <2>1. scan.at # "idle" /\ scan.todo \subseteq Watching!Visits /\ manual' = manual
        /\ assets' = assets
    BY <1>0, <1>6 DEF Watching!ImportFails, Visiting
  <2>2. Visiting'
    BY <1>0, <1>6, <2>1 DEF Watching!ImportFails, Watching!Scanned, Watching!NoScan, Visiting
  <2> QED
    BY <1>0, <1>6, <2>2, SameRows, WatchingAssumption DEF Watching!ImportFails, FolderTypes
<1>7. CASE Watching!Tick
  <2>1. cursors' \in [Watching!Visits -> [state : {"none", "pending", "processed"},
                                          signature : 0..WriteBound, age : 0..Settle]]
    <3>1. ASSUME NEW v \in Watching!Visits, cursors[v].state = "pending", cursors[v].age < Settle
          PROVE  [cursors[v] EXCEPT !.age = @ + 1] \in
                   [state : {"none", "pending", "processed"}, signature : 0..WriteBound,
                    age : 0..Settle]
      BY <1>0, <3>1, WatchingAssumption DEF FolderTypes
    <3> QED  BY <1>0, <1>7, <3>1 DEF Watching!Tick, FolderTypes
  <2>2. FolderTypes'
    BY <1>0, <1>7, <2>1 DEF Watching!Tick, FolderTypes
  <2> QED  BY <1>0, <1>7, <2>2, SameRows DEF Watching!Tick, Visiting
<1>8. CASE Watching!Die
  <2>1. Visiting' /\ FolderTypes'
    BY <1>0, <1>8, WatchingAssumption
    DEF Watching!Die, Visiting, FolderTypes, Watching!NoScan, Watching!NoImport
  <2>2. jobsMade' \subseteq Watchers \X (1..Cardinality(assets)) \X Targets
    <3>1. ASSUME scan.at = "metadata", NEW made \in SUBSET Targets,
                 Watching!Dispatched(scan.visit[1], scan.media, made)
          PROVE  jobsMade' \subseteq Watchers \X (1..Cardinality(assets)) \X Targets
      <4>1. scan.media \in 1..Cardinality(assets) /\ scan.visit[1] \in Watchers
        BY <1>0, <3>1 DEF Visiting, Watching!Visits
      <4> QED  BY <1>0, <3>1, <4>1 DEF Watching!Dispatched, Numbered
    <3> QED  BY <1>0, <1>8, <3>1 DEF Watching!Die, Numbered
  <2> QED  BY <1>0, <1>8, <2>1, <2>2 DEF Watching!Die, Numbered, WatchInv
<1>9. ASSUME NEW c \in Contents, Watching!ManualImport(c) PROVE WatchInv'
  <2>1. Visiting'
    BY <1>0, <1>9 DEF Watching!ManualImport, Visiting
  <2>2. imports' \in 0..ManualImports
    BY <1>0, <1>9, WatchingAssumption DEF Watching!ManualImport, FolderTypes
  <2>3. overlapped' \in BOOLEAN
    BY <1>0, <1>9 DEF Watching!ManualImport, FolderTypes
  <2>4. FolderTypes'
    BY <1>0, <1>9, <2>2, <2>3 DEF Watching!ManualImport, FolderTypes
  <2> QED  BY <1>9, <2>1, <2>4, SameRows DEF Watching!ManualImport
<1>10. CASE Watching!ManualImported
  <2>1. /\ manual.content \in Contents /\ Watching!Created(manual.content)
        /\ UNCHANGED <<jobsMade, scan>> /\ manual' = Watching!NoImport
    BY <1>0, <1>10 DEF Watching!ManualImported, Visiting
  <2>2. Numbered' /\ Cardinality(assets') = Cardinality(assets) + 1
    BY <1>0, <2>1, NextAsset
  <2>3. Visiting'
    BY <1>0, <2>1, <2>2 DEF Visiting, Watching!NoImport
  <2> QED  BY <1>0, <1>10, <2>2, <2>3 DEF Watching!ManualImported, FolderTypes, WatchInv
<1>11. ASSUME NEW f \in Recordings, NEW c \in Contents \cup {Watching!NoContent},
              Watching!Write(f, c)
       PROVE  WatchInv'
  <2>1. Watching!writes + 1 \in 0..WriteBound
    BY <1>0, <1>11, LastWrite, WatchingAssumption DEF Watching!Write
  <2>2. disk' \in [Recordings -> [content : Contents \cup {Watching!NoContent},
                                  signature : 0..WriteBound]]
    BY <1>0, <1>11, <2>1 DEF Watching!Write, FolderTypes
  <2>3. FolderTypes'
    BY <1>0, <1>11, <2>2 DEF Watching!Write, FolderTypes
  <2> QED  BY <1>0, <1>11, <2>3, SameRows DEF Watching!Write, Visiting
<1>12. ASSUME NEW w \in Watchers, Watching!Switch(w) PROVE WatchInv'
  BY <1>0, <1>12, SameRows DEF Watching!Switch, FolderTypes, Visiting
<1>13. CASE UNCHANGED Watching!watchVars
  BY <1>0, <1>13, SameRows DEF Watching!watchVars, FolderTypes, Visiting
<1> QED
  BY <1>1, <1>2, <1>3, <1>4, <1>5, <1>6, <1>7, <1>8, <1>9, <1>10, <1>11, <1>12, <1>13
  DEF Watching!WatchNext, Watching!ScanStep

\* They begin with their types.
LEMMA WatchBegins == Watching!WatchInit => WatchInv
<1> SUFFICES ASSUME Watching!WatchInit PROVE WatchInv
  OBVIOUS
<1>1. IsFiniteSet({}) /\ Cardinality({}) = 0
  BY FS_EmptySet
<1>2. Numbered /\ Visiting
  BY <1>1 DEF Watching!WatchInit, Watching!NoScan, Watching!NoImport, Numbered, Visiting
<1>3. FolderTypes
  <2>1. 0 \in 0..WriteBound /\ 0 \in 0..Settle /\ 0 \in 0..ImportFaults /\ 0 \in 0..ManualImports
    BY WatchingAssumption
  <2>2. Watching!NoCursor \in [state : {"none", "pending", "processed"},
                              signature : 0..WriteBound, age : 0..Settle]
    BY <2>1 DEF Watching!NoCursor
  <2>3. [content |-> Watching!NoContent, signature |-> 0] \in
          [content : Contents \cup {Watching!NoContent}, signature : 0..WriteBound]
    BY <2>1
  <2> QED  BY <2>1, <2>2, <2>3 DEF Watching!WatchInit, FolderTypes
<1> QED  BY <1>2, <1>3 DEF WatchInv

\* The invariant gives the variables their types.
LEMMA WatchHolds == WatchInv => Watching!WatchTypeOK
<1>1. Watching!Cardinality(assets) = Cardinality(assets)
  BY DEF Watching!Cardinality, Cardinality
<1> QED
  BY <1>1 DEF WatchInv, Numbered, Visiting, FolderTypes, Watching!WatchTypeOK

-----------------------------------------------------------------------------
(* ModelManager                                                            *)

\* One call at a time is between the start of a download and its answer, and
\* the entry of the model in 'active' is there as long; whoever is about to
\* remove the target found it bad, whoever is about to describe it made it or
\* found it good.
Fetching == {"check", "clear", "clearManifest", "fetch", "rename", "describe"}
ModelInv ==
  /\ Models!ModelTypeOK
  /\ \A a \in ModelCalls : modelCalls[a] \in Fetching => downloading
  /\ \A a, b \in ModelCalls :
       modelCalls[a] \in Fetching /\ modelCalls[b] \in Fetching => a = b
  /\ \A a \in ModelCalls : modelCalls[a] = "clear" => target # "good"
  /\ \A a \in ModelCalls : modelCalls[a] \in {"describe", "describeVerified"} => target # "bad"
  /\ Models!InstalledStays

\* LocalWhisperModelManager: no call under way takes an installed model away.
LEMMA ModelStep ==
  ASSUME ModelInv, [Models!ModelNext]_Models!modelVars
  PROVE  ModelInv'
<1> USE DEF Models!Step, Models!Fails, Fetching, ModelInv, Models!InstalledStays, Models!ModelTypeOK
<1>1. ASSUME NEW c \in ModelCalls, Models!Download(c) PROVE ModelInv'
  BY <1>1 DEF Models!Download
<1>2. ASSUME NEW c \in ModelCalls, Models!CheckTarget(c) PROVE ModelInv'
  <2>1. modelCalls' = [modelCalls EXCEPT ![c] = "fetch"]
       \/ (modelCalls' = [modelCalls EXCEPT ![c] = "describe"] /\ target = "good")
       \/ (modelCalls' = [modelCalls EXCEPT ![c] = "clear"] /\ target = "bad")
    BY <1>2 DEF Models!CheckTarget
  <2> QED  BY <1>2, <2>1 DEF Models!CheckTarget
<1>3. ASSUME NEW c \in ModelCalls, Models!ClearTarget(c) PROVE ModelInv'
  BY <1>3 DEF Models!ClearTarget
<1>4. ASSUME NEW c \in ModelCalls, Models!ClearManifest(c) PROVE ModelInv'
  BY <1>4 DEF Models!ClearManifest
<1>5. ASSUME NEW c \in ModelCalls, Models!Fetched(c) PROVE ModelInv'
  BY <1>5 DEF Models!Fetched
<1>6. ASSUME NEW c \in ModelCalls, Models!DownloadFails(c) PROVE ModelInv'
  BY <1>6 DEF Models!DownloadFails
<1>7. ASSUME NEW c \in ModelCalls, Models!Install(c) PROVE ModelInv'
  <2>1. modelCalls[c] = "rename" /\ downloading
    BY <1>7 DEF Models!Install
  <2>2. CASE partial
    <3>1. /\ target' = "good" /\ partial' = FALSE
          /\ modelCalls' = [modelCalls EXCEPT ![c] = "describe"]
          /\ UNCHANGED <<manifest, downloading, installed, modelFaults>>
      BY <1>7, <2>2 DEF Models!Install
    <3> QED  BY <2>1, <3>1
  <2>3. CASE ~partial
    <3>1. Models!Fails(c)
      BY <1>7, <2>3 DEF Models!Install
    <3> QED  BY <2>1, <3>1 DEF Models!Fails
  <2> QED  BY <2>2, <2>3
<1>8. ASSUME NEW c \in ModelCalls, Models!Describe(c) PROVE ModelInv'
  BY <1>8 DEF Models!Describe
<1>9. ASSUME NEW c \in ModelCalls, Models!VerifyModel(c) PROVE ModelInv'
  <2>1. modelCalls' = [modelCalls EXCEPT ![c] = "idle"]
       \/ (modelCalls' = [modelCalls EXCEPT ![c] = "describeVerified"] /\ target = "good")
    BY <1>9 DEF Models!VerifyModel
  <2> QED  BY <1>9, <2>1 DEF Models!VerifyModel
<1>10. ASSUME NEW c \in ModelCalls, Models!DeleteModel(c) PROVE ModelInv'
  BY <1>10 DEF Models!DeleteModel
<1>11. ASSUME NEW c \in ModelCalls, Models!RemoveModel(c) PROVE ModelInv'
  BY <1>11 DEF Models!RemoveModel
<1>12. CASE Models!RestartManager
  <2>1. modelFaults' \in 0..ModelFaults
    BY <1>12, ModelsAssumption DEF Models!RestartManager
  <2> QED  BY <1>12, <2>1 DEF Models!RestartManager
<1>13. CASE Models!DamageModel
  <2>1. modelFaults' \in 0..ModelFaults
    BY <1>13, ModelsAssumption DEF Models!DamageModel
  <2> QED  BY <1>13, <2>1 DEF Models!DamageModel
<1>14. CASE UNCHANGED Models!modelVars
  BY <1>14 DEF Models!modelVars
<1> QED
  BY <1>1, <1>2, <1>3, <1>4, <1>5, <1>6, <1>7, <1>8, <1>9, <1>10, <1>11, <1>12, <1>13, <1>14
  DEF Models!ModelNext

\* A first start knows no model and no call.
LEMMA ModelBegins == Models!ModelInit => ModelInv
<1> SUFFICES ASSUME Models!ModelInit PROVE ModelInv
  OBVIOUS
<1> USE DEF Models!ModelInit
<1>1. 0 \in 0..ModelFaults
  BY ModelsAssumption
<1>2. \A a \in ModelCalls : modelCalls[a] = "idle"
  OBVIOUS
<1>3. Models!ModelTypeOK
  BY <1>1 DEF Models!ModelTypeOK
<1> QED  BY <1>2, <1>3 DEF ModelInv, Models!InstalledStays, Fetching

-----------------------------------------------------------------------------
(* ClipPolling                                                             *)

\* The clock is within its bound; the other bounds are not needed here.
ClipKinds ==
  /\ now \in 0..Horizon
  /\ created \in [Clips -> [at : Int, listed : Int]]
  /\ cursor \in Int /\ request \in [at : Int, listing : SUBSET Clips, whole : BOOLEAN]
  /\ seen \subseteq Clips /\ polled \in [first : Int, last : Int, whole : BOOLEAN]
\* A clip is listed after it was created, and in time.
ListedInTime ==
  \A c \in Clips :
    /\ created[c].at = -1 => created[c].listed = -1
    /\ created[c].listed # -1 => created[c].listed <= created[c].at + Latency
    /\ created[c].at # -1 /\ created[c].listed = -1 => now <= created[c].at + Latency
\* A poll is answered in time, and the window that follows it reaches back so
\* far that what it leaves out was listed when the poll asked.
Polled ==
  /\ request.at # -1 => request.at \in 0..now /\ now <= request.at + CallTicks
  /\ polled.first = -1 <=> cursor = Horizon + 1
  /\ polled.first # -1 => polled.last \in 0..now /\ cursor <= polled.last - Latency
\* What was listed before the poll that is under way asked is seen, or comes
\* with its answer, if the windows so far fitted in a page.
FirstAsked == IF polled.first = -1 THEN request.at ELSE polled.first
Arriving ==
  request.at # -1 /\ request.whole /\ polled.whole =>
    \A c \in Clips :
      /\ created[c].listed # -1 /\ created[c].listed < request.at
      /\ created[c].at >= FirstAsked - Overlap
      => c \in seen \/ c \in request.listing
ClipInv ==
  ClipKinds /\ ListedInTime /\ Polled /\ Arriving /\ ClipSource!ClipsArrive

\* Time, the platform and every poll, answered or failed, keep it.
LEMMA ClipStep ==
  ASSUME ClipInv, [ClipSource!ClipNext]_ClipSource!clipVars
  PROVE  ClipInv'
<1> USE ClipsAssumption DEF ClipSource!Unset, ClipSource!NoRequest, ClipSource!NoCursor
<1>a. /\ now \in Int /\ now >= 0 /\ now <= Horizon /\ Horizon \in Int
      /\ created \in [Clips -> [at : Int, listed : Int]]
      /\ \A c \in Clips : created[c].at \in Int /\ created[c].listed \in Int
      /\ cursor \in Int /\ request.at \in Int /\ polled.first \in Int /\ polled.last \in Int
      /\ request \in [at : Int, listing : SUBSET Clips, whole : BOOLEAN] /\ request.listing \subseteq Clips
      /\ polled \in [first : Int, last : Int, whole : BOOLEAN] /\ seen \subseteq Clips
      /\ ClipKinds /\ ListedInTime /\ Polled /\ Arriving /\ ClipSource!ClipsArrive
  BY DEF ClipInv, ClipKinds
<1>1. CASE ClipSource!ClipTick
  <2>1. /\ now' = now + 1 /\ UNCHANGED <<created, cursor, request, seen, polled>>
        /\ now < Horizon /\ (request.at # -1 => now < request.at + CallTicks)
        /\ \A c \in Clips : created[c].at # -1 /\ created[c].listed = -1
                              => now < created[c].at + Latency
    BY <1>1 DEF ClipSource!ClipTick
  <2>2. ClipKinds'
    BY <1>a, <2>1 DEF ClipKinds
  <2>3. ListedInTime'
    BY <1>a, <2>1 DEF ListedInTime
  <2>4. Polled'
    BY <1>a, <2>1 DEF Polled
  <2>5. Arriving' /\ ClipSource!ClipsArrive'
    BY <1>a, <2>1 DEF Arriving, FirstAsked, ClipSource!ClipsArrive
  <2> QED  BY <2>2, <2>3, <2>4, <2>5 DEF ClipInv
<1>2. ASSUME NEW c \in Clips, ClipSource!CreateClip(c) \/ ClipSource!ListClip(c) PROVE ClipInv'
  <2>1. PICK clip \in [at : Int, listed : Int] :
          /\ created' = [created EXCEPT ![c] = clip]
          /\ \/ /\ created[c].at = -1 /\ clip.at = now /\ clip.listed = created[c].listed
             \/ /\ created[c].at # -1 /\ created[c].listed = -1
                /\ clip.at = created[c].at /\ clip.listed = now
    <3>1. PICK before \in [at : Int, listed : Int] : before = created[c]
      BY <1>a
    <3>2. /\ [before EXCEPT !.at = now] \in [at : Int, listed : Int]
          /\ [before EXCEPT !.listed = now] \in [at : Int, listed : Int]
          /\ [before EXCEPT !.at = now].at = now /\ [before EXCEPT !.at = now].listed = before.listed
          /\ [before EXCEPT !.listed = now].at = before.at /\ [before EXCEPT !.listed = now].listed = now
      BY <1>a
    <3>3. CASE ClipSource!CreateClip(c)
      BY <3>1, <3>2, <3>3 DEF ClipSource!CreateClip
    <3>4. CASE ClipSource!ListClip(c)
      BY <3>1, <3>2, <3>4 DEF ClipSource!ListClip
    <3> QED  BY <1>2, <3>3, <3>4
  <2>2. UNCHANGED <<now, cursor, request, seen, polled>>
    BY <1>2 DEF ClipSource!CreateClip, ClipSource!ListClip
  <2>3. /\ created' \in [Clips -> [at : Int, listed : Int]] /\ created'[c] = clip
        /\ \A d \in Clips : d # c => created'[d] = created[d]
        /\ clip.at \in Int /\ clip.listed \in Int
    BY <1>a, <2>1
  <2>4. ClipKinds'
    BY <1>a, <2>2, <2>3 DEF ClipKinds
  <2>5. ListedInTime'
    BY <1>a, <2>1, <2>2, <2>3 DEF ListedInTime
  <2>6. Polled'
    BY <1>a, <2>2 DEF Polled
  <2>7. clip.listed = -1 \/ clip.listed = now
    BY <1>a, <2>1 DEF ListedInTime
  <2>8. Arriving'
    BY <1>a, <2>2, <2>3, <2>7 DEF Arriving, FirstAsked, Polled
  <2>9. ClipSource!ClipsArrive'
    BY <1>a, <2>2, <2>3, <2>7 DEF ClipSource!ClipsArrive, Polled
  <2> QED  BY <2>4, <2>5, <2>6, <2>8, <2>9 DEF ClipInv
<1>3. CASE ClipSource!AskClips
  <2>1. PICK page \in SUBSET ClipSource!InWindow :
          request' = [at |-> now, listing |-> page, whole |-> page = ClipSource!InWindow]
    BY <1>3 DEF ClipSource!AskClips
  <2>2. UNCHANGED <<now, created, cursor, seen, polled>>
    BY <1>3 DEF ClipSource!AskClips
  <2>3. /\ request'.at = now /\ request'.whole = (page = ClipSource!InWindow)
        /\ request'.listing = page /\ page \subseteq Clips
    BY <2>1 DEF ClipSource!InWindow
  <2>4. ClipKinds'
    BY <1>a, <2>1, <2>2, <2>3 DEF ClipKinds
  <2>5. ListedInTime' /\ ClipSource!ClipsArrive'
    BY <1>a, <2>2 DEF ListedInTime, ClipSource!ClipsArrive
  <2>6. Polled'
    BY <1>a, <2>2, <2>3 DEF Polled
  <2>7. ASSUME NEW c \in Clips, polled.whole, created[c].listed # -1, created[c].listed < now,
               created[c].at >= (IF polled.first = -1 THEN now ELSE polled.first) - Overlap
        PROVE  c \in seen \/ c \in ClipSource!InWindow
    <3>1. CASE polled.first = -1
      BY <1>a, <2>7, <3>1 DEF Polled, ClipSource!InWindow, ClipSource!WindowStart
    <3>2. CASE polled.first # -1 /\ created[c].at >= cursor
      BY <1>a, <2>7, <3>2 DEF Polled, ClipSource!InWindow, ClipSource!WindowStart
    <3>3. CASE polled.first # -1 /\ created[c].at < cursor
      <4>1. created[c].listed < polled.last
        BY <1>a, <2>7, <3>3 DEF Polled, ListedInTime
      <4> QED
        BY <1>a, <2>7, <3>3, <4>1 DEF ClipSource!ClipsArrive
    <3> QED  BY <1>a, <3>1, <3>2, <3>3
  <2>8. Arriving'
    BY <1>a, <2>2, <2>3, <2>7 DEF Arriving, FirstAsked
  <2> QED  BY <2>4, <2>5, <2>6, <2>8 DEF ClipInv
<1>4. CASE ClipSource!ClipsPolled
  <2>1. /\ request.at # -1 /\ seen' = seen \cup request.listing /\ cursor' = now - Overlap
        /\ polled' = [first |-> IF polled.first = -1 THEN request.at ELSE polled.first,
                      last |-> request.at, whole |-> polled.whole /\ request.whole]
        /\ request' = [at |-> -1, listing |-> {}, whole |-> TRUE] /\ UNCHANGED <<now, created>>
    BY <1>4 DEF ClipSource!ClipsPolled, ClipSource!NextWindow
  <2>2. polled'.first = FirstAsked /\ polled'.last = request.at /\ request'.at = -1
        /\ polled'.whole = (polled.whole /\ request.whole)
    BY <2>1 DEF FirstAsked
  <2>3. ClipKinds'
    BY <1>a, <2>1 DEF ClipKinds
  <2>4. ListedInTime'
    BY <1>a, <2>1 DEF ListedInTime
  <2>5. Polled'
    BY <1>a, <2>1, <2>2 DEF Polled, FirstAsked
  <2>6. Arriving'
    BY <2>2 DEF Arriving
  <2>7. ClipSource!ClipsArrive'
    BY <1>a, <2>1, <2>2 DEF Arriving, ClipSource!ClipsArrive
  <2> QED  BY <2>3, <2>4, <2>5, <2>6, <2>7 DEF ClipInv
<1>5. CASE ClipSource!ClipPollFails
  <2>1. /\ request' = [at |-> -1, listing |-> {}, whole |-> TRUE]
        /\ UNCHANGED <<now, created, cursor, polled>>
        /\ seen \subseteq seen' /\ seen' \subseteq Clips
    BY <1>5, <1>a DEF ClipSource!ClipPollFails
  <2>2. request'.at = -1
    BY <2>1
  <2>3. ClipKinds'
    BY <1>a, <2>1 DEF ClipKinds
  <2>4. ListedInTime' /\ Polled' /\ Arriving'
    BY <1>a, <2>1, <2>2 DEF ListedInTime, Polled, Arriving
  <2>5. ClipSource!ClipsArrive'
    BY <1>a, <2>1 DEF ClipSource!ClipsArrive
  <2> QED  BY <2>3, <2>4, <2>5 DEF ClipInv
<1>6. CASE UNCHANGED ClipSource!clipVars
  BY <1>6, <1>a DEF ClipSource!clipVars, ClipInv, ClipKinds, ListedInTime, Polled, Arriving,
                    FirstAsked, ClipSource!ClipsArrive
<1> QED
  BY <1>1, <1>2, <1>3, <1>4, <1>5, <1>6 DEF ClipSource!ClipNext

\* Nothing is created and no poll has asked at first.
LEMMA ClipBegins ==
  ASSUME ClipSource!ClipInit
  PROVE  ClipInv
<1> USE ClipsAssumption DEF ClipSource!Unset, ClipSource!NoRequest, ClipSource!NoCursor
<1>1. /\ now = 0 /\ seen = {} /\ cursor = Horizon + 1
      /\ created = [c \in Clips |-> [at |-> -1, listed |-> -1]]
      /\ request = [at |-> -1, listing |-> {}, whole |-> TRUE]
      /\ polled = [first |-> -1, last |-> -1, whole |-> TRUE]
  BY DEF ClipSource!ClipInit
<1>2. /\ request.at = -1 /\ polled.first = -1 /\ polled.last = -1
      /\ \A c \in Clips : created[c].at = -1 /\ created[c].listed = -1
  BY <1>1
<1>3. ClipKinds
  BY <1>1 DEF ClipKinds
<1> QED
  BY <1>1, <1>2, <1>3 DEF ClipInv, ListedInTime, Polled, Arriving, ClipSource!ClipsArrive

\* The variables of the clip source keep their types.
LEMMA ClipTypes ==
  /\ ClipSource!ClipInit => ClipSource!ClipTypeOK
  /\ ClipSource!ClipTypeOK /\ [ClipSource!ClipNext]_ClipSource!clipVars => ClipSource!ClipTypeOK'
<1> USE ClipsAssumption DEF ClipSource!ClipTypeOK, ClipSource!Ticks, ClipSource!Unset,
                            ClipSource!NoCursor, ClipSource!NoRequest
<1>1. ClipSource!ClipInit => ClipSource!ClipTypeOK
  BY DEF ClipSource!ClipInit
<1>2. ClipSource!ClipTypeOK /\ ClipSource!ClipTick => ClipSource!ClipTypeOK'
  BY DEF ClipSource!ClipTick
<1>3. ASSUME NEW c \in Clips, ClipSource!ClipTypeOK,
             ClipSource!CreateClip(c) \/ ClipSource!ListClip(c)
      PROVE  ClipSource!ClipTypeOK'
  BY <1>3 DEF ClipSource!CreateClip, ClipSource!ListClip
<1>4. ClipSource!ClipTypeOK /\ ClipSource!AskClips => ClipSource!ClipTypeOK'
  BY DEF ClipSource!AskClips, ClipSource!InWindow
<1>5. ClipSource!ClipTypeOK /\ ClipSource!ClipsPolled => ClipSource!ClipTypeOK'
  BY DEF ClipSource!ClipsPolled, ClipSource!NextWindow
<1>6. ClipSource!ClipTypeOK /\ ClipSource!ClipPollFails => ClipSource!ClipTypeOK'
  BY DEF ClipSource!ClipPollFails
<1>7. ClipSource!ClipTypeOK /\ UNCHANGED ClipSource!clipVars => ClipSource!ClipTypeOK'
  BY DEF ClipSource!clipVars
<1> QED
  BY <1>1, <1>2, <1>3, <1>4, <1>5, <1>6, <1>7 DEF ClipSource!ClipNext

-----------------------------------------------------------------------------
(* ServerLifetime                                                          *)

\* A child belongs to a running handler and a handler to a running job; a job
\* that waits has an attempt left; once stop() of the job runner is through no
\* handler is left, and no poll once the database is closed.
LifetimeInv ==
  /\ Lifetime!LifetimeTypeOK
  /\ \A j \in ChildJobs :
       /\ child[j].state # "none" => handlers[j] = "running"
       /\ handlers[j] # "none" => work[j].status = "running"
       /\ work[j].status \in {"queued", "waiting"} => work[j].attempts < ChildAttempts
       /\ closing \in {"polls", "connections", "closed"} => handlers[j] = "none"
  /\ closing \in {"connections", "closed"} => ~polling

Row == [status : {"queued", "waiting", "running", "succeeded", "failed", "cancelled"},
          attempts : 0..ChildAttempts, cancelRequested : BOOLEAN]

\* cancelJob changes one row.
LEMMA ChangedRow ==
  ASSUME Lifetime!LifetimeTypeOK, NEW j \in ChildJobs,
         NEW s \in {"queued", "waiting", "running", "succeeded", "failed", "cancelled"},
         work' = [work EXCEPT ![j].cancelRequested = TRUE, ![j].status = s]
  PROVE  /\ work' \in [ChildJobs -> Row]
         /\ \A i \in ChildJobs : i # j => work'[i] = work[i]
         /\ work'[j].attempts = work[j].attempts /\ work'[j].status = s
<1>0. work \in [ChildJobs -> Row]
  BY DEF Row, Lifetime!LifetimeTypeOK
<1>1. work[j] \in Row
  BY <1>0
<1>2. work'[j] = [work[j] EXCEPT !.cancelRequested = TRUE, !.status = s]
  BY <1>0
<1>3. work'[j] \in Row /\ work'[j].attempts = work[j].attempts /\ work'[j].status = s
  <2> DEFINE row == work[j]
  <2>0. row \in Row
    BY <1>1
  <2> HIDE DEF row
  <2>1. [row EXCEPT !.cancelRequested = TRUE, !.status = s] \in Row
        /\ [row EXCEPT !.cancelRequested = TRUE, !.status = s].attempts = row.attempts
        /\ [row EXCEPT !.cancelRequested = TRUE, !.status = s].status = s
    BY <2>0 DEF Row
  <2> QED  BY <1>2, <2>1 DEF row
<1>4. \A i \in ChildJobs : i # j => work'[i] = work[i]
  BY <1>0
<1>5. work' = [work EXCEPT ![j] = work'[j]]
  BY <1>0
<1> QED  BY <1>0, <1>3, <1>4, <1>5

\* The runner settles a job whose handler ended: it is neither queued nor
\* running, and waits only while it has attempts.
LEMMA SettledChild ==
  ASSUME Lifetime!LifetimeTypeOK, NEW j \in ChildJobs, NEW error, Lifetime!SettleChild(j, error)
  PROVE  /\ handlers' = [handlers EXCEPT ![j] = "none"]
         /\ work' \in [ChildJobs -> Row]
         /\ \A i \in ChildJobs : i # j => work'[i] = work[i]
         /\ work'[j].status \in {"waiting", "succeeded", "failed", "cancelled"}
         /\ work'[j].status = "waiting" => work'[j].attempts < ChildAttempts
<1>1. PICK s \in {"waiting", "succeeded", "failed", "cancelled"} :
        /\ work' = [work EXCEPT ![j].status = s]
        /\ s = "waiting" => work[j].attempts < ChildAttempts
  BY DEF Lifetime!SettleChild
<1> QED  BY <1>1 DEF Lifetime!SettleChild, Lifetime!LifetimeTypeOK, Row

\* close() and the runners keep it, whenever children end.
LEMMA LifetimeStep ==
  ASSUME LifetimeInv, [Lifetime!LifetimeNext]_Lifetime!lifetimeVars
  PROVE  LifetimeInv'
<1> USE DEF LifetimeInv, Lifetime!LifetimeTypeOK, Lifetime!Executing, Lifetime!Reasons,
            Lifetime!NoChild, Row
<1>1. ASSUME NEW j \in ChildJobs, Lifetime!ClaimJob(j) PROVE LifetimeInv'
  <2>1. work[j].attempts + 1 \in 0..ChildAttempts
    BY <1>1, LifetimeAssumption DEF Lifetime!ClaimJob
  <2> QED  BY <1>1, <2>1 DEF Lifetime!ClaimJob, Lifetime!RunnerClaims
<1>2. ASSUME NEW j \in ChildJobs, Lifetime!DelayOver(j) PROVE LifetimeInv'
  BY <1>2 DEF Lifetime!DelayOver
<1>3. ASSUME NEW j \in ChildJobs, Lifetime!CancelJob(j) PROVE LifetimeInv'
  <2>1. PICK s \in {"queued", "waiting", "running", "succeeded", "failed", "cancelled"} :
          /\ s = work[j].status \/ (s = "cancelled" /\ work[j].status # "running")
          /\ work' = [work EXCEPT ![j].cancelRequested = TRUE, ![j].status = s]
    BY <1>3 DEF Lifetime!CancelJob
  <2> HIDE DEF LifetimeInv, Lifetime!LifetimeTypeOK, Row
  <2>2. UNCHANGED <<closing, handlers, child, awaited, polling, scanning, closes>>
    BY <1>3 DEF Lifetime!CancelJob
  <2>3. /\ work' \in [ChildJobs -> Row]
        /\ \A i \in ChildJobs : i # j => work'[i] = work[i]
        /\ work'[j].attempts = work[j].attempts /\ work'[j].status = s
    <3>1. Lifetime!LifetimeTypeOK
      BY DEF LifetimeInv
    <3> QED  BY <2>1, <3>1, ChangedRow
  <2> USE DEF LifetimeInv, Lifetime!LifetimeTypeOK, Row
  <2>4. Lifetime!LifetimeTypeOK'
    BY <2>2, <2>3
  <2>5. ASSUME NEW i \in ChildJobs
        PROVE  /\ work[i].status = "running" => work'[i].status = "running"
               /\ work'[i].status \in {"queued", "waiting"} =>
                    work[i].status \in {"queued", "waiting"} /\ work'[i].attempts = work[i].attempts
    BY <2>1, <2>3
  <2> QED  BY <2>2, <2>4, <2>5
<1>4. ASSUME NEW j \in ChildJobs, Lifetime!StartChild(j) PROVE LifetimeInv'
  <2>1. handlers[j] = "preparing" /\ UNCHANGED <<closing, awaited, polling, scanning, closes>>
    BY <1>4 DEF Lifetime!StartChild
  <2>2. CASE /\ Lifetime!SettleChild(j, "shutdown") \/ Lifetime!SettleChild(j, "cancelled")
             /\ UNCHANGED child
    <3>0. PICK error \in {"shutdown", "cancelled"} : Lifetime!SettleChild(j, error)
      BY <2>2
    <3>1. UNCHANGED child /\ child[j].state = "none"
      BY <2>1, <2>2
    <3>2. /\ handlers' = [handlers EXCEPT ![j] = "none"]
          /\ work' \in [ChildJobs -> Row]
          /\ \A i \in ChildJobs : i # j => work'[i] = work[i]
          /\ work'[j].status \in {"waiting", "succeeded", "failed", "cancelled"}
          /\ work'[j].status = "waiting" => work'[j].attempts < ChildAttempts
      BY <3>0, SettledChild
    <3>3. Lifetime!LifetimeTypeOK'
      BY <2>1, <3>1, <3>2
    <3> QED  BY <2>1, <3>1, <3>2, <3>3
  <2>3. CASE /\ handlers' = [handlers EXCEPT ![j] = "running"]
             /\ child' = [child EXCEPT ![j].state = "running"]
             /\ UNCHANGED work
    BY <2>1, <2>3
  <2> QED  BY <1>4, <2>2, <2>3 DEF Lifetime!StartChild
<1>5. ASSUME NEW j \in ChildJobs, Lifetime!TimesOut(j) PROVE LifetimeInv'
  BY <1>5 DEF Lifetime!TimesOut, Lifetime!StopRequested
<1>6. ASSUME NEW j \in ChildJobs, Lifetime!Aborted(j) PROVE LifetimeInv'
  BY <1>6 DEF Lifetime!Aborted, Lifetime!StopRequested
<1>7. ASSUME NEW j \in ChildJobs, Lifetime!ForceKill(j) PROVE LifetimeInv'
  BY <1>7 DEF Lifetime!ForceKill
<1>8. ASSUME NEW j \in ChildJobs, Lifetime!ChildExits(j) PROVE LifetimeInv'
  <2>1. PICK error \in {"none", "exit", "cancelled", "timeout", "shutdown"} : Lifetime!SettleChild(j, error)
    BY <1>8 DEF Lifetime!ChildExits
  <2>2. /\ child' = [child EXCEPT ![j] = [state |-> "none", reason |-> "none"]]
        /\ awaited' = awaited \ {j} /\ UNCHANGED <<closing, polling, scanning, closes>>
    BY <1>8 DEF Lifetime!ChildExits
  <2>3. /\ handlers' = [handlers EXCEPT ![j] = "none"]
        /\ work' \in [ChildJobs -> Row]
        /\ \A i \in ChildJobs : i # j => work'[i] = work[i]
        /\ work'[j].status \in {"waiting", "succeeded", "failed", "cancelled"}
        /\ work'[j].status = "waiting" => work'[j].attempts < ChildAttempts
    BY <2>1, SettledChild
  <2> QED  BY <2>2, <2>3
<1>9. CASE Lifetime!PollStarts
  BY <1>9 DEF Lifetime!PollStarts
<1>10. CASE Lifetime!PollEnds
  BY <1>10 DEF Lifetime!PollEnds
<1>11. CASE Lifetime!Close
  <2>1. /\ closing' = "transforms" /\ closes' \in 0..CloseBound
        /\ UNCHANGED <<work, handlers, polling, scanning>>
    BY <1>11, LifetimeAssumption DEF Lifetime!Close
  <2>2. awaited' \subseteq Lifetime!Transforms
    BY <1>11 DEF Lifetime!Close
  <2>3. /\ child' \in [ChildJobs -> [state : {"none", "running", "terminating", "killed"},
                                  reason : Lifetime!Reasons]]
        /\ \A j \in ChildJobs : child'[j].state = "none" <=> child[j].state = "none"
    BY <1>11 DEF Lifetime!Close, Lifetime!StopRequested
  <2> QED  BY <2>1, <2>2, <2>3
<1>12. CASE Lifetime!TransformsStopped
  BY <1>12 DEF Lifetime!TransformsStopped
<1>13. CASE Lifetime!JobsStopped
  BY <1>13 DEF Lifetime!JobsStopped
<1>14. CASE Lifetime!PollsStopped
  BY <1>14 DEF Lifetime!PollsStopped
<1>15. CASE Lifetime!StartServer
  BY <1>15 DEF Lifetime!StartServer
<1>16. CASE UNCHANGED Lifetime!lifetimeVars
  BY <1>16 DEF Lifetime!lifetimeVars
<1>17. CASE Lifetime!ScanStarts
  BY <1>17 DEF Lifetime!ScanStarts
<1>18. CASE Lifetime!ScanEnds
  BY <1>18 DEF Lifetime!ScanEnds
<1>19. CASE Lifetime!ConnectionsClosed
  BY <1>19 DEF Lifetime!ConnectionsClosed
<1> QED
  BY <1>1, <1>2, <1>3, <1>4, <1>5, <1>6, <1>7, <1>8, <1>9, <1>10, <1>11, <1>12, <1>13,
     <1>14, <1>15, <1>16, <1>17, <1>18, <1>19
  DEF Lifetime!LifetimeNext

\* Every job is queued at first.
LEMMA LifetimeBegins == Lifetime!LifetimeInit => LifetimeInv
<1> SUFFICES ASSUME Lifetime!LifetimeInit PROVE LifetimeInv
  OBVIOUS
<1> USE DEF Lifetime!LifetimeInit, Lifetime!NoChild
<1>1. 0 \in 0..ChildAttempts /\ 0 < ChildAttempts /\ 0 \in 0..CloseBound
  BY LifetimeAssumption
<1>2. Lifetime!LifetimeTypeOK
  BY <1>1 DEF Lifetime!LifetimeTypeOK, Lifetime!Reasons
<1>3. \A j \in ChildJobs : /\ child[j].state = "none" /\ handlers[j] = "none" /\ work[j].attempts = 0
  OBVIOUS
<1> QED  BY <1>1, <1>2, <1>3 DEF LifetimeInv

\* When the database is closed nothing is left that would use it, but perhaps
\* a scan of the watched folders.
ClosedIsQuiet ==
  closing = "closed" => /\ Lifetime!Executing = {} /\ ~polling
                        /\ \A j \in ChildJobs : child[j].state = "none"
\* What is left when close() has ended, in terms of children and polls.
LEMMA LifetimeHolds == LifetimeInv => ClosedIsQuiet
BY DEF LifetimeInv, ClosedIsQuiet, Lifetime!Executing, Lifetime!LifetimeTypeOK

-----------------------------------------------------------------------------
(* ObsTrigger                                                              *)

\* Client k is the last one made: the one that is awaited or in use, if there
\* is such a one; while the timer is set there is none, and one more can be made.
LatestClient(k) ==
  /\ \A i \in Obs!Clients : sockets[i] = "none" <=> i > k
  /\ connecting # 0 => connecting = k
  /\ current # 0 => current = k
  /\ reconnect => connecting = 0 /\ current = 0 /\ k < ObsFaults + 1

\* A client that is open is this.client; one is awaited only when there is no
\* such client; one is given up only after stop(), when no timer is set.
ObsInv ==
  /\ Obs!ObsTypeOK
  /\ \A i \in Obs!Clients :
       (sockets[i] = "open" => i = current) /\ (sockets[i] = "closing" => stopped)
  /\ connecting # 0 => current = 0 /\ sockets[connecting] \in {"opening", "closing"}
  /\ stopped => ~reconnect /\ current = 0
  /\ \E k \in Obs!Clients : LatestClient(k)

\* connect(), the events of its client, the timer and stop() keep it in every
\* order.
LEMMA ObsStep ==
  ASSUME ObsInv, [Obs!ObsNext]_Obs!obsVars
  PROVE  ObsInv'
<1> USE ObsAssumption DEF ObsInv, LatestClient, Obs!ObsTypeOK, Obs!Clients, Obs!Becomes,
                          Obs!scanVars
<1>1. CASE Obs!Connected
  <2>0. PICK k \in Obs!Clients : LatestClient(k)
    BY DEF ObsInv
  <2>1. LatestClient(k)'
    BY <1>1, <2>0 DEF Obs!Connected
  <2>2. /\ Obs!ObsTypeOK'
        /\ \A i \in Obs!Clients :
             (sockets'[i] = "open" => i = current') /\ (sockets'[i] = "closing" => stopped')
        /\ connecting' # 0 => current' = 0 /\ sockets'[connecting'] \in {"opening", "closing"}
        /\ stopped' => ~reconnect' /\ current' = 0
    BY <1>1, <2>0 DEF Obs!Connected
  <2> QED  BY <2>1, <2>2
<1>2. ASSUME NEW final \in BOOLEAN, Obs!ConnectFails(final) PROVE ObsInv'
  <2>0. PICK k \in Obs!Clients : LatestClient(k)
    BY DEF ObsInv
  <2>1. LatestClient(k)'
    BY <1>2, <2>0 DEF Obs!ConnectFails, Obs!Scheduled
  <2>2. /\ Obs!ObsTypeOK'
        /\ \A i \in Obs!Clients :
             (sockets'[i] = "open" => i = current') /\ (sockets'[i] = "closing" => stopped')
        /\ connecting' # 0 => current' = 0 /\ sockets'[connecting'] \in {"opening", "closing"}
        /\ stopped' => ~reconnect' /\ current' = 0
    BY <1>2, <2>0 DEF Obs!ConnectFails, Obs!Scheduled
  <2> QED  BY <2>1, <2>2
<1>3. ASSUME NEW n \in Obs!Clients, NEW final \in BOOLEAN, Obs!Closed(n, final) PROVE ObsInv'
  <2>0. PICK k \in Obs!Clients : LatestClient(k)
    BY DEF ObsInv
  <2>1. LatestClient(k)'
    BY <1>3, <2>0 DEF Obs!Closed, Obs!Scheduled
  <2>2. /\ Obs!ObsTypeOK'
        /\ \A i \in Obs!Clients :
             (sockets'[i] = "open" => i = current') /\ (sockets'[i] = "closing" => stopped')
        /\ connecting' # 0 => current' = 0 /\ sockets'[connecting'] \in {"opening", "closing"}
        /\ stopped' => ~reconnect' /\ current' = 0
    BY <1>3, <2>0 DEF Obs!Closed, Obs!Scheduled
  <2> QED  BY <2>1, <2>2
<1>4. ASSUME NEW n \in Obs!Clients, Obs!Disconnected(n) PROVE ObsInv'
  <2>0. PICK k \in Obs!Clients : LatestClient(k)
    BY DEF ObsInv
  <2>1. LatestClient(k)'
    BY <1>4, <2>0 DEF Obs!Disconnected, Obs!Scheduled
  <2>2. /\ Obs!ObsTypeOK'
        /\ \A i \in Obs!Clients :
             (sockets'[i] = "open" => i = current') /\ (sockets'[i] = "closing" => stopped')
        /\ connecting' # 0 => current' = 0 /\ sockets'[connecting'] \in {"opening", "closing"}
        /\ stopped' => ~reconnect' /\ current' = 0
    BY <1>4, <2>0 DEF Obs!Disconnected, Obs!Scheduled
  <2> QED  BY <2>1, <2>2
<1>5. CASE Obs!Reconnect
  <2>0. PICK k \in Obs!Clients : LatestClient(k)
    BY DEF ObsInv
  <2>1. reconnect /\ connecting = 0 /\ current = 0 /\ ~stopped /\ k + 1 \in Obs!Clients
    BY <1>5, <2>0, ObsAssumption DEF Obs!Reconnect, LatestClient
  <2> DEFINE First(i) == /\ sockets[i] = "none"
                         /\ \A n \in Obs!Clients : sockets[n] = "none" => i <= n
             next == CHOOSE i \in Obs!Clients : First(i)
  <2>2. First(k + 1)
    BY <2>0, <2>1, ObsAssumption DEF LatestClient
  <2>3. next \in Obs!Clients /\ First(next)
    BY <2>1, <2>2
  <2>4. next = k + 1
    BY <2>0, <2>1, <2>3, ObsAssumption DEF LatestClient
  <2>5. /\ sockets' = [sockets EXCEPT ![k + 1] = "opening"] /\ connecting' = k + 1
        /\ ~reconnect' /\ reconnect' \in BOOLEAN
        /\ UNCHANGED <<current, stopped, refused, requested, running, unseen, hints>>
    <3>1. /\ Obs!Becomes(next, "opening") /\ connecting' = next /\ reconnect' = FALSE
          /\ UNCHANGED <<current, stopped, refused, requested, running, unseen, hints>>
      BY <1>5, <2>1 DEF Obs!Reconnect, Obs!scanVars
    <3> QED  BY <2>4, <3>1 DEF Obs!Becomes
  <2> HIDE DEF next, First
  <2>6. LatestClient(k + 1)'
    BY <2>0, <2>1, <2>5, ObsAssumption DEF LatestClient
  <2> QED  BY <2>1, <2>5, <2>6, ObsAssumption
<1>6. CASE Obs!StopTrigger
  <2>0. PICK k \in Obs!Clients : LatestClient(k)
    BY DEF ObsInv
  <2>1. LatestClient(k)'
    BY <1>6, <2>0 DEF Obs!StopTrigger
  <2>2. /\ Obs!ObsTypeOK'
        /\ \A i \in Obs!Clients :
             (sockets'[i] = "open" => i = current') /\ (sockets'[i] = "closing" => stopped')
        /\ connecting' # 0 => current' = 0 /\ sockets'[connecting'] \in {"opening", "closing"}
        /\ stopped' => ~reconnect' /\ current' = 0
    BY <1>6, <2>0 DEF Obs!StopTrigger
  <2> QED  BY <2>1, <2>2
<1>7. ASSUME NEW n \in Obs!Clients, Obs!Hint(n) PROVE ObsInv'
  <2>0. PICK k \in Obs!Clients : LatestClient(k)
    BY DEF ObsInv
  <2>1. hints' \in 0..HintBound /\ UNCHANGED Obs!connectionVars
    BY <1>7, ObsAssumption DEF Obs!Hint
  <2>2. {requested', unseen'} \subseteq BOOLEAN /\ running' \in {"nobody", "timer", "trigger"}
    BY <1>7 DEF Obs!Hint
  <2> QED  BY <2>0, <2>1, <2>2 DEF Obs!connectionVars
<1>8. CASE Obs!ScanDone
  <2>0. PICK k \in Obs!Clients : LatestClient(k)
    BY DEF ObsInv
  <2>1. UNCHANGED Obs!connectionVars
    BY <1>8 DEF Obs!ScanDone
  <2>2. {requested', unseen'} \subseteq BOOLEAN /\ running' \in {"nobody", "timer", "trigger"}
        /\ hints' = hints
    BY <1>8 DEF Obs!ScanDone
  <2> QED  BY <2>0, <2>1, <2>2 DEF Obs!connectionVars
<1>9. CASE Obs!TimerScan
  <2>0. PICK k \in Obs!Clients : LatestClient(k)
    BY DEF ObsInv
  <2>1. UNCHANGED Obs!connectionVars
    BY <1>9 DEF Obs!TimerScan
  <2>2. {requested', unseen'} \subseteq BOOLEAN /\ running' \in {"nobody", "timer", "trigger"}
        /\ hints' = hints
    BY <1>9 DEF Obs!TimerScan
  <2> QED  BY <2>0, <2>1, <2>2 DEF Obs!connectionVars
<1>10. CASE Obs!TimerScanDone
  <2>0. PICK k \in Obs!Clients : LatestClient(k)
    BY DEF ObsInv
  <2>1. UNCHANGED Obs!connectionVars
    BY <1>10 DEF Obs!TimerScanDone
  <2>2. {requested', unseen'} \subseteq BOOLEAN /\ running' \in {"nobody", "timer", "trigger"}
        /\ hints' = hints
    BY <1>10 DEF Obs!TimerScanDone
  <2> QED  BY <2>0, <2>1, <2>2 DEF Obs!connectionVars
<1>11. CASE UNCHANGED Obs!obsVars
  BY <1>11 DEF Obs!obsVars
<1> QED
  BY <1>1, <1>2, <1>3, <1>4, <1>5, <1>6, <1>7, <1>8, <1>9, <1>10, <1>11
  DEF Obs!ObsNext, Obs!ObsSettles

\* stop() leaves neither a timer nor an open client.
LEMMA ObsQuiet == ObsInv => Obs!StoppedIsQuiet
BY ObsAssumption DEF ObsInv, Obs!ObsTypeOK, Obs!StoppedIsQuiet, Obs!Clients

\* The first connection is awaited at first.
LEMMA ObsBegins == Obs!ObsInit => ObsInv
<1> USE ObsAssumption DEF Obs!ObsInit, ObsInv, Obs!ObsTypeOK, Obs!Clients
<1> SUFFICES ASSUME Obs!ObsInit PROVE ObsInv
  OBVIOUS
<1>1. LatestClient(1) /\ 1 \in Obs!Clients
  BY DEF LatestClient
<1>2. 0 \in 0..HintBound /\ \A i \in Obs!Clients : sockets[i] = IF i = 1 THEN "opening" ELSE "none"
  OBVIOUS
<1>3. Obs!ObsTypeOK
  <2>1. sockets \in [Obs!Clients -> {"none", "opening", "open", "closing", "closed"}]
    OBVIOUS
  <2> QED  BY <1>1, <1>2, <2>1
<1> QED  BY <1>1, <1>2, <1>3

-----------------------------------------------------------------------------
(* TransformPlan                                                           *)

\* A recipe of the user, and at most one of a destination.
RecipeKind == [steps : Seq(StepTypes), output : OutputTypes]
RecipeInv ==
  /\ media \in SourceTypes
  /\ plan \in [steps : Seq(StepTypes), output : OutputTypes, destination : SUBSET RecipeKind]
  /\ \A r, s \in plan.destination : r = s
  /\ Len(Recipes!StepsOf(plan)) <= StepBound
  /\ \A i \in DOMAIN Recipes!StepsOf(plan) : Recipes!ValidStep(Recipes!StepsOf(plan)[i])

\* The steps of both, one after the other.
LEMMA BothRecipes ==
  ASSUME NEW p \in [steps : Seq(StepTypes), output : OutputTypes, destination : SUBSET RecipeKind],
         \A r, s \in p.destination : r = s
  PROVE  /\ p.destination = {} => Recipes!StepsOf(p) = p.steps
         /\ \A r \in p.destination :
              p.destination = {r} /\ Recipes!StepsOf(p) = p.steps \o r.steps
<1>1. ASSUME NEW r \in p.destination
      PROVE p.destination = {r} /\ (CHOOSE s \in p.destination : TRUE) = r
  OBVIOUS
<1> QED  BY <1>1 DEF Recipes!StepsOf

\* A step that is added is as the schema wants it.
LEMMA AppendHolds ==
  ASSUME NEW steps \in Seq(StepTypes), NEW s \in StepTypes, Recipes!ValidStep(s),
         \A i \in DOMAIN steps : Recipes!ValidStep(steps[i])
  PROVE  \A i \in DOMAIN Append(steps, s) : Recipes!ValidStep(Append(steps, s)[i])
<1> SUFFICES ASSUME NEW i \in DOMAIN Append(steps, s) PROVE Recipes!ValidStep(Append(steps, s)[i])
  OBVIOUS
<1>1. /\ i \in DOMAIN steps => Append(steps, s)[i] = steps[i]
      /\ i \notin DOMAIN steps => Append(steps, s)[i] = s
  OBVIOUS
<1> QED  BY <1>1

\* Every step of the recipe keeps the invariant.
LEMMA RecipeStep ==
  ASSUME RecipeInv, [Recipes!PlanNext]_Recipes!planVars
  PROVE  RecipeInv'
<1> DEFINE Plans == [steps : Seq(StepTypes), output : OutputTypes, destination : SUBSET RecipeKind]
<1>0. plan \in Plans /\ \A r, s \in plan.destination : r = s
  BY DEF RecipeInv
<1>1. ASSUME NEW s \in StepTypes, Recipes!AddUserStep(s) PROVE RecipeInv'
  <2>1. PICK p \in Plans : p = plan
    BY <1>0
  <2>2. /\ Append(p.steps, s) \in Seq(StepTypes)
        /\ Len(p.steps) \in Nat /\ Len(Append(p.steps, s)) = Len(p.steps) + 1
    BY <1>1
  <2>3. /\ [p EXCEPT !.steps = Append(@, s)] \in Plans
        /\ [p EXCEPT !.steps = Append(@, s)].steps = Append(p.steps, s)
        /\ [p EXCEPT !.steps = Append(@, s)].destination = p.destination
    BY <2>2
  <2>4. plan' = [p EXCEPT !.steps = Append(@, s)] /\ media' = media /\ p.destination = {}
        /\ Len(p.steps) < StepBound
    BY <1>1, <2>1 DEF Recipes!AddUserStep
  <2>5. Recipes!StepsOf(plan') = Append(p.steps, s)
    BY <2>3, <2>4, BothRecipes
  <2>6. Len(Recipes!StepsOf(plan')) <= StepBound
    BY <2>2, <2>4, <2>5, RecipesAssumption
  <2>7. \A i \in DOMAIN Recipes!StepsOf(plan') : Recipes!ValidStep(Recipes!StepsOf(plan')[i])
    <3>1. Recipes!ValidStep(s) /\ Recipes!StepsOf(p) = p.steps
      BY <1>1, <2>1, <2>4, <1>0, BothRecipes DEF Recipes!AddUserStep
    <3>2. \A i \in DOMAIN p.steps : Recipes!ValidStep(p.steps[i])
      BY <2>1, <3>1 DEF RecipeInv
    <3>3. p.steps \in Seq(StepTypes)
      OBVIOUS
    <3> QED  BY <2>5, <3>1, <3>2, <3>3, AppendHolds
  <2> QED  BY <2>3, <2>4, <2>6, <2>7 DEF RecipeInv
<1>2. ASSUME NEW o \in OutputTypes, Recipes!AttachDestination(o) PROVE RecipeInv'
  <2>1. PICK p \in Plans : p = plan
    BY <1>0
  <2> DEFINE r == [steps |-> <<>>, output |-> o]
  <2>2. r \in RecipeKind /\ r.steps = <<>>
    BY DEF RecipeKind
  <2> HIDE DEF r
  <2>3. /\ [p EXCEPT !.destination = {r}] \in Plans
        /\ [p EXCEPT !.destination = {r}].steps = p.steps
        /\ [p EXCEPT !.destination = {r}].destination = {r}
    BY <2>2
  <2>4. plan' = [p EXCEPT !.destination = {r}] /\ media' = media /\ p.destination = {}
    BY <1>2, <2>1 DEF Recipes!AttachDestination, r
  <2>5. Recipes!StepsOf(plan') = p.steps \o <<>> /\ Recipes!StepsOf(p) = p.steps
    BY <2>1, <2>2, <2>3, <2>4, BothRecipes
  <2>6. p.steps \o <<>> = p.steps
    OBVIOUS
  <2> QED  BY <2>1, <2>3, <2>4, <2>5, <2>6 DEF RecipeInv
<1>3. ASSUME NEW s \in StepTypes, Recipes!AddDestinationStep(s) PROVE RecipeInv'
  <2>1. PICK p \in Plans : p = plan
    BY <1>0
  <2>2. PICK r \in RecipeKind : r \in p.destination
    BY <1>3, <2>1 DEF Recipes!AddDestinationStep
  <2>3. p.destination = {r} /\ Recipes!StepsOf(p) = p.steps \o r.steps
    BY <1>0, <2>1, <2>2, BothRecipes
  <2> DEFINE q == [r EXCEPT !.steps = Append(@, s)]
  <2>4. q \in RecipeKind /\ q.steps = Append(r.steps, s)
    <3>1. r.steps \in Seq(StepTypes) /\ Append(r.steps, s) \in Seq(StepTypes)
      BY <1>3 DEF RecipeKind
    <3> QED  BY <3>1 DEF RecipeKind
  <2>5. {[x EXCEPT !.steps = Append(@, s)] : x \in p.destination} = {q}
    BY <2>3
  <2>6. plan' = [p EXCEPT !.destination = {q}] /\ media' = media
        /\ Len(Recipes!StepsOf(p)) < StepBound
    BY <1>3, <2>1, <2>5 DEF Recipes!AddDestinationStep
  <2> HIDE DEF q
  <2>7. /\ [p EXCEPT !.destination = {q}] \in Plans
        /\ [p EXCEPT !.destination = {q}].steps = p.steps
        /\ [p EXCEPT !.destination = {q}].destination = {q}
    BY <2>4
  <2>8. Recipes!StepsOf(plan') = p.steps \o q.steps
    BY <2>6, <2>7, BothRecipes
  <2>12. \A i \in DOMAIN Recipes!StepsOf(plan') : Recipes!ValidStep(Recipes!StepsOf(plan')[i])
    <3>1. Recipes!ValidStep(s) /\ p.steps \in Seq(StepTypes) /\ r.steps \in Seq(StepTypes)
      BY <1>3 DEF Recipes!AddDestinationStep, RecipeKind
    <3>2. \A i \in DOMAIN (p.steps \o r.steps) : Recipes!ValidStep((p.steps \o r.steps)[i])
      BY <2>1, <2>3 DEF RecipeInv
    <3>3. Recipes!StepsOf(plan') = Append(p.steps \o r.steps, s)
            /\ p.steps \o r.steps \in Seq(StepTypes)
      BY <2>4, <2>8, <3>1
    <3> QED  BY <3>1, <3>2, <3>3, AppendHolds
  <2>9. p.steps \in Seq(StepTypes) /\ r.steps \in Seq(StepTypes)
    BY DEF RecipeKind
  <2>10. Len(p.steps \o Append(r.steps, s)) = Len(p.steps \o r.steps) + 1
         /\ Len(p.steps \o r.steps) \in Nat
    BY <2>9
  <2>11. Len(Recipes!StepsOf(plan')) <= StepBound
    BY <2>3, <2>4, <2>6, <2>8, <2>10, RecipesAssumption
  <2> QED  BY <2>6, <2>7, <2>11, <2>12 DEF RecipeInv
<1>4. CASE UNCHANGED Recipes!planVars
  BY <1>4 DEF Recipes!planVars, RecipeInv, Recipes!StepsOf
<1> QED  BY <1>1, <1>2, <1>3, <1>4 DEF Recipes!PlanNext

\* It holds at the beginning.
LEMMA RecipeBegins == Recipes!PlanInit => RecipeInv
<1> SUFFICES ASSUME NEW o \in OutputTypes, media \in SourceTypes,
                    plan = [steps |-> <<>>, output |-> o, destination |-> {}]
             PROVE  RecipeInv
  BY DEF Recipes!PlanInit
<1>1. Recipes!StepsOf(plan) = <<>>
  BY DEF Recipes!StepsOf
<1>2. /\ plan \in [steps : Seq(StepTypes), output : OutputTypes, destination : SUBSET RecipeKind]
      /\ \A r, s \in plan.destination : r = s
  OBVIOUS
<1>3. /\ Len(Recipes!StepsOf(plan)) <= StepBound
      /\ \A i \in DOMAIN Recipes!StepsOf(plan) : Recipes!ValidStep(Recipes!StepsOf(plan)[i])
  <2> DEFINE q == Recipes!StepsOf(plan)
  <2>1. StepBound \in Nat
    BY RecipesAssumption
  <2>2. q = <<>>
    BY <1>1
  <2> HIDE DEF q
  <2>3. Len(q) = 0 /\ DOMAIN q = {}
    BY <2>2
  <2>4. Len(q) <= StepBound /\ \A i \in DOMAIN q : Recipes!ValidStep(q[i])
    BY <2>1, <2>3
  <2> QED  BY <2>4 DEF q
<1> QED  BY <1>2, <1>3 DEF RecipeInv

\* It gives the variables their types.
LEMMA RecipeHolds == RecipeInv => Recipes!PlanTypeOK
<1> SUFFICES ASSUME RecipeInv PROVE Recipes!PlanTypeOK
  OBVIOUS
<1>1. Cardinality(plan.destination) <= 1
  <2>1. CASE plan.destination = {}
    BY <2>1, FS_EmptySet
  <2>2. ASSUME NEW r \in plan.destination PROVE Cardinality(plan.destination) <= 1
    <3>1. plan.destination = {r}
      BY DEF RecipeInv
    <3>2. Cardinality(plan.destination) = 1
      BY <3>1, FS_Singleton
    <3> QED  BY <3>2
  <2> QED  BY <2>1, <2>2
<1>2. Recipes!Cardinality(plan.destination) = Cardinality(plan.destination)
  BY DEF Recipes!Cardinality, Cardinality
<1> QED  BY <1>1, <1>2 DEF RecipeInv, RecipeKind, Recipes!PlanTypeOK

\* The filters of a graph are steps of a recipe and limits; a label is a name and
\* a number.  A frame is what there is after some filters.
RecipeFilter ==
  StepTypes \cup {[type |-> "limit", width |-> o.width, height |-> o.height] : o \in OutputTypes}
RecipeLabel ==
  {"video", "audio", "v", "wm", "vwm", "vout", "vlimited", "aout"} \X Nat
RecipeChain ==
  [ins : {q \in Seq(RecipeLabel) : Len(q) \in {1, 2}}, filters : Seq(RecipeFilter),
   out : RecipeLabel]
RecipeState ==
  [inputs : Nat, graph : Seq(RecipeChain), video : RecipeLabel, pending : Seq(RecipeFilter),
   sound : Seq(RecipeFilter), audio : BOOLEAN]
RecipeFrame ==
  [width : Nat \ {0}, height : Nat \ {0}, audio : BOOLEAN, rate : Nat, length : Nat]

\* A loop from element to element, over states S.
Loops(f, n, S, a, step) ==
  /\ f = [k \in 0..n |-> f[k]] /\ f[0] = a
  /\ \A k \in 1..n : f[k - 1] \in S /\ f[k] = step[<<k, f[k - 1]>>]

\* Such a loop takes place.
LEMMA LoopExists ==
  ASSUME NEW S, NEW n \in Nat, NEW a \in S, NEW step \in [(1..n) \X S -> S]
  PROVE  \E f : Loops(f, n, S, a, step)
<1> DEFINE To(m, f) == /\ f = [k \in 0..m |-> f[k]] /\ f[0] = a
                       /\ \A k \in 1..m : f[k - 1] \in S /\ f[k] = step[<<k, f[k - 1]>>]
                       /\ f[m] \in S
           Ms == {m \in Nat : m <= n => \E f : To(m, f)}
<1>1. 0 \in Ms
  <2>1. To(0, [k \in 0..0 |-> a])
    OBVIOUS
  <2> HIDE DEF To
  <2> QED  BY <2>1
<1>2. ASSUME NEW m \in Nat, m \in Ms PROVE m + 1 \in Ms
  <2> SUFFICES ASSUME m + 1 <= n PROVE \E f : To(m + 1, f)
    OBVIOUS
  <2>1. PICK f : To(m, f)
    BY <1>2
  <2>2. m + 1 \in 1..n /\ <<m + 1, f[m]>> \in (1..n) \X S
    BY <2>1
  <2> DEFINE g == [k \in 0..(m + 1) |-> IF k = m + 1 THEN step[<<m + 1, f[m]>>] ELSE f[k]]
  <2>3. g[m + 1] = step[<<m + 1, f[m]>>] /\ \A k \in 0..m : g[k] = f[k]
    OBVIOUS
  <2>4. g[m + 1] \in S
    BY <2>2, <2>3
  <2>5. g = [k \in 0..(m + 1) |-> g[k]]
    OBVIOUS
  <2> HIDE DEF g
  <2>6. ASSUME NEW k \in 1..(m + 1) PROVE g[k - 1] \in S /\ g[k] = step[<<k, g[k - 1]>>]
    <3>1. k - 1 \in 0..m /\ g[k - 1] = f[k - 1]
      BY <2>3
    <3>2. CASE k = m + 1
      BY <2>1, <2>3, <3>1, <3>2
    <3>3. CASE k # m + 1
      <4>1. k \in 1..m /\ k \in 0..m
        BY <3>3
      <4> QED  BY <2>1, <2>3, <3>1, <4>1
    <3> QED  BY <3>2, <3>3
  <2>7. g[0] = a
    <3>1. 0 \in 0..m
      OBVIOUS
    <3> QED  BY <2>1, <2>3, <3>1
  <2>8. To(m + 1, g)
    BY <2>4, <2>5, <2>6, <2>7
  <2> HIDE DEF To
  <2> QED  BY <2>8
<1> HIDE DEF To, Ms
<1>3. n \in Ms
  BY <1>1, <1>2, SetInduction
<1>4. PICK f : To(n, f)
  BY <1>3 DEF Ms
<1>5. Loops(f, n, S, a, step)
  BY <1>4 DEF To, Loops
<1> QED  BY <1>5

\* The loop of AddSteps, provided that a step keeps the states.
LEMMA AddStepsBy ==
  ASSUME NEW S, NEW c \in S, NEW steps \in Seq(StepTypes),
         \A d \in S, s \in StepTypes : Recipes!AddStep(d, s) \in S
  PROVE  \E f : /\ f[0] = c
                /\ \A k \in 1..Len(steps) : f[k] = Recipes!AddStep(f[k - 1], steps[k])
                /\ Recipes!AddSteps(c, steps) = f[Len(steps)]
<1> DEFINE n == Len(steps)
           Loop(f) == f = [k \in 0..n |-> IF k = 0 THEN c ELSE Recipes!AddStep(f[k - 1], steps[k])]
           step == [x \in (1..n) \X S |-> Recipes!AddStep(x[2], steps[x[1]])]
           found == CHOOSE f : Loop(f)
<1>1. n \in Nat /\ \A k \in 1..n : steps[k] \in StepTypes
  OBVIOUS
<1>0. c \in S
  OBVIOUS
<1> HIDE DEF n
<1>2. step \in [(1..n) \X S -> S]
  BY <1>1
<1>3. \A k \in 1..n, d \in S : step[<<k, d>>] = Recipes!AddStep(d, steps[k])
  OBVIOUS
<1> HIDE DEF step
<1>4. PICK f : Loops(f, n, S, c, step)
  BY <1>0, <1>1, <1>2, LoopExists
<1>5. ASSUME NEW k \in 0..n PROVE f[k] = IF k = 0 THEN c ELSE Recipes!AddStep(f[k - 1], steps[k])
  <2>1. CASE k = 0
    BY <1>4, <2>1 DEF Loops
  <2>2. CASE k # 0
    <3>1. k \in 1..n
      BY <1>1, <2>2
    <3>2. f[k - 1] \in S /\ f[k] = step[<<k, f[k - 1]>>]
      BY <1>4, <3>1 DEF Loops
    <3> HIDE DEF Loop
    <3> QED  BY <1>3, <2>2, <3>1, <3>2
  <2> QED  BY <2>1, <2>2
<1>6. Loop(f)
  <2>1. f = [k \in 0..n |-> f[k]]
    BY <1>4, Zenon DEF Loops
  <2> QED  BY <1>5, <2>1, Zenon
<1>7. Loop(found)
  BY <1>6, Zenon
<1>8. Recipes!AddSteps(c, steps) = found[n]
  BY DEF Recipes!AddSteps, n
<1> HIDE DEF found
<1>9. ASSUME NEW k \in 0..n
      PROVE found[k] = IF k = 0 THEN c ELSE Recipes!AddStep(found[k - 1], steps[k])
  BY <1>7, Zenon
<1>10. found[0] = c
  <2>1. 0 \in 0..n
    BY <1>1
  <2> QED  BY <1>9, <2>1
<1>11. ASSUME NEW k \in 1..n PROVE found[k] = Recipes!AddStep(found[k - 1], steps[k])
  <2>1. k \in 0..n /\ k # 0
    BY <1>1
  <2> HIDE DEF Loop
  <2> QED  BY <1>9, <2>1
<1> QED  BY <1>8, <1>10, <1>11 DEF n

\* The loop of Among.
LEMMA AmongBy ==
  ASSUME NEW X, NEW steps \in Seq(StepTypes)
  PROVE  \E f : /\ f[0] = <<>>
                /\ \A k \in 1..Len(steps) : f[k] =
                     IF steps[k] \in X THEN Append(f[k - 1], steps[k]) ELSE f[k - 1]
                /\ Recipes!Among(steps, X) = f[Len(steps)]
<1> DEFINE n == Len(steps)
           Loop(f) == f = [k \in 0..n |->
             IF k = 0 THEN <<>> ELSE IF steps[k] \in X THEN Append(f[k - 1], steps[k])
               ELSE f[k - 1]]
           step == [x \in (1..n) \X Seq(StepTypes) |->
             IF steps[x[1]] \in X THEN Append(x[2], steps[x[1]]) ELSE x[2]]
           found == CHOOSE f : Loop(f)
<1>1. n \in Nat /\ \A k \in 1..n : steps[k] \in StepTypes
  OBVIOUS
<1>0. <<>> \in Seq(StepTypes)
  OBVIOUS
<1> HIDE DEF n
<1>2. step \in [(1..n) \X Seq(StepTypes) -> Seq(StepTypes)]
  BY <1>1
<1>3. \A k \in 1..n, d \in Seq(StepTypes) : step[<<k, d>>] =
        IF steps[k] \in X THEN Append(d, steps[k]) ELSE d
  OBVIOUS
<1> HIDE DEF step
<1>4. PICK f : Loops(f, n, Seq(StepTypes), <<>>, step)
  BY <1>0, <1>1, <1>2, LoopExists
<1>5. ASSUME NEW k \in 0..n
      PROVE f[k] = IF k = 0 THEN <<>> ELSE IF steps[k] \in X THEN Append(f[k - 1], steps[k])
              ELSE f[k - 1]
  <2>1. CASE k = 0
    BY <1>4, <2>1 DEF Loops
  <2>2. CASE k # 0
    <3>1. k \in 1..n
      BY <1>1, <2>2
    <3>2. f[k - 1] \in Seq(StepTypes) /\ f[k] = step[<<k, f[k - 1]>>]
      BY <1>4, <3>1 DEF Loops
    <3> HIDE DEF Loop
    <3> QED  BY <1>3, <2>2, <3>1, <3>2
  <2> QED  BY <2>1, <2>2
<1>6. Loop(f)
  <2>1. f = [k \in 0..n |-> f[k]]
    BY <1>4, Zenon DEF Loops
  <2> QED  BY <1>5, <2>1, Zenon
<1>7. Loop(found)
  BY <1>6, Zenon
<1>8. Recipes!Among(steps, X) = found[n]
  BY DEF Recipes!Among, n
<1> HIDE DEF found
<1>9. ASSUME NEW k \in 0..n
      PROVE found[k] = IF k = 0 THEN <<>> ELSE IF steps[k] \in X
              THEN Append(found[k - 1], steps[k]) ELSE found[k - 1]
  BY <1>7, Zenon
<1>10. found[0] = <<>>
  <2>1. 0 \in 0..n
    BY <1>1
  <2> QED  BY <1>9, <2>1
<1>11. ASSUME NEW k \in 1..n
       PROVE found[k] = IF steps[k] \in X THEN Append(found[k - 1], steps[k]) ELSE found[k - 1]
  <2>1. k \in 0..n /\ k # 0
    BY <1>1
  <2> HIDE DEF Loop
  <2> QED  BY <1>9, <2>1
<1> QED  BY <1>8, <1>10, <1>11 DEF n

\* The loop of FilteredBy, over any filters and frames.
Filtering(frame, filters, n, f) ==
  f = [k \in 0..n |-> IF k = 0 THEN frame ELSE Recipes!Filtered(f[k - 1], filters[k])]

\* The loop of filters over a frame takes place.
LEMMA FilteringExists ==
  ASSUME NEW frame, NEW filters, NEW n \in Nat
  PROVE  \E f : Filtering(frame, filters, n, f)
<1> DEFINE S == {m \in Nat : \E f : Filtering(frame, filters, m, f)}
           Next(x, k) == Recipes!Filtered(x, filters[k])
<1>1. 0 \in S
  <2>1. Filtering(frame, filters, 0, [k \in 0..0 |-> frame])
    BY DEF Filtering
  <2> QED  BY <2>1
<1>2. ASSUME NEW m \in Nat, m \in S PROVE m + 1 \in S
  <2>1. PICK f : Filtering(frame, filters, m, f)
    BY <1>2
  <2> DEFINE g == [k \in 0..(m + 1) |-> IF k = m + 1 THEN Next(f[m], m + 1) ELSE f[k]]
  <2>2. ASSUME NEW k \in 0..m PROVE f[k] = IF k = 0 THEN frame ELSE Next(f[k - 1], k)
    BY <2>1 DEF Filtering
  <2> HIDE DEF Next
  <2>3. ASSUME NEW k \in 0..(m + 1)
        PROVE  g[k] = IF k = 0 THEN frame ELSE Next(g[k - 1], k)
    <3>1. CASE k = m + 1
      BY <3>1
    <3>2. CASE k # m + 1
      <4>1. k \in 0..m /\ g[k] = f[k] /\ (k # 0 => g[k - 1] = f[k - 1])
        BY <3>2
      <4> HIDE DEF g
      <4> QED  BY <2>2, <4>1
    <3> QED  BY <3>1, <3>2
  <2>4. g = [k \in 0..(m + 1) |-> IF k = 0 THEN frame ELSE Next(g[k - 1], k)]
    <3>1. g = [k \in 0..(m + 1) |-> g[k]]
      OBVIOUS
    <3> HIDE DEF g
    <3> QED  BY <2>3, <3>1
  <2>5. Filtering(frame, filters, m + 1, g)
    BY <2>4 DEF Filtering, Next
  <2> QED  BY <2>5
<1> HIDE DEF S
<1>3. n \in S
  BY <1>1, <1>2, SetInduction
<1> QED  BY <1>3 DEF S

\* FilteredBy is that loop.
FilteredAs(frame, filters, n, f) ==
  /\ f[0] = frame
  /\ \A k \in 1..n : f[k] = Recipes!Filtered(f[k - 1], filters[k])
  /\ Recipes!FilteredBy(frame, filters) = f[n]
LEMMA FilteredByLoop ==
  ASSUME NEW frame, NEW filters, Len(filters) \in Nat
  PROVE  \E f : FilteredAs(frame, filters, Len(filters), f)
<1> DEFINE n == Len(filters)
           found == CHOOSE f : Filtering(frame, filters, n, f)
<1>1. Recipes!FilteredBy(frame, filters) = found[n]
  BY DEF Recipes!FilteredBy, Filtering
<1>2. Filtering(frame, filters, n, found)
  BY FilteringExists
<1> HIDE DEF found
<1>3. ASSUME NEW k \in 0..n
      PROVE  found[k] = IF k = 0 THEN frame ELSE Recipes!Filtered(found[k - 1], filters[k])
  BY <1>2, Zenon DEF Filtering
<1>4. found[0] = frame /\ \A k \in 1..n : found[k] = Recipes!Filtered(found[k - 1], filters[k])
  <2>1. 0 \in 0..n /\ \A k \in 1..n : k \in 0..n /\ k # 0
    OBVIOUS
  <2> HIDE DEF n
  <2> QED  BY <1>3, <2>1
<1>5. FilteredAs(frame, filters, n, found)
  BY <1>1, <1>4 DEF FilteredAs
<1> QED  BY <1>5

\* What no filter does, and one more.
LEMMA FilteredByNone ==
  ASSUME NEW frame
  PROVE  Recipes!FilteredBy(frame, <<>>) = frame
<1>1. Len(<<>>) = 0
  OBVIOUS
<1>2. PICK f : FilteredAs(frame, <<>>, 0, f)
  BY <1>1, FilteredByLoop
<1> QED  BY <1>2 DEF FilteredAs

\* One filter more is applied last.
LEMMA FilteredByAppend ==
  ASSUME NEW S, NEW filters \in Seq(S), NEW s \in S, NEW frame
  PROVE  Recipes!FilteredBy(frame, Append(filters, s)) =
           Recipes!Filtered(Recipes!FilteredBy(frame, filters), s)
<1> DEFINE more == Append(filters, s)
           n == Len(filters)
<1>2. /\ n \in Nat /\ Len(more) = n + 1 /\ more[n + 1] = s
      /\ \A k \in 1..n : more[k] = filters[k]
  OBVIOUS
<1> HIDE DEF more, n
<1>3. PICK f : FilteredAs(frame, filters, n, f)
  BY <1>2, FilteredByLoop DEF n
<1>4. PICK g : FilteredAs(frame, more, n + 1, g)
  <2>1. Len(more) \in Nat
    BY <1>2
  <2>2. \E g : FilteredAs(frame, more, Len(more), g)
    BY <2>1, FilteredByLoop
  <2> QED  BY <1>2, <2>2
<1>10. /\ f[0] = frame /\ g[0] = frame
       /\ \A k \in 1..n : f[k] = Recipes!Filtered(f[k - 1], filters[k])
       /\ \A k \in 1..(n + 1) : g[k] = Recipes!Filtered(g[k - 1], more[k])
       /\ Recipes!FilteredBy(frame, filters) = f[n]
       /\ Recipes!FilteredBy(frame, more) = g[n + 1]
  BY <1>3, <1>4 DEF FilteredAs
<1> DEFINE Same == {k \in Nat : k <= n => g[k] = f[k]}
<1>5. 0 \in Same
  BY <1>10
<1>6. ASSUME NEW k \in Nat, k \in Same PROVE k + 1 \in Same
  <2> SUFFICES ASSUME k + 1 <= n PROVE g[k + 1] = f[k + 1]
    OBVIOUS
  <2>1. k + 1 \in 1..n /\ k + 1 \in 1..(n + 1) /\ (k + 1) - 1 = k
    BY <1>2
  <2>2. g[k] = f[k]
    BY <1>2, <1>6, <2>1
  <2>3. g[k + 1] = Recipes!Filtered(g[k], more[k + 1])
          /\ f[k + 1] = Recipes!Filtered(f[k], filters[k + 1])
    BY <1>10, <2>1
  <2> QED  BY <1>2, <2>1, <2>2, <2>3
<1> HIDE DEF Same
<1>7. n \in Same
  BY <1>2, <1>5, <1>6, SetInduction
<1>8. g[n] = f[n]
  BY <1>2, <1>7 DEF Same
<1>9. g[n + 1] = Recipes!Filtered(g[n], more[n + 1])
  <2>1. n + 1 \in 1..(n + 1) /\ (n + 1) - 1 = n
    BY <1>2
  <2> QED  BY <1>10, <2>1
<1> QED  BY <1>2, <1>10, <1>8, <1>9 DEF more

\* A step back, and the length after a step.
RecipeTrace == RecipeLabel \X Seq(RecipeFilter)

\* One step back ends at a label and a sequence of filters.
LEMMA BackKeeps ==
  ASSUME NEW chain \in RecipeChain, NEW at \in RecipeTrace
  PROVE  Recipes!Back(chain, at) \in RecipeTrace
<1>1. /\ chain.ins[1] \in RecipeLabel /\ chain.filters \in Seq(RecipeFilter)
      /\ at[2] \in Seq(RecipeFilter)
  BY DEF RecipeChain, RecipeTrace
<1>2. chain.filters \o at[2] \in Seq(RecipeFilter)
  BY <1>1
<1> QED  BY <1>1, <1>2 DEF RecipeTrace, Recipes!Back

\* An expected length is a length.
LEMMA ShortenedIsNat ==
  ASSUME NEW length \in Nat, NEW s \in StepTypes
  PROVE  Recipes!Shortened(length, s) \in Nat
BY RecipesAssumption DEF Recipes!Shortened, Recipes!Greatest

\* What a trim leaves is a length.
LEMMA TrimmedIsInt ==
  ASSUME NEW length \in Int, NEW s \in StepTypes
  PROVE  Recipes!Trimmed(length, s) \in Int
<1>1. CASE s.type = "trim"
  <2>1. s.start \in Nat /\ s.ms \in Nat /\ s.until \in {"none", "end", "duration"}
    BY <1>1, RecipesAssumption
  <2> QED  BY <1>1, <2>1 DEF Recipes!Trimmed, Recipes!Kept, Recipes!Greatest, Recipes!Least
<1>2. CASE s.type # "trim"
  BY <1>2 DEF Recipes!Trimmed
<1> QED  BY <1>1, <1>2

\* The loop of Traced.
LEMMA TracedBy ==
  ASSUME NEW graph \in Seq(RecipeChain), NEW at \in RecipeTrace
  PROVE  \E f : /\ f[0] = at
                /\ \A k \in 1..Len(graph) : f[k] = Recipes!Back(graph[Len(graph) + 1 - k], f[k - 1])
                /\ Recipes!Traced(graph, at) = f[Len(graph)]
<1> DEFINE n == Len(graph)
           Loop(f) == f = [k \in 0..n |->
             IF k = 0 THEN at ELSE Recipes!Back(graph[Len(graph) + 1 - k], f[k - 1])]
           step == [x \in (1..n) \X RecipeTrace |->
             Recipes!Back(graph[Len(graph) + 1 - x[1]], x[2])]
           found == CHOOSE f : Loop(f)
<1>1. n \in Nat /\ \A k \in 1..n : graph[k] \in RecipeChain
  OBVIOUS
<1>0. at \in RecipeTrace
  BY DEF RecipeTrace
<1> HIDE DEF n
<1>2. step \in [(1..n) \X RecipeTrace -> RecipeTrace]
  <2>1. ASSUME NEW k \in 1..n, NEW d \in RecipeTrace
        PROVE  Recipes!Back(graph[Len(graph) + 1 - k], d) \in RecipeTrace
    <3>1. Len(graph) + 1 - k \in 1..n
      BY <1>1 DEF n
    <3> QED  BY <1>1, <3>1, BackKeeps
  <2> QED  BY <2>1
<1>3. \A k \in 1..n, d \in RecipeTrace : step[<<k, d>>] = Recipes!Back(graph[Len(graph) + 1 - k], d)
  OBVIOUS
<1> HIDE DEF step
<1>4. PICK f : Loops(f, n, RecipeTrace, at, step)
  BY <1>0, <1>1, <1>2, LoopExists
<1>5. ASSUME NEW k \in 0..n
      PROVE f[k] = IF k = 0 THEN at ELSE Recipes!Back(graph[Len(graph) + 1 - k], f[k - 1])
  <2>1. CASE k = 0
    BY <1>4, <2>1 DEF Loops
  <2>2. CASE k # 0
    <3>1. k \in 1..n
      BY <1>1, <2>2
    <3>2. f[k - 1] \in RecipeTrace /\ f[k] = step[<<k, f[k - 1]>>]
      BY <1>4, <3>1 DEF Loops
    <3> HIDE DEF Loop
    <3> QED  BY <1>3, <2>2, <3>1, <3>2
  <2> QED  BY <2>1, <2>2
<1>6. Loop(f)
  <2>1. f = [k \in 0..n |-> f[k]]
    BY <1>4, Zenon DEF Loops
  <2> QED  BY <1>5, <2>1, Zenon
<1>7. Loop(found)
  BY <1>6, Zenon
<1>8. Recipes!Traced(graph, at) = found[n]
  BY DEF Recipes!Traced, n
<1> HIDE DEF found
<1>9. ASSUME NEW k \in 0..n
      PROVE found[k] = IF k = 0 THEN at ELSE Recipes!Back(graph[Len(graph) + 1 - k], found[k - 1])
  BY <1>7, Zenon
<1>10. found[0] = at
  <2>1. 0 \in 0..n
    BY <1>1
  <2> QED  BY <1>9, <2>1
<1>11. ASSUME NEW k \in 1..n PROVE found[k] = Recipes!Back(graph[Len(graph) + 1 - k], found[k - 1])
  <2>1. k \in 0..n /\ k # 0
    BY <1>1
  <2> HIDE DEF Loop
  <2> QED  BY <1>9, <2>1
<1> QED  BY <1>8, <1>10, <1>11 DEF n

\* The loop of Expected.
LEMMA ExpectedBy ==
  ASSUME NEW p, NEW footage, footage.length \in Nat, Recipes!StepsOf(p) \in Seq(StepTypes)
  PROVE  \E f : /\ f[0] = footage.length
                /\ \A k \in 1..Len(Recipes!StepsOf(p)) : f[k] =
                     Recipes!Shortened(f[k - 1], Recipes!StepsOf(p)[k])
                /\ Recipes!Expected(p, footage) = f[Len(Recipes!StepsOf(p))]
<1> DEFINE n == Len(Recipes!StepsOf(p))
           Loop(f) == f = [k \in 0..n |->
             IF k = 0 THEN footage.length ELSE Recipes!Shortened(f[k - 1], Recipes!StepsOf(p)[k])]
           step == [x \in (1..n) \X Nat |-> Recipes!Shortened(x[2], Recipes!StepsOf(p)[x[1]])]
           found == CHOOSE f : Loop(f)
<1>1. n \in Nat /\ \A k \in 1..n : Recipes!StepsOf(p)[k] \in StepTypes
  OBVIOUS
<1>0. footage.length \in Nat
  OBVIOUS
<1> HIDE DEF n
<1>2. step \in [(1..n) \X Nat -> Nat]
  BY <1>1, ShortenedIsNat
<1>3. \A k \in 1..n, d \in Nat : step[<<k, d>>] = Recipes!Shortened(d, Recipes!StepsOf(p)[k])
  OBVIOUS
<1> HIDE DEF step
<1>4. PICK f : Loops(f, n, Nat, footage.length, step)
  BY <1>0, <1>1, <1>2, LoopExists
<1>5. ASSUME NEW k \in 0..n
      PROVE f[k] = IF k = 0 THEN footage.length
              ELSE Recipes!Shortened(f[k - 1], Recipes!StepsOf(p)[k])
  <2>1. CASE k = 0
    BY <1>4, <2>1 DEF Loops
  <2>2. CASE k # 0
    <3>1. k \in 1..n
      BY <1>1, <2>2
    <3>2. f[k - 1] \in Nat /\ f[k] = step[<<k, f[k - 1]>>]
      BY <1>4, <3>1 DEF Loops
    <3> HIDE DEF Loop
    <3> QED  BY <1>3, <2>2, <3>1, <3>2
  <2> QED  BY <2>1, <2>2
<1>6. Loop(f)
  <2>1. f = [k \in 0..n |-> f[k]]
    BY <1>4, Zenon DEF Loops
  <2> QED  BY <1>5, <2>1, Zenon
<1>7. Loop(found)
  BY <1>6, Zenon
<1>8. Recipes!Expected(p, footage) = found[n]
  BY DEF Recipes!Expected, n
<1> HIDE DEF found
<1>9. ASSUME NEW k \in 0..n
      PROVE found[k] = IF k = 0 THEN footage.length
              ELSE Recipes!Shortened(found[k - 1], Recipes!StepsOf(p)[k])
  BY <1>7, Zenon
<1>10. found[0] = footage.length
  <2>1. 0 \in 0..n
    BY <1>1
  <2> QED  BY <1>9, <2>1
<1>11. ASSUME NEW k \in 1..n PROVE found[k] = Recipes!Shortened(found[k - 1], Recipes!StepsOf(p)[k])
  <2>1. k \in 0..n /\ k # 0
    BY <1>1
  <2> HIDE DEF Loop
  <2> QED  BY <1>9, <2>1
<1> QED  BY <1>8, <1>10, <1>11 DEF n

\* The loop of Remaining.
LEMMA RemainingBy ==
  ASSUME NEW p, NEW footage, footage.length \in Nat, Recipes!StepsOf(p) \in Seq(StepTypes)
  PROVE  \E f : /\ f[0] = footage.length
                /\ \A k \in 1..Len(Recipes!StepsOf(p)) : f[k] =
                     Recipes!Trimmed(f[k - 1], Recipes!StepsOf(p)[k])
                /\ Recipes!Remaining(p, footage) = f[Len(Recipes!StepsOf(p))]
<1> DEFINE n == Len(Recipes!StepsOf(p))
           Loop(f) == f = [k \in 0..n |->
             IF k = 0 THEN footage.length ELSE Recipes!Trimmed(f[k - 1], Recipes!StepsOf(p)[k])]
           step == [x \in (1..n) \X Int |-> Recipes!Trimmed(x[2], Recipes!StepsOf(p)[x[1]])]
           found == CHOOSE f : Loop(f)
<1>1. n \in Nat /\ \A k \in 1..n : Recipes!StepsOf(p)[k] \in StepTypes
  OBVIOUS
<1>0. footage.length \in Int
  OBVIOUS
<1> HIDE DEF n
<1>2. step \in [(1..n) \X Int -> Int]
  BY <1>1, TrimmedIsInt
<1>3. \A k \in 1..n, d \in Int : step[<<k, d>>] = Recipes!Trimmed(d, Recipes!StepsOf(p)[k])
  OBVIOUS
<1> HIDE DEF step
<1>4. PICK f : Loops(f, n, Int, footage.length, step)
  BY <1>0, <1>1, <1>2, LoopExists
<1>5. ASSUME NEW k \in 0..n
      PROVE f[k] = IF k = 0 THEN footage.length
              ELSE Recipes!Trimmed(f[k - 1], Recipes!StepsOf(p)[k])
  <2>1. CASE k = 0
    BY <1>4, <2>1 DEF Loops
  <2>2. CASE k # 0
    <3>1. k \in 1..n
      BY <1>1, <2>2
    <3>2. f[k - 1] \in Int /\ f[k] = step[<<k, f[k - 1]>>]
      BY <1>4, <3>1 DEF Loops
    <3> HIDE DEF Loop
    <3> QED  BY <1>3, <2>2, <3>1, <3>2
  <2> QED  BY <2>1, <2>2
<1>6. Loop(f)
  <2>1. f = [k \in 0..n |-> f[k]]
    BY <1>4, Zenon DEF Loops
  <2> QED  BY <1>5, <2>1, Zenon
<1>7. Loop(found)
  BY <1>6, Zenon
<1>8. Recipes!Remaining(p, footage) = found[n]
  BY DEF Recipes!Remaining, n
<1> HIDE DEF found
<1>9. ASSUME NEW k \in 0..n
      PROVE found[k] = IF k = 0 THEN footage.length
              ELSE Recipes!Trimmed(found[k - 1], Recipes!StepsOf(p)[k])
  BY <1>7, Zenon
<1>10. found[0] = footage.length
  <2>1. 0 \in 0..n
    BY <1>1
  <2> QED  BY <1>9, <2>1
<1>11. ASSUME NEW k \in 1..n PROVE found[k] = Recipes!Trimmed(found[k - 1], Recipes!StepsOf(p)[k])
  <2>1. k \in 0..n /\ k # 0
    BY <1>1
  <2> HIDE DEF Loop
  <2> QED  BY <1>9, <2>1
<1> QED  BY <1>8, <1>10, <1>11 DEF n

\* A trace begins at a label and a sequence of filters.
LEMMA TraceBegins ==
  ASSUME NEW l \in RecipeLabel, NEW fs \in Seq(RecipeFilter)
  PROVE  <<l, <<>> >> \in RecipeTrace /\ <<l, fs>> \in RecipeTrace
<1>1. <<>> \in Seq(RecipeFilter)
  OBVIOUS
<1> QED  BY <1>1 DEF RecipeTrace

\* A trace over a graph: it is one, goes on over the filters after it, and goes
\* back over a last chain first.
LEMMA TracedIs ==
  ASSUME NEW graph \in Seq(RecipeChain), NEW l \in RecipeLabel, NEW fs \in Seq(RecipeFilter)
  PROVE  /\ Recipes!Traced(graph, <<l, <<>> >>) \in RecipeTrace
         /\ Recipes!Traced(graph, <<l, fs>>) =
              <<Recipes!Traced(graph, <<l, <<>> >>)[1],
                 Recipes!Traced(graph, <<l, <<>> >>)[2] \o fs>>
         /\ (\A i \in 1..Len(graph) : graph[i].out # l) =>
              Recipes!Traced(graph, <<l, <<>> >>) = <<l, <<>> >>
<1> DEFINE n == Len(graph)
<1>1. n \in Nat /\ \A k \in 1..n : graph[n + 1 - k] \in RecipeChain
  OBVIOUS
<1>2. <<l, <<>> >> \in RecipeTrace /\ <<l, fs>> \in RecipeTrace
  BY TraceBegins
<1>3. PICK f : /\ f[0] = <<l, <<>> >>
               /\ \A k \in 1..n : f[k] = Recipes!Back(graph[n + 1 - k], f[k - 1])
               /\ Recipes!Traced(graph, <<l, <<>> >>) = f[n]
  BY <1>2, TracedBy
<1>4. PICK g : /\ g[0] = <<l, fs>>
               /\ \A k \in 1..n : g[k] = Recipes!Back(graph[n + 1 - k], g[k - 1])
               /\ Recipes!Traced(graph, <<l, fs>>) = g[n]
  BY <1>2, TracedBy
<1> HIDE DEF n
<1> DEFINE After(at) == <<at[1], at[2] \o fs>>
           Known(k) == /\ f[k] \in RecipeTrace /\ g[k] = After(f[k])
                       /\ (\A i \in 1..n : graph[i].out # l) => f[k] = <<l, <<>> >>
           Ks == {k \in Nat : k <= n => Known(k)}
<1>5. ASSUME NEW chain \in RecipeChain, NEW at \in RecipeTrace
      PROVE  Recipes!Back(chain, After(at)) = After(Recipes!Back(chain, at))
  <2>1. at[2] \in Seq(RecipeFilter) /\ chain.filters \in Seq(RecipeFilter)
    BY DEF RecipeTrace, RecipeChain
  <2>2. chain.filters \o (at[2] \o fs) = (chain.filters \o at[2]) \o fs
    <3>1. ASSUME NEW x \in Seq(RecipeFilter), NEW y \in Seq(RecipeFilter)
          PROVE  x \o (y \o fs) = (x \o y) \o fs
      BY ConcatAssociative, SMTT(20)
    <3> QED  BY <2>1, <3>1, Zenon
  <2>3. CASE chain.out = at[1]
    BY <2>2, <2>3 DEF Recipes!Back
  <2>4. CASE chain.out # at[1]
    BY <2>4 DEF Recipes!Back
  <2> QED  BY <2>3, <2>4
<1>6. 0 \in Ks
  <2>1. <<>> \o fs = fs
    OBVIOUS
  <2>2. Known(0)
    BY <1>2, <1>3, <1>4, <2>1
  <2> QED  BY <2>2
<1>7. ASSUME NEW k \in Nat, k \in Ks PROVE k + 1 \in Ks
  <2> SUFFICES ASSUME k + 1 <= n PROVE Known(k + 1)
    OBVIOUS
  <2>1. k + 1 \in 1..n /\ (k + 1) - 1 = k /\ k <= n
    BY <1>1
  <2> DEFINE chain == graph[n + 1 - (k + 1)]
  <2>2. /\ chain \in RecipeChain /\ Known(k)
        /\ f[k + 1] = Recipes!Back(chain, f[k]) /\ g[k + 1] = Recipes!Back(chain, g[k])
    BY <1>1, <1>3, <1>4, <1>7, <2>1
  <2>3. f[k + 1] \in RecipeTrace
    BY <2>2, BackKeeps
  <2>4. g[k + 1] = After(f[k + 1])
    <3> HIDE DEF chain, After
    <3> QED  BY <1>5, <2>2
  <2>5. ASSUME \A i \in 1..n : graph[i].out # l PROVE f[k + 1] = <<l, <<>> >>
    <3>1. n + 1 - (k + 1) \in 1..n
      BY <1>1, <2>1
    <3>2. chain.out # l /\ f[k] = <<l, <<>> >>
      BY <2>2, <2>5, <3>1
    <3> QED  BY <2>2, <3>2 DEF Recipes!Back
  <2> QED  BY <2>3, <2>4, <2>5
<1> HIDE DEF Ks, Known
<1>8. Known(n)
  <2>1. n \in Ks
    BY <1>1, <1>6, <1>7, SetInduction
  <2> QED  BY <1>1, <2>1 DEF Ks
<1> QED  BY <1>3, <1>4, <1>8 DEF Known, n

\* A chain more is the first that is traced back.
LEMMA TracedAppend ==
  ASSUME NEW graph \in Seq(RecipeChain), NEW chain \in RecipeChain, NEW at \in RecipeTrace
  PROVE  Recipes!Traced(Append(graph, chain), at) = Recipes!Traced(graph, Recipes!Back(chain, at))
<1> DEFINE more == Append(graph, chain)
           n == Len(graph)
           to == Recipes!Back(chain, at)
<1>1. /\ n \in Nat /\ more \in Seq(RecipeChain) /\ Len(more) = n + 1 /\ more[n + 1] = chain
      /\ \A k \in 1..n : more[k] = graph[k]
  OBVIOUS
<1>2. to \in RecipeTrace
  BY BackKeeps
<1> HIDE DEF to, more
<1>3. PICK f : /\ f[0] = to
               /\ \A k \in 1..n : f[k] = Recipes!Back(graph[n + 1 - k], f[k - 1])
               /\ Recipes!Traced(graph, to) = f[n]
  BY <1>2, TracedBy
<1>4. PICK g : /\ g[0] = at
               /\ \A k \in 1..(n + 1) : g[k] = Recipes!Back(more[(n + 1) + 1 - k], g[k - 1])
               /\ Recipes!Traced(more, at) = g[n + 1]
  <2>1. PICK g : /\ g[0] = at
                 /\ \A k \in 1..Len(more) : g[k] = Recipes!Back(more[Len(more) + 1 - k], g[k - 1])
                 /\ Recipes!Traced(more, at) = g[Len(more)]
    BY <1>1, TracedBy
  <2> HIDE DEF n
  <2> QED  BY <1>1, <2>1
<1> HIDE DEF n
<1> DEFINE Ks == {k \in Nat : k <= n => g[k + 1] = f[k]}
<1>5. 0 \in Ks
  <2>1. 1 \in 1..(n + 1) /\ (n + 1) + 1 - 1 = n + 1 /\ 1 - 1 = 0 /\ 0 + 1 = 1
    BY <1>1
  <2>2. g[1] = Recipes!Back(more[n + 1], g[0])
    BY <1>4, <2>1
  <2> QED  BY <1>1, <1>3, <1>4, <2>1, <2>2 DEF to
<1>6. ASSUME NEW k \in Nat, k \in Ks PROVE k + 1 \in Ks
  <2> SUFFICES ASSUME k + 1 <= n PROVE g[(k + 1) + 1] = f[k + 1]
    OBVIOUS
  <2>1. /\ k + 1 \in 1..n /\ (k + 1) + 1 \in 1..(n + 1) /\ n + 1 - (k + 1) \in 1..n
        /\ (n + 1) + 1 - ((k + 1) + 1) = n + 1 - (k + 1)
        /\ (k + 1) - 1 = k /\ ((k + 1) + 1) - 1 = k + 1
    BY <1>1
  <2>2. g[k + 1] = f[k]
    BY <1>1, <1>6, <2>1
  <2>3. g[(k + 1) + 1] = Recipes!Back(more[n + 1 - (k + 1)], g[k + 1])
    BY <1>4, <2>1
  <2>4. f[k + 1] = Recipes!Back(graph[n + 1 - (k + 1)], f[k])
    BY <1>3, <2>1
  <2> QED  BY <1>1, <2>1, <2>2, <2>3, <2>4
<1> HIDE DEF Ks
<1>7. n \in Ks
  BY <1>1, <1>5, <1>6, SetInduction
<1> QED  BY <1>1, <1>3, <1>4, <1>7 DEF Ks, more, to

\* What a label went through: filters; none, when no chain made it; and, with one
\* more chain, that chain's after what its first input went through.
LEMMA PassedIs ==
  ASSUME NEW graph \in Seq(RecipeChain), NEW l \in RecipeLabel
  PROVE  /\ Recipes!Passed(graph, l) \in Seq(RecipeFilter)
         /\ (\A i \in 1..Len(graph) : graph[i].out # l) => Recipes!Passed(graph, l) = <<>>
<1>0. <<>> \in Seq(RecipeFilter)
  OBVIOUS
<1>1. Recipes!Traced(graph, <<l, <<>> >>) \in RecipeTrace
  BY <1>0, TracedIs
<1>2. ASSUME \A i \in 1..Len(graph) : graph[i].out # l
      PROVE  Recipes!Traced(graph, <<l, <<>> >>) = <<l, <<>> >>
  BY <1>0, <1>2, TracedIs
<1> QED  BY <1>1, <1>2 DEF Recipes!Passed, RecipeTrace

\* What passed a chain more has passed what its input had passed, and its filters.
LEMMA PassedAppend ==
  ASSUME NEW graph \in Seq(RecipeChain), NEW chain \in RecipeChain, NEW l \in RecipeLabel
  PROVE  Recipes!Passed(Append(graph, chain), l) =
           IF chain.out = l THEN Recipes!Passed(graph, chain.ins[1]) \o chain.filters
           ELSE Recipes!Passed(graph, l)
<1> DEFINE at == <<l, <<>> >>
           i == chain.ins[1]
<1>1. at \in RecipeTrace
  <2>1. <<>> \in Seq(RecipeFilter)
    OBVIOUS
  <2> QED  BY <2>1, TraceBegins
<1>2. Recipes!Traced(Append(graph, chain), at) = Recipes!Traced(graph, Recipes!Back(chain, at))
  BY <1>1, TracedAppend
<1>3. CASE chain.out = l
  <2>1. chain.filters \in Seq(RecipeFilter) /\ i \in RecipeLabel
    BY DEF RecipeChain
  <2>2. Recipes!Back(chain, at) = <<i, chain.filters>>
    <3>1. chain.filters \o <<>> = chain.filters
      BY <2>1
    <3> QED  BY <1>3, <3>1 DEF Recipes!Back
  <2>3. Recipes!Traced(graph, <<i, chain.filters>>) =
          <<Recipes!Traced(graph, <<i, <<>> >>)[1],
            Recipes!Traced(graph, <<i, <<>> >>)[2] \o chain.filters>>
    BY <2>1, TracedIs
  <2> HIDE DEF i
  <2>4. Recipes!Traced(Append(graph, chain), at)[2] =
          Recipes!Traced(graph, <<i, <<>> >>)[2] \o chain.filters
    <3> DEFINE x == Recipes!Traced(graph, <<i, <<>> >>)[1]
               y == Recipes!Traced(graph, <<i, <<>> >>)[2] \o chain.filters
    <3>1. Recipes!Traced(Append(graph, chain), at) = <<x, y>>
      BY <1>2, <2>2, <2>3
    <3> HIDE DEF x, y, at
    <3>2. Recipes!Traced(Append(graph, chain), at)[2] = y
      BY <3>1
    <3> QED  BY <3>2 DEF y
  <2> QED  BY <1>3, <2>4 DEF Recipes!Passed, i
<1>4. CASE chain.out # l
  <2>1. Recipes!Back(chain, at) = at
    BY <1>4 DEF Recipes!Back
  <2> QED  BY <1>2, <1>4, <2>1 DEF Recipes!Passed
<1> QED  BY <1>3, <1>4

\* A graph under construction: the labels in open are still to be used, every
\* other one that was made has been used once.
Wired(graph, open) ==
  /\ graph \in Seq(RecipeChain) /\ Recipes!Ordered(graph)
  /\ \A l \in Recipes!Produced(graph) :
       /\ ~Recipes!IsStream(l)
       /\ l \in open <=> Recipes!Places(graph, l) = {}
       /\ \A at, bt \in Recipes!Places(graph, l) : at = bt

\* The inputs of a graph with one more chain.
LEMMA MoreInputs ==
  ASSUME NEW graph \in Seq(RecipeChain), NEW chain \in RecipeChain
  PROVE  LET more == Append(graph, chain)
             n == Len(graph) + 1
         IN  /\ Recipes!Produced(more) = Recipes!Produced(graph) \cup {chain.out}
             /\ \A at : at \in Recipes!Inputs(more) <=>
                  \/ at \in Recipes!Inputs(graph)
                  \/ \E j \in 1..Len(chain.ins) : at = <<n, j>>
             /\ \A at \in Recipes!Inputs(graph) :
                  at[1] \in 1..Len(graph) /\ more[at[1]] = graph[at[1]]
             /\ \A l, at : at \in Recipes!Places(more, l) <=>
                  \/ at \in Recipes!Places(graph, l)
                  \/ \E j \in 1..Len(chain.ins) : at = <<n, j>> /\ chain.ins[j] = l
<1> DEFINE more == Append(graph, chain)
           n == Len(graph) + 1
<1>1. /\ n \in Nat /\ DOMAIN more = 1..n /\ DOMAIN graph = 1..(n - 1) /\ more[n] = chain
      /\ \A i \in 1..(n - 1) : more[i] = graph[i]
      /\ n \notin 1..(n - 1) /\ 1..n = (1..(n - 1)) \cup {n}
  OBVIOUS
<1>2. DOMAIN chain.ins = 1..Len(chain.ins) /\ 1..Len(chain.ins) \subseteq 1..2
  <2>1. chain.ins \in {q \in Seq(RecipeLabel) : Len(q) \in {1, 2}}
    BY DEF RecipeChain
  <2>2. \A q \in Seq(RecipeLabel) : DOMAIN q = 1..Len(q)
    OBVIOUS
  <2>3. 1..1 \subseteq 1..2
    OBVIOUS
  <2> QED  BY <2>1, <2>2, <2>3
<1> HIDE DEF more, n
<1>3. Recipes!Produced(more) = Recipes!Produced(graph) \cup {chain.out}
  BY <1>1 DEF Recipes!Produced
<1>4. \A at : at \in Recipes!Inputs(more) <=>
                \/ at \in Recipes!Inputs(graph)
                \/ \E j \in 1..Len(chain.ins) : at = <<n, j>>
  BY <1>1, <1>2 DEF Recipes!Inputs
<1>5. \A at \in Recipes!Inputs(graph) : at[1] \in 1..(n - 1) /\ more[at[1]] = graph[at[1]]
  BY <1>1 DEF Recipes!Inputs
<1>6. \A l, at : at \in Recipes!Places(more, l) <=>
                   \/ at \in Recipes!Places(graph, l)
                   \/ \E j \in 1..Len(chain.ins) : at = <<n, j>> /\ chain.ins[j] = l
  <2>1. ASSUME NEW l, NEW at
        PROVE  at \in Recipes!Places(more, l) <=>
                 \/ at \in Recipes!Places(graph, l)
                 \/ \E j \in 1..Len(chain.ins) : at = <<n, j>> /\ chain.ins[j] = l
    <3>1. at \in Recipes!Places(more, l) <=>
            at \in Recipes!Inputs(more) /\ more[at[1]].ins[at[2]] = l
      BY DEF Recipes!Places
    <3>2. at \in Recipes!Places(graph, l) <=>
            at \in Recipes!Inputs(graph) /\ graph[at[1]].ins[at[2]] = l
      BY DEF Recipes!Places
    <3>3. \A j \in 1..Len(chain.ins) : at = <<n, j>> => more[at[1]].ins[at[2]] = chain.ins[j]
      BY <1>1
    <3> QED  BY <1>4, <1>5, <3>1, <3>2, <3>3
  <2> QED  BY <2>1
<1> QED  BY <1>1, <1>3, <1>4, <1>5, <1>6 DEF more, n

\* One more chain uses labels that are still to be used, and leaves its own.
LEMMA WiredMore ==
  ASSUME NEW graph, NEW open, Wired(graph, open), NEW chain \in RecipeChain,
         ~Recipes!IsStream(chain.out), chain.out \notin Recipes!Produced(graph),
         \A j \in 1..Len(chain.ins) :
           \/ Recipes!IsStream(chain.ins[j])
           \/ chain.ins[j] \in Recipes!Produced(graph) /\ chain.ins[j] \in open,
         \A i, j \in 1..Len(chain.ins) : chain.ins[i] = chain.ins[j] => i = j
  PROVE  LET used == {chain.ins[j] : j \in 1..Len(chain.ins)}
         IN  Wired(Append(graph, chain), (open \ used) \cup {chain.out})
<1> DEFINE more == Append(graph, chain)
           n == Len(graph) + 1
           used == {chain.ins[j] : j \in 1..Len(chain.ins)}
           left == (open \ used) \cup {chain.out}
           New(l) == {<<n, j>> : j \in {i \in 1..Len(chain.ins) : chain.ins[i] = l}}
<1>1. /\ graph \in Seq(RecipeChain) /\ more \in Seq(RecipeChain)
      /\ DOMAIN more = 1..n /\ DOMAIN graph = 1..(n - 1) /\ n \in Nat /\ more[n] = chain
      /\ \A i \in 1..(n - 1) : more[i] = graph[i]
      /\ 1..n = (1..(n - 1)) \cup {n} /\ n \notin 1..(n - 1) /\ Len(graph) = n - 1
  BY DEF Wired
<1>2. /\ Recipes!Produced(more) = Recipes!Produced(graph) \cup {chain.out}
      /\ \A at : at \in Recipes!Inputs(more) <=>
                   \/ at \in Recipes!Inputs(graph)
                   \/ \E j \in 1..Len(chain.ins) : at = <<n, j>>
      /\ \A at \in Recipes!Inputs(graph) : at[1] \in 1..(n - 1) /\ more[at[1]] = graph[at[1]]
      /\ \A l, at : at \in Recipes!Places(more, l) <=>
                      \/ at \in Recipes!Places(graph, l)
                      \/ \E j \in 1..Len(chain.ins) : at = <<n, j>> /\ chain.ins[j] = l
  BY <1>1, MoreInputs
<1> HIDE DEF more, n
<1>3. \A at \in Recipes!Inputs(graph) :
        LET l == graph[at[1]].ins[at[2]]
        IN  Recipes!IsStream(l) \/ \E i \in 1..(at[1] - 1) : graph[i].out = l
  BY DEF Wired, Recipes!Ordered
<1>4. Recipes!Places(graph, chain.out) = {}
  <2> SUFFICES ASSUME NEW at \in Recipes!Places(graph, chain.out) PROVE FALSE
    OBVIOUS
  <2>1. at \in Recipes!Inputs(graph) /\ graph[at[1]].ins[at[2]] = chain.out
    BY DEF Recipes!Places
  <2>2. PICK i \in 1..(at[1] - 1) : graph[i].out = chain.out
    BY <1>3, <2>1
  <2>3. i \in 1..(n - 1)
    BY <1>1, <1>2, <2>1
  <2> QED  BY <1>1, <2>2, <2>3 DEF Recipes!Produced
<1>5. Recipes!Ordered(more)
  <2>1. ASSUME NEW i \in 1..n, NEW j \in 1..n, more[i].out = more[j].out PROVE i = j
    <3>1. \A k \in 1..(n - 1) : more[k].out = graph[k].out /\ graph[k].out # chain.out
      BY <1>1 DEF Recipes!Produced
    <3>2. \A k, m \in 1..(n - 1) : graph[k].out = graph[m].out => k = m
      BY <1>1 DEF Wired, Recipes!Ordered
    <3> QED  BY <1>1, <2>1, <3>1, <3>2
  <2>2. ASSUME NEW at \in Recipes!Inputs(more)
        PROVE  LET l == more[at[1]].ins[at[2]]
               IN  Recipes!IsStream(l) \/ \E i \in 1..(at[1] - 1) : more[i].out = l
    <3>1. CASE at \in Recipes!Inputs(graph)
      <4>1. at[1] \in 1..(n - 1) /\ more[at[1]] = graph[at[1]]
        BY <1>2, <3>1
      <4>2. \A i \in 1..(at[1] - 1) : i \in 1..(n - 1)
        BY <1>1, <4>1
      <4> QED  BY <1>1, <1>3, <3>1, <4>1, <4>2
    <3>2. ASSUME NEW j \in 1..Len(chain.ins), at = <<n, j>>
          PROVE  LET l == more[at[1]].ins[at[2]]
                 IN  Recipes!IsStream(l) \/ \E i \in 1..(at[1] - 1) : more[i].out = l
      <4>1. at[1] = n /\ more[at[1]].ins[at[2]] = chain.ins[j]
        BY <1>1, <3>2
      <4>2. CASE chain.ins[j] \in Recipes!Produced(graph)
        <5>1. PICK i \in 1..(n - 1) : graph[i].out = chain.ins[j]
          BY <1>1, <4>2 DEF Recipes!Produced
        <5> QED  BY <1>1, <4>1, <5>1
      <4> QED  BY <4>1, <4>2
    <3> QED  BY <1>2, <3>1, <3>2
  <2> QED  BY <1>1, <2>1, <2>2 DEF Recipes!Ordered
<1>6. ASSUME NEW l \in Recipes!Produced(graph)
      PROVE  /\ ~Recipes!IsStream(l)
             /\ l \in left <=> Recipes!Places(more, l) = {}
             /\ \A at, bt \in Recipes!Places(more, l) : at = bt
  <2>1. /\ ~Recipes!IsStream(l) /\ l # chain.out
        /\ l \in open <=> Recipes!Places(graph, l) = {}
        /\ \A at, bt \in Recipes!Places(graph, l) : at = bt
    BY DEF Wired
  <2>2. CASE l \in used
    <3>1. PICK j \in 1..Len(chain.ins) : chain.ins[j] = l
      BY <2>2
    <3>2. l \in open
      BY <2>1, <3>1
    <3>3. \A at : at \in Recipes!Places(more, l) <=> at = <<n, j>>
      <4>1. Recipes!Places(graph, l) = {}
        BY <2>1, <3>2
      <4>2. \A at : at \in Recipes!Places(more, l) <=>
                     \E i \in 1..Len(chain.ins) : at = <<n, i>> /\ chain.ins[i] = l
        BY <1>2, <4>1
      <4>3. \A i \in 1..Len(chain.ins) : chain.ins[i] = l => i = j
        BY <3>1
      <4> QED  BY <3>1, <4>2, <4>3
    <3>4. l \notin left
      <4>1. l # chain.out
        BY <2>1
      <4> HIDE DEF used
      <4> QED  BY <2>2, <4>1
    <3>5. Recipes!Places(more, l) # {} /\ \A at, bt \in Recipes!Places(more, l) : at = bt
      <4> DEFINE e == <<n, j>>
                 P == Recipes!Places(more, l)
      <4>1. \A at : at \in P <=> at = e
        BY <3>3, Zenon
      <4> HIDE DEF e, P
      <4>2. P # {}
        BY <4>1, Zenon
      <4>3. \A at, bt \in P : at = bt
        BY <4>1
      <4> QED  BY <4>2, <4>3 DEF P
    <3> HIDE DEF left
    <3> QED  BY <2>1, <3>4, <3>5
  <2>3. CASE l \notin used
    <3>1. Recipes!Places(more, l) = Recipes!Places(graph, l)
      <4>1. \A j \in 1..Len(chain.ins) : chain.ins[j] # l
        BY <2>3
      <4>2. \A at : at \in Recipes!Places(more, l) <=> at \in Recipes!Places(graph, l)
        BY <1>2, <4>1
      <4> DEFINE P == Recipes!Places(more, l)
                 Q == Recipes!Places(graph, l)
      <4> HIDE DEF P, Q
      <4>3. P = Q
        BY <4>2 DEF P, Q
      <4> QED  BY <4>3 DEF P, Q
    <3> QED  BY <2>1, <2>3, <3>1
  <2> QED  BY <2>2, <2>3
<1>7. Recipes!Places(more, chain.out) = {}
  <2>1. \A j \in 1..Len(chain.ins) : chain.ins[j] # chain.out
    OBVIOUS
  <2> QED  BY <1>2, <1>4, <2>1
<1>8. Wired(more, left)
  BY <1>1, <1>2, <1>5, <1>6, <1>7 DEF Wired
<1> QED  BY <1>8 DEF more

\* A state of the compilation: the picture's label is what is still to be used.
Drawn(c) ==
  /\ c \in RecipeState /\ Wired(c.graph, {c.video})
  /\ c.video \in Recipes!Produced(c.graph) \/ Recipes!IsStream(c.video)

\* The filters of Extended go on from the picture.
LEMMA ExtendedKeeps ==
  ASSUME NEW c, Drawn(c), NEW filters \in Seq(RecipeFilter), NEW label \in RecipeLabel,
         ~Recipes!IsStream(label), label \notin Recipes!Produced(c.graph)
  PROVE  LET d == Recipes!Extended(c, filters, label)
         IN  /\ Drawn(d) /\ d.inputs = c.inputs /\ d.sound = c.sound /\ d.audio = c.audio
             /\ Recipes!Produced(d.graph) \subseteq Recipes!Produced(c.graph) \cup {label}
             /\ Recipes!Passed(d.graph, d.video) = Recipes!Passed(c.graph, c.video) \o filters
<1> DEFINE d == Recipes!Extended(c, filters, label)
           chain == Recipes!Chain(<<c.video>>, filters, label)
<1>1. /\ c \in RecipeState /\ c.video \in RecipeLabel /\ c.graph \in Seq(RecipeChain)
      /\ Recipes!Passed(c.graph, c.video) \in Seq(RecipeFilter)
  BY PassedIs DEF Drawn, RecipeState
<1>2. CASE filters = <<>>
  <2>1. d = c
    BY <1>2 DEF Recipes!Extended
  <2>2. \A q \in Seq(RecipeFilter) : q \o <<>> = q
    OBVIOUS
  <2> HIDE DEF d
  <2> QED  BY <1>1, <1>2, <2>1, <2>2 DEF d
<1>3. CASE filters # <<>>
  <2>1. /\ chain.ins = <<c.video>> /\ chain.filters = filters /\ chain.out = label
        /\ chain.ins \in Seq(RecipeLabel) /\ Len(chain.ins) = 1 /\ chain.ins[1] = c.video
    BY <1>1 DEF Recipes!Chain
  <2>2. chain \in RecipeChain
    BY <2>1 DEF RecipeChain, Recipes!Chain
  <2>3. d = [c EXCEPT !.graph = Append(@, chain), !.video = label]
    BY <1>3 DEF Recipes!Extended
  <2> HIDE DEF d, chain
  <2>4. Append(c.graph, chain) \in Seq(RecipeChain)
    BY <1>1, <2>2
  <2>5. /\ d \in RecipeState /\ d.graph = Append(c.graph, chain) /\ d.video = label
        /\ d.inputs = c.inputs /\ d.sound = c.sound /\ d.audio = c.audio
    BY <1>1, <2>3, <2>4 DEF RecipeState
  <2>6. Recipes!Produced(d.graph) = Recipes!Produced(c.graph) \cup {label}
    BY <1>1, <2>1, <2>2, <2>5, MoreInputs
  <2>7. Wired(d.graph, {d.video})
    <3> DEFINE used == {chain.ins[j] : j \in 1..Len(chain.ins)}
               left == ({c.video} \ used) \cup {chain.out}
    <3>1. used = {c.video} /\ 1..1 = {1}
      BY <2>1
    <3>2. Wired(Append(c.graph, chain), left)
      <4>1. \A j \in 1..Len(chain.ins) : j = 1
        BY <2>1
      <4>2. \A j \in 1..Len(chain.ins) : \/ Recipes!IsStream(chain.ins[j])
                                         \/ /\ chain.ins[j] \in Recipes!Produced(c.graph)
                                            /\ chain.ins[j] \in {c.video}
        BY <2>1, <4>1 DEF Drawn
      <4>3. Wired(c.graph, {c.video})
        BY DEF Drawn
      <4>4. ~Recipes!IsStream(chain.out) /\ chain.out \notin Recipes!Produced(c.graph)
        BY <2>1
      <4>5. \A i, j \in 1..Len(chain.ins) : chain.ins[i] = chain.ins[j] => i = j
        BY <4>1
      <4> QED  BY <2>2, <4>2, <4>3, <4>4, <4>5, WiredMore
    <3>3. left = {label}
      BY <2>1, <3>1
    <3> QED  BY <2>5, <3>2, <3>3
  <2>8. Recipes!Passed(d.graph, d.video) = Recipes!Passed(c.graph, c.video) \o filters
    <3>1. Recipes!Passed(Append(c.graph, chain), label) =
            Recipes!Passed(c.graph, chain.ins[1]) \o chain.filters
      BY <1>1, <2>1, <2>2, PassedAppend
    <3> QED  BY <2>1, <2>5, <3>1
  <2>9. Drawn(d)
    BY <2>5, <2>6, <2>7 DEF Drawn
  <2> QED  BY <2>5, <2>6, <2>8, <2>9 DEF d
<1> QED  BY <1>2, <1>3

\* A watermark goes over it.
LEMMA OverlaidKeeps ==
  ASSUME NEW c, NEW main, Drawn(main), c.inputs = main.inputs, NEW s \in StepTypes,
         <<"wm", c.inputs>> \notin Recipes!Produced(main.graph),
         <<"vwm", c.inputs>> \notin Recipes!Produced(main.graph)
  PROVE  LET d == Recipes!Overlaid(c, main, s)
         IN  /\ Drawn(d) /\ d.inputs = main.inputs + 1
             /\ d.sound = main.sound /\ d.audio = main.audio
             /\ Recipes!Produced(d.graph) \subseteq
                  Recipes!Produced(main.graph) \cup {<<"wm", c.inputs>>, <<"vwm", c.inputs>>}
             /\ Recipes!Passed(d.graph, d.video) =
                  Append(Recipes!Passed(main.graph, main.video), s)
<1> DEFINE k == c.inputs
           d == Recipes!Overlaid(c, main, s)
           wm == <<"wm", k>>
           vwm == <<"vwm", k>>
           stream == Recipes!Stream(k, "video")
           mark == Recipes!Chain(<<stream>>, <<>>, wm)
           over == Recipes!Chain(<<main.video, wm>>, <<s>>, vwm)
           g == Append(main.graph, mark)
           all == Append(g, over)
<1>1. /\ main \in RecipeState /\ k \in Nat /\ main.inputs + 1 \in Nat
      /\ main.video \in RecipeLabel /\ main.graph \in Seq(RecipeChain)
      /\ Recipes!Passed(main.graph, main.video) \in Seq(RecipeFilter)
  BY PassedIs DEF Drawn, RecipeState
<1>2. /\ wm \in RecipeLabel /\ vwm \in RecipeLabel /\ stream \in RecipeLabel
      /\ Recipes!IsStream(stream) /\ ~Recipes!IsStream(wm) /\ ~Recipes!IsStream(vwm)
      /\ wm # vwm
  <2>1. wm \in RecipeLabel /\ vwm \in RecipeLabel /\ stream \in RecipeLabel
    <3> HIDE DEF k
    <3> QED  BY <1>1 DEF RecipeLabel, Recipes!Stream
  <2>2. wm[1] = "wm" /\ vwm[1] = "vwm" /\ stream[1] = "video"
    <3>1. \A x, y : <<x, y>>[1] = x
      OBVIOUS
    <3> QED  BY <3>1 DEF Recipes!Stream
  <2> HIDE DEF wm, vwm, stream
  <2> QED  BY <2>1, <2>2 DEF Recipes!IsStream
<1>3. /\ mark.ins = <<stream>> /\ mark.filters = <<>> /\ mark.out = wm
      /\ over.ins = <<main.video, wm>> /\ over.filters = <<s>> /\ over.out = vwm
  BY DEF Recipes!Chain
<1>4. d = [main EXCEPT !.inputs = @ + 1, !.video = vwm, !.graph = all]
  BY DEF Recipes!Overlaid, Recipes!Chain
<1> HIDE DEF k, d, wm, vwm, stream
<1>5. mark \in RecipeChain /\ Len(mark.ins) = 1 /\ mark.ins[1] = stream
  <2>1. <<stream>> \in Seq(RecipeLabel) /\ Len(<<stream>>) = 1 /\ <<>> \in Seq(RecipeFilter)
    BY <1>2
  <2> QED  BY <1>2, <1>3, <2>1 DEF RecipeChain, Recipes!Chain
<1>6. over \in RecipeChain /\ Len(over.ins) = 2 /\ over.ins[1] = main.video /\ over.ins[2] = wm
  <2>1. /\ <<main.video, wm>> \in Seq(RecipeLabel) /\ Len(<<main.video, wm>>) = 2
        /\ <<s>> \in Seq(RecipeFilter)
    BY <1>1, <1>2 DEF RecipeFilter
  <2> QED  BY <1>2, <1>3, <2>1 DEF RecipeChain, Recipes!Chain
<1> HIDE DEF mark, over
<1>7. g \in Seq(RecipeChain) /\ all \in Seq(RecipeChain)
  BY <1>1, <1>5, <1>6
<1>8. /\ d \in RecipeState /\ d.graph = all /\ d.video = vwm /\ d.inputs = main.inputs + 1
      /\ d.sound = main.sound /\ d.audio = main.audio
  <2> HIDE DEF all
  <2>1. main \in RecipeState
    BY <1>1
  <2> QED  BY <1>1, <1>2, <1>4, <1>7, <2>1 DEF RecipeState
<1>9. /\ Recipes!Produced(g) = Recipes!Produced(main.graph) \cup {wm}
      /\ Recipes!Produced(all) = Recipes!Produced(g) \cup {vwm}
  <2>1. Recipes!Produced(g) = Recipes!Produced(main.graph) \cup {wm}
    BY <1>1, <1>3, <1>5, MoreInputs
  <2> HIDE DEF g
  <2>2. Recipes!Produced(all) = Recipes!Produced(g) \cup {vwm}
    BY <1>3, <1>6, <1>7, MoreInputs
  <2> QED  BY <2>1, <2>2
<1>10. wm \notin Recipes!Produced(main.graph) /\ vwm \notin Recipes!Produced(main.graph)
  BY DEF wm, vwm, k
<1>11. main.video # wm /\ (main.video \in Recipes!Produced(main.graph) => main.video # stream)
  BY <1>2, <1>10 DEF Drawn, Wired
<1> DEFINE open == ({main.video} \ {stream}) \cup {wm}
<1>12. Wired(g, open)
  <2> DEFINE used == {mark.ins[j] : j \in 1..Len(mark.ins)}
             left == ({main.video} \ used) \cup {mark.out}
  <2>1. \A j \in 1..Len(mark.ins) : j = 1
    BY <1>5
  <2>2. /\ \A j \in 1..Len(mark.ins) : Recipes!IsStream(mark.ins[j])
        /\ \A i, j \in 1..Len(mark.ins) : mark.ins[i] = mark.ins[j] => i = j
    BY <1>2, <1>5, <2>1
  <2>3. Wired(main.graph, {main.video})
    BY DEF Drawn
  <2>4. ~Recipes!IsStream(mark.out) /\ mark.out \notin Recipes!Produced(main.graph)
    BY <1>2, <1>3, <1>10
  <2>5. Wired(Append(main.graph, mark), left)
    BY <1>5, <2>2, <2>3, <2>4, WiredMore
  <2>6. used = {stream} /\ 1..1 = {1}
    BY <1>5
  <2>7. left = open
    BY <1>3, <2>6
  <2> QED  BY <2>5, <2>7
<1>13. Wired(all, {vwm})
  <2> DEFINE used == {over.ins[j] : j \in 1..Len(over.ins)}
             left == (open \ used) \cup {over.out}
  <2>1. \A j \in 1..Len(over.ins) : j = 1 \/ j = 2
    BY <1>6
  <2>2. /\ \A j \in 1..Len(over.ins) :
             \/ Recipes!IsStream(over.ins[j])
             \/ over.ins[j] \in Recipes!Produced(g) /\ over.ins[j] \in open
        /\ \A i, j \in 1..Len(over.ins) : over.ins[i] = over.ins[j] => i = j
    BY <1>6, <1>9, <1>11, <2>1 DEF Drawn
  <2>3. ~Recipes!IsStream(over.out) /\ over.out \notin Recipes!Produced(g)
    BY <1>2, <1>3, <1>9, <1>10
  <2> HIDE DEF open, g
  <2>4. Wired(Append(g, over), left)
    BY <1>6, <1>12, <2>2, <2>3, WiredMore
  <2>5. used = {main.video, wm}
    <3>1. 1..2 = {1, 2}
      OBVIOUS
    <3> QED  BY <1>6, <3>1
  <2>6. left = {vwm}
    BY <1>3, <2>5 DEF open
  <2> QED  BY <2>4, <2>6
<1>14. Recipes!Passed(all, vwm) = Append(Recipes!Passed(main.graph, main.video), s)
  <2>1. Recipes!Passed(g, main.video) = Recipes!Passed(main.graph, main.video)
    BY <1>1, <1>3, <1>5, <1>11, PassedAppend
  <2>2. Recipes!Passed(all, vwm) = Recipes!Passed(g, main.video) \o <<s>>
    BY <1>2, <1>3, <1>6, <1>7, PassedAppend
  <2>3. \A q \in Seq(RecipeFilter) : q \o <<s>> = Append(q, s)
    BY DEF RecipeFilter
  <2> QED  BY <1>1, <2>1, <2>2, <2>3
<1>15. Drawn(d)
  BY <1>8, <1>9, <1>13 DEF Drawn
<1> QED  BY <1>8, <1>9, <1>14, <1>15 DEF d, k, wm, vwm

\* A state of the loop over the steps: its labels are numbered by the inputs so
\* far.  Its picture is that of its label, and of the filters that are pending.
RecipeCompiling ==
  {c \in RecipeState :
     /\ Drawn(c)
     /\ \A l \in Recipes!Produced(c.graph) : l[1] \in {"v", "wm", "vwm"} /\ l[2] < c.inputs}
Picture(c) == Recipes!Passed(c.graph, c.video) \o c.pending

\* A watermark is drawn over the filters before it.
LEMMA WatermarkKeeps ==
  ASSUME NEW c \in RecipeCompiling, NEW s \in StepTypes
  PROVE  LET d == Recipes!AddWatermark(c, s)
         IN  /\ d \in RecipeCompiling /\ d.audio = c.audio /\ d.sound = c.sound
             /\ Picture(d) = Append(Picture(c), s)
<1> DEFINE k == c.inputs
           lv == <<"v", k>>
           main == Recipes!Extended(c, c.pending, lv)
           over == Recipes!Overlaid(c, main, s)
           d == [over EXCEPT !.pending = <<>>]
<1>1. /\ c \in RecipeState /\ Drawn(c) /\ k \in Nat /\ c.pending \in Seq(RecipeFilter)
      /\ \A l \in Recipes!Produced(c.graph) : l[1] \in {"v", "wm", "vwm"} /\ l[2] < k
  BY DEF RecipeCompiling, RecipeState
<1> HIDE DEF k
<1>2. /\ <<"v", k>> \in RecipeLabel
      /\ \A name : <<name, k>>[1] = name /\ <<name, k>>[2] = k
  BY <1>1 DEF RecipeLabel
<1>3. ~Recipes!IsStream(<<"v", k>>)
  BY <1>2 DEF Recipes!IsStream
<1>4. \A name : <<name, k>> \notin Recipes!Produced(c.graph)
  <2> SUFFICES ASSUME NEW name, <<name, k>> \in Recipes!Produced(c.graph) PROVE FALSE
    OBVIOUS
  <2>1. <<name, k>>[2] < k
    BY <1>1
  <2> QED  BY <1>1, <1>2, <2>1
<1>5. /\ Drawn(main) /\ main.inputs = k /\ main.sound = c.sound /\ main.audio = c.audio
      /\ Recipes!Produced(main.graph) \subseteq Recipes!Produced(c.graph) \cup {<<"v", k>>}
      /\ Recipes!Passed(main.graph, main.video) = Picture(c)
  <2>1. lv \in RecipeLabel /\ ~Recipes!IsStream(lv) /\ lv \notin Recipes!Produced(c.graph)
    BY <1>2, <1>3, <1>4
  <2> HIDE DEF lv
  <2>2. /\ Drawn(main) /\ main.inputs = c.inputs /\ main.sound = c.sound /\ main.audio = c.audio
        /\ Recipes!Produced(main.graph) \subseteq Recipes!Produced(c.graph) \cup {lv}
        /\ Recipes!Passed(main.graph, main.video) = Recipes!Passed(c.graph, c.video) \o c.pending
    <3>1. Drawn(c)
      BY <1>1
    <3>2. ASSUME NEW p \in Seq(RecipeFilter)
          PROVE  LET e == Recipes!Extended(c, p, lv)
                 IN  /\ Drawn(e) /\ e.inputs = c.inputs /\ e.sound = c.sound /\ e.audio = c.audio
                     /\ Recipes!Produced(e.graph) \subseteq Recipes!Produced(c.graph) \cup {lv}
                     /\ Recipes!Passed(e.graph, e.video) = Recipes!Passed(c.graph, c.video) \o p
      BY <2>1, <3>1, ExtendedKeeps
    <3>3. c.pending \in Seq(RecipeFilter)
      BY <1>1
    <3> QED  BY <3>2, <3>3, Zenon
  <2> QED  BY <2>2 DEF Picture, k, lv
<1> HIDE DEF main
<1>6. <<"wm", k>> \notin Recipes!Produced(main.graph)
        /\ <<"vwm", k>> \notin Recipes!Produced(main.graph)
  BY <1>2, <1>4, <1>5
<1>7. /\ Drawn(over) /\ over.inputs = k + 1 /\ over.sound = c.sound /\ over.audio = c.audio
      /\ Recipes!Produced(over.graph) \subseteq
           Recipes!Produced(main.graph) \cup {<<"wm", k>>, <<"vwm", k>>}
      /\ Recipes!Passed(over.graph, over.video) = Append(Picture(c), s)
  BY <1>5, <1>6, OverlaidKeeps DEF k
<1> HIDE DEF over
<1>8. /\ d \in RecipeState /\ d.graph = over.graph /\ d.video = over.video /\ d.inputs = over.inputs
      /\ d.sound = over.sound /\ d.audio = over.audio /\ d.pending = <<>>
  <2>1. over \in RecipeState /\ <<>> \in Seq(RecipeFilter)
    BY <1>7 DEF Drawn
  <2> QED  BY <2>1 DEF RecipeState
<1>9. Recipes!AddWatermark(c, s) = d
  BY DEF Recipes!AddWatermark, over, main, k
<1> HIDE DEF d
<1>10. Drawn(d)
  BY <1>7, <1>8 DEF Drawn
<1>11. ASSUME NEW l \in Recipes!Produced(d.graph)
       PROVE  l[1] \in {"v", "wm", "vwm"} /\ l[2] < d.inputs
  <2>1. l \in Recipes!Produced(c.graph) \/ l = <<"v", k>> \/ l = <<"wm", k>> \/ l = <<"vwm", k>>
    BY <1>5, <1>7, <1>8
  <2>2. d.inputs = k + 1 /\ k < k + 1
    BY <1>1, <1>7, <1>8
  <2>3. CASE l \in Recipes!Produced(c.graph)
    <3>1. l[2] \in Nat
      <4>1. l \in RecipeLabel
        <5>1. c.graph \in Seq(RecipeChain)
          BY <1>1 DEF RecipeState
        <5>2. PICK i \in DOMAIN c.graph : l = c.graph[i].out
          BY <2>3 DEF Recipes!Produced
        <5>3. c.graph[i] \in RecipeChain
          BY <5>1, <5>2
        <5> QED  BY <5>2, <5>3 DEF RecipeChain
      <4> QED  BY <4>1 DEF RecipeLabel
    <3> QED  BY <1>1, <2>2, <2>3, <3>1
  <2>4. CASE l \notin Recipes!Produced(c.graph)
    BY <1>2, <2>1, <2>2, <2>4
  <2> QED  BY <2>3, <2>4
<1>12. Picture(d) = Append(Picture(c), s)
  <2>1. Picture(c) \in Seq(RecipeFilter)
    <3>1. Recipes!Passed(c.graph, c.video) \in Seq(RecipeFilter)
      BY <1>1, PassedIs DEF RecipeState
    <3> QED  BY <1>1, <3>1 DEF Picture
  <2>2. \A q \in Seq(RecipeFilter) : Append(q, s) \o <<>> = Append(q, s)
    BY DEF RecipeFilter
  <2> QED  BY <1>7, <1>8, <2>1, <2>2 DEF Picture
<1> QED  BY <1>7, <1>8, <1>9, <1>10, <1>11, <1>12 DEF RecipeCompiling

\* A filter that is added last.
LEMMA ConcatAppend ==
  ASSUME NEW S, NEW x \in Seq(S), NEW y \in Seq(S), NEW s \in S
  PROVE  x \o Append(y, s) = Append(x \o y, s)
  OBVIOUS

\* What a step adds to the picture and to the sound.
LEMMA AddStepKeeps ==
  ASSUME NEW c \in RecipeCompiling, NEW s \in StepTypes
  PROVE  LET d == Recipes!AddStep(c, s)
         IN  /\ d \in RecipeCompiling
             /\ d.audio = (c.audio /\ ~Recipes!Removes(s))
             /\ Picture(d) = IF Recipes!Seen(s) THEN Append(Picture(c), s) ELSE Picture(c)
             /\ d.audio => d.sound = IF Recipes!Heard(s) THEN Append(c.sound, s) ELSE c.sound
<1> DEFINE d == Recipes!AddStep(c, s)
           Sounds(e) == \/ e.sound = c.sound
                        \/ e.sound = Append(c.sound, s)
<1>1. /\ c \in RecipeState /\ Drawn(c) /\ s \in RecipeFilter
      /\ c.pending \in Seq(RecipeFilter) /\ c.sound \in Seq(RecipeFilter) /\ c.audio \in BOOLEAN
      /\ Append(c.pending, s) \in Seq(RecipeFilter) /\ Append(c.sound, s) \in Seq(RecipeFilter)
  BY DEF RecipeCompiling, RecipeState, RecipeFilter
<1>2. s.type \in {"trim", "fit", "audio", "captions", "watermark"}
  BY RecipesAssumption
<1>3. ASSUME NEW pending \in {c.pending, Append(c.pending, s)},
             NEW sound \in {c.sound, Append(c.sound, s)}, NEW audio \in BOOLEAN,
             d = [c EXCEPT !.pending = pending, !.sound = sound, !.audio = audio]
      PROVE  /\ d \in RecipeCompiling /\ d.audio = audio /\ d.sound = sound
             /\ pending = c.pending => Picture(d) = Picture(c)
             /\ pending = Append(c.pending, s) => Picture(d) = Append(Picture(c), s)
  <2> HIDE DEF d
  <2>1. /\ d \in RecipeState /\ d.graph = c.graph /\ d.video = c.video /\ d.inputs = c.inputs
        /\ d.audio = audio /\ d.sound = sound /\ d.pending = pending
    BY <1>1, <1>3 DEF RecipeState
  <2>2. d \in RecipeCompiling
    BY <2>1 DEF RecipeCompiling, Drawn
  <2>3. Recipes!Passed(c.graph, c.video) \o Append(c.pending, s) = Append(Picture(c), s)
    <3>1. Recipes!Passed(c.graph, c.video) \in Seq(RecipeFilter)
      BY <1>1, PassedIs DEF RecipeState
    <3>2. ASSUME NEW x \in Seq(RecipeFilter)
          PROVE  x \o Append(c.pending, s) = Append(x \o c.pending, s)
      BY <1>1, ConcatAppend
    <3> QED  BY <3>1, <3>2, Zenon DEF Picture
  <2> QED  BY <2>1, <2>2, <2>3 DEF Picture
<1>4. CASE s.type = "trim"
  <2>1. d = [c EXCEPT !.pending = Append(c.pending, s),
                      !.sound = IF c.audio THEN Append(c.sound, s) ELSE c.sound,
                      !.audio = c.audio]
    BY <1>1, <1>4 DEF Recipes!AddStep, RecipeState
  <2>2. Recipes!Seen(s) /\ Recipes!Heard(s) /\ ~Recipes!Removes(s)
    BY <1>4 DEF Recipes!Seen, Recipes!Heard, Recipes!Removes
  <2> QED  BY <1>1, <1>3, <2>1, <2>2
<1>5. CASE s.type = "fit" \/ s.type = "captions"
  <2>1. d = [c EXCEPT !.pending = IF Recipes!Seen(s) THEN Append(c.pending, s) ELSE c.pending,
                      !.sound = c.sound, !.audio = c.audio]
    BY <1>1, <1>5 DEF Recipes!AddStep, RecipeState, Recipes!Seen
  <2>2. ~Recipes!Heard(s) /\ ~Recipes!Removes(s)
    BY <1>5 DEF Recipes!Heard, Recipes!Removes
  <2> QED  BY <1>1, <1>3, <2>1, <2>2
<1>6. CASE s.type = "audio"
  <2>1. d = [c EXCEPT !.pending = c.pending,
                      !.sound = IF c.audio /\ Recipes!Heard(s) THEN Append(c.sound, s) ELSE c.sound,
                      !.audio = c.audio /\ ~Recipes!Removes(s)]
    BY <1>1, <1>6 DEF Recipes!AddStep, RecipeState, Recipes!Heard, Recipes!Removes
  <2>2. ~Recipes!Seen(s)
    BY <1>6 DEF Recipes!Seen
  <2> QED  BY <1>1, <1>3, <2>1, <2>2
<1>7. CASE s.type = "watermark"
  <2>1. d = Recipes!AddWatermark(c, s)
    BY <1>7 DEF Recipes!AddStep
  <2>2. Recipes!Seen(s) /\ ~Recipes!Heard(s) /\ ~Recipes!Removes(s)
    BY <1>7 DEF Recipes!Seen, Recipes!Heard, Recipes!Removes
  <2> HIDE DEF d
  <2>3. /\ d \in RecipeCompiling /\ d.audio = c.audio /\ d.sound = c.sound
        /\ Picture(d) = Append(Picture(c), s)
    BY <2>1, WatermarkKeeps
  <2> QED  BY <1>1, <2>2, <2>3 DEF d
<1> QED  BY <1>2, <1>4, <1>5, <1>6, <1>7

\* What the steps are compiled to, one after the other.
Visible(steps) == Recipes!Among(steps, {s \in {steps[i] : i \in DOMAIN steps} : Recipes!Seen(s)})
Audible(steps) == Recipes!Among(steps, {s \in {steps[i] : i \in DOMAIN steps} : Recipes!Heard(s)})
Silenced(steps) == \E i \in DOMAIN steps : Recipes!Removes(steps[i])

\* The compilation of all steps keeps them in their order.
LEMMA StepsCompile ==
  ASSUME NEW steps \in Seq(StepTypes), NEW recording \in SourceTypes
  PROVE  LET c == Recipes!AddSteps(Recipes!Start(recording), steps)
         IN  /\ c \in RecipeCompiling /\ Picture(c) = Visible(steps)
             /\ c.audio = (recording.audio /\ ~Silenced(steps))
             /\ c.audio => c.sound = Audible(steps)
             /\ Audible(steps) # <<>> <=> \E i \in DOMAIN steps : Recipes!Heard(steps[i])
<1> DEFINE n == Len(steps)
           All == {steps[i] : i \in DOMAIN steps}
           begin == Recipes!Start(recording)
           S == {s \in All : Recipes!Seen(s)}
           H == {s \in All : Recipes!Heard(s)}
<1>1. /\ n \in Nat /\ DOMAIN steps = 1..n /\ recording.audio \in BOOLEAN
      /\ \A k \in 1..n : steps[k] \in StepTypes
  BY RecipesAssumption
<1>2. \A k \in 1..n : /\ steps[k] \in S <=> Recipes!Seen(steps[k])
                      /\ steps[k] \in H <=> Recipes!Heard(steps[k])
  BY <1>1
<1>3. /\ begin \in RecipeCompiling /\ Picture(begin) = <<>> /\ begin.sound = <<>>
      /\ begin.audio = recording.audio
  <2>1. /\ begin.inputs = 1 /\ begin.graph = <<>> /\ begin.video = <<"video", 0>>
        /\ begin.pending = <<>> /\ begin.sound = <<>> /\ begin.audio = recording.audio
    BY DEF Recipes!Start, Recipes!Stream
  <2>2. <<>> \in Seq(RecipeChain) /\ <<>> \in Seq(RecipeFilter) /\ Len(<<>>) = 0
    OBVIOUS
  <2>3. begin \in RecipeState
    BY <1>1, <2>2 DEF RecipeState, RecipeLabel, Recipes!Start, Recipes!Stream
  <2> HIDE DEF begin
  <2>4. Recipes!Produced(begin.graph) = {} /\ Recipes!Inputs(begin.graph) = {}
    BY <2>1 DEF Recipes!Produced, Recipes!Inputs
  <2>5. Wired(begin.graph, {begin.video})
    <3>1. DOMAIN begin.graph = {}
      BY <2>1
    <3> QED  BY <2>1, <2>2, <2>4, <3>1 DEF Wired, Recipes!Ordered
  <2>6. Recipes!IsStream(begin.video)
    BY <2>1 DEF Recipes!IsStream
  <2>7. Picture(begin) = <<>>
    <3>1. Recipes!Passed(<<>>, begin.video) = <<>>
      <4>1. begin.video \in RecipeLabel /\ \A i \in 1..Len(<<>>) : <<>>[i].out # begin.video
        BY <2>2, <2>3 DEF RecipeState
      <4> QED  BY <2>2, <4>1, PassedIs
    <3>2. <<>> \o <<>> = <<>>
      OBVIOUS
    <3> QED  BY <2>1, <3>1, <3>2 DEF Picture
  <2> QED  BY <2>1, <2>3, <2>4, <2>5, <2>6, <2>7 DEF RecipeCompiling, Drawn
<1> HIDE DEF begin
<1>4. PICK f : /\ f[0] = begin
               /\ \A k \in 1..n : f[k] = Recipes!AddStep(f[k - 1], steps[k])
               /\ Recipes!AddSteps(begin, steps) = f[n]
  <2>1. \A d \in RecipeCompiling, s \in StepTypes : Recipes!AddStep(d, s) \in RecipeCompiling
    BY AddStepKeeps
  <2> QED  BY <1>3, <2>1, AddStepsBy
<1> HIDE DEF S, H
<1>5. PICK g : /\ g[0] = <<>>
               /\ \A k \in 1..n : g[k] =
                    IF steps[k] \in S THEN Append(g[k - 1], steps[k]) ELSE g[k - 1]
               /\ Recipes!Among(steps, S) = g[n]
  BY AmongBy
<1>6. PICK h : /\ h[0] = <<>>
               /\ \A k \in 1..n : h[k] =
                    IF steps[k] \in H THEN Append(h[k - 1], steps[k]) ELSE h[k - 1]
               /\ Recipes!Among(steps, H) = h[n]
  BY AmongBy
<1> HIDE DEF n
<1> DEFINE Known(k) == /\ f[k] \in RecipeCompiling /\ Picture(f[k]) = g[k]
                       /\ f[k].audio = (recording.audio
                            /\ \A i \in 1..k : ~Recipes!Removes(steps[i]))
                       /\ f[k].audio => f[k].sound = h[k]
                       /\ h[k] \in Seq(StepTypes)
                       /\ h[k] # <<>> <=> \E i \in 1..k : Recipes!Heard(steps[i])
           Ks == {k \in Nat : k <= n => Known(k)}
<1>7. 0 \in Ks
  <2>1. 1..0 = {} /\ <<>> \in Seq(StepTypes)
    OBVIOUS
  <2>2. f[0].audio = (recording.audio /\ \A i \in 1..0 : ~Recipes!Removes(steps[i]))
    BY <1>1, <1>3, <1>4, <2>1
  <2> QED  BY <1>3, <1>4, <1>5, <1>6, <2>1, <2>2
<1>8. ASSUME NEW k \in Nat, k \in Ks PROVE k + 1 \in Ks
  <2> SUFFICES ASSUME k + 1 <= n PROVE Known(k + 1)
    OBVIOUS
  <2> DEFINE s == steps[k + 1]
             c == f[k]
             d == f[k + 1]
  <2>1. k + 1 \in 1..n /\ (k + 1) - 1 = k /\ k <= n /\ 1..(k + 1) = (1..k) \cup {k + 1}
    BY <1>1
  <2>2. Known(k)
    BY <1>8, <2>1
  <2>3. /\ s \in StepTypes /\ d = Recipes!AddStep(c, s)
        /\ g[k + 1] = IF Recipes!Seen(s) THEN Append(g[k], s) ELSE g[k]
        /\ h[k + 1] = IF Recipes!Heard(s) THEN Append(h[k], s) ELSE h[k]
    BY <1>1, <1>2, <1>4, <1>5, <1>6, <2>1
  <2>4. /\ d \in RecipeCompiling
        /\ d.audio = (c.audio /\ ~Recipes!Removes(s))
        /\ Picture(d) = IF Recipes!Seen(s) THEN Append(Picture(c), s) ELSE Picture(c)
        /\ d.audio => d.sound = IF Recipes!Heard(s) THEN Append(c.sound, s) ELSE c.sound
    <3>1. c \in RecipeCompiling
      BY <2>2
    <3> HIDE DEF c, d, s
    <3> QED  BY <2>3, <3>1, AddStepKeeps
  <2>5. Picture(d) = g[k + 1]
    BY <2>2, <2>3, <2>4
  <2>6. d.audio = (recording.audio /\ \A i \in 1..(k + 1) : ~Recipes!Removes(steps[i]))
    BY <2>1, <2>2, <2>4
  <2>7. d.audio => d.sound = h[k + 1]
    BY <2>2, <2>3, <2>4
  <2>8. h[k + 1] \in Seq(StepTypes)
    BY <2>2, <2>3
  <2>9. h[k + 1] # <<>> <=> \E i \in 1..(k + 1) : Recipes!Heard(steps[i])
    <3>1. \A q \in Seq(StepTypes) : Append(q, s) # <<>>
      BY <2>3
    <3> QED  BY <2>1, <2>2, <2>3, <3>1
  <2> QED  BY <2>4, <2>5, <2>6, <2>7, <2>8, <2>9
<1> HIDE DEF Ks, Known
<1>9. Known(n)
  <2>1. n \in Ks
    BY <1>1, <1>7, <1>8, SetInduction
  <2> QED  BY <1>1, <2>1 DEF Ks
<1>10. Visible(steps) = g[n] /\ Audible(steps) = h[n]
  BY <1>5, <1>6 DEF Visible, Audible, S, H
<1> QED  BY <1>1, <1>4, <1>9, <1>10 DEF Known, Silenced, begin

\* After the steps come the filters that are pending, and the limits.
LEMMA PictureCompiles ==
  ASSUME NEW c \in RecipeCompiling, NEW fs \in Seq(RecipeFilter)
  PROVE  LET d == Recipes!Extended(Recipes!Extended(c, c.pending, <<"vout", 0>>),
                               fs, <<"vlimited", 0>>)
         IN  /\ Drawn(d) /\ d.sound = c.sound /\ d.audio = c.audio
             /\ Recipes!Passed(d.graph, d.video) = Picture(c) \o fs
             /\ \A l \in Recipes!Produced(d.graph) : l[1] \in {"v", "wm", "vwm", "vout", "vlimited"}
<1> DEFINE lo == <<"vout", 0>>
           ll == <<"vlimited", 0>>
           w == Recipes!Extended(c, c.pending, lo)
           d == Recipes!Extended(w, fs, ll)
<1>1. /\ Drawn(c) /\ c.pending \in Seq(RecipeFilter)
      /\ \A l \in Recipes!Produced(c.graph) : l[1] \in {"v", "wm", "vwm"}
  BY DEF RecipeCompiling, RecipeState
<1>2. lo \in RecipeLabel /\ ll \in RecipeLabel /\ lo[1] = "vout" /\ ll[1] = "vlimited"
  BY DEF RecipeLabel
<1> HIDE DEF lo, ll
<1>3. /\ ~Recipes!IsStream(lo) /\ ~Recipes!IsStream(ll) /\ lo # ll
      /\ lo \notin Recipes!Produced(c.graph) /\ ll \notin Recipes!Produced(c.graph)
  BY <1>1, <1>2 DEF Recipes!IsStream
<1>4. /\ Drawn(w) /\ w.sound = c.sound /\ w.audio = c.audio
      /\ Recipes!Produced(w.graph) \subseteq Recipes!Produced(c.graph) \cup {lo}
      /\ Recipes!Passed(w.graph, w.video) = Picture(c)
  <2>1. ASSUME NEW q \in Seq(RecipeFilter)
        PROVE  LET e == Recipes!Extended(c, q, lo)
               IN  /\ Drawn(e) /\ e.sound = c.sound /\ e.audio = c.audio
                   /\ Recipes!Produced(e.graph) \subseteq Recipes!Produced(c.graph) \cup {lo}
                   /\ Recipes!Passed(e.graph, e.video) = Recipes!Passed(c.graph, c.video) \o q
    <3>1. /\ Drawn(c) /\ lo \in RecipeLabel /\ ~Recipes!IsStream(lo)
          /\ lo \notin Recipes!Produced(c.graph)
      BY <1>1, <1>2, <1>3
    <3> QED  BY <3>1, ExtendedKeeps
  <2> QED  BY <1>1, <2>1, Zenon DEF Picture
<1> HIDE DEF w
<1>5. ll \notin Recipes!Produced(w.graph)
  BY <1>3, <1>4
<1>6. /\ Drawn(d) /\ d.sound = w.sound /\ d.audio = w.audio
      /\ Recipes!Produced(d.graph) \subseteq Recipes!Produced(w.graph) \cup {ll}
      /\ Recipes!Passed(d.graph, d.video) = Recipes!Passed(w.graph, w.video) \o fs
  <2>0. Drawn(w) /\ ll \in RecipeLabel /\ ~Recipes!IsStream(ll)
    BY <1>2, <1>3, <1>4
  <2>1. LET e == Recipes!Extended(w, fs, ll)
        IN  /\ Drawn(e) /\ e.sound = w.sound /\ e.audio = w.audio
            /\ Recipes!Produced(e.graph) \subseteq Recipes!Produced(w.graph) \cup {ll}
            /\ Recipes!Passed(e.graph, e.video) = Recipes!Passed(w.graph, w.video) \o fs
    BY <1>5, <2>0, ExtendedKeeps
  <2> QED  BY <2>1, Zenon
<1> HIDE DEF d
<1>7. \A l \in Recipes!Produced(d.graph) : l[1] \in {"v", "wm", "vwm", "vout", "vlimited"}
  BY <1>1, <1>2, <1>4, <1>6
<1> QED  BY <1>4, <1>6, <1>7 DEF d, w, lo, ll

\* The command of a plan: FFmpeg takes its graph, which leaves the sound unconnected
\* only when it was changed and none is asked for; the picture and the sound went
\* through their steps.
LEMMA CommandIs ==
  ASSUME NEW p, NEW recording \in SourceTypes,
         Recipes!StepsOf(p) \in Seq(StepTypes), Recipes!OutputOf(p) \in OutputTypes
  PROVE  LET compiled == Recipes!Compiled(p, recording)
             steps == Recipes!StepsOf(p)
             o == Recipes!OutputOf(p)
             sounds == recording.audio /\ ~Silenced(steps)
             sounded == sounds /\ \E i \in DOMAIN steps : Recipes!Heard(steps[i])
         IN  /\ Recipes!WellFormed(compiled)
             /\ Recipes!Unconnected(compiled) = IF sounded /\ ~o.aac THEN {<<"aout", 0>>} ELSE {}
             /\ Recipes!Passed(compiled.graph, compiled.video) = Visible(steps) \o Recipes!Limits(o)
             /\ \A l \in compiled.audio : Recipes!Passed(compiled.graph, l) = Audible(steps)
             /\ (compiled.audio # {}) = (sounds /\ o.aac)
             /\ compiled.rate = o.rate
<1> DEFINE steps == Recipes!StepsOf(p)
           o == Recipes!OutputOf(p)
           c == Recipes!AddSteps(Recipes!Start(recording), steps)
           fs == Recipes!Limits(o)
           d == Recipes!Extended(Recipes!Extended(c, c.pending, <<"vout", 0>>),
                               fs, <<"vlimited", 0>>)
           with == d.audio /\ d.sound # <<>>
           stream == Recipes!Stream(0, "audio")
           la == <<"aout", 0>>
           chain == Recipes!Chain(<<stream>>, d.sound, la)
           G == IF with THEN Append(d.graph, chain) ELSE d.graph
           A == IF ~(d.audio /\ o.aac) THEN {} ELSE {IF with THEN la ELSE stream}
           compiled == Recipes!Compiled(p, recording)
           sounds == recording.audio /\ ~Silenced(steps)
           sounded == sounds /\ \E i \in DOMAIN steps : Recipes!Heard(steps[i])
<1>1. /\ c \in RecipeCompiling /\ Picture(c) = Visible(steps)
      /\ c.audio = sounds
      /\ c.audio => c.sound = Audible(steps)
      /\ Audible(steps) # <<>> <=> \E i \in DOMAIN steps : Recipes!Heard(steps[i])
  BY StepsCompile
<1>2. o \in OutputTypes /\ o.aac \in BOOLEAN /\ recording.audio \in BOOLEAN
  BY RecipesAssumption
<1>3. compiled = [graph |-> G, video |-> d.video, rate |-> o.rate, audio |-> A]
  BY DEF Recipes!Compiled, Recipes!Chain
<1> HIDE DEF steps, c, o
<1>4. fs \in Seq(RecipeFilter)
  <2> DEFINE limit == [type |-> "limit", width |-> o.width, height |-> o.height]
  <2>1. limit \in RecipeFilter
    BY <1>2, Zenon DEF RecipeFilter
  <2> HIDE DEF limit
  <2>2. <<limit>> \in Seq(RecipeFilter) /\ <<>> \in Seq(RecipeFilter)
    BY <2>1
  <2>3. fs = <<limit>> \/ fs = <<>>
    BY Zenon DEF Recipes!Limits, limit
  <2> QED  BY <2>2, <2>3
<1> HIDE DEF fs
<1>5. /\ Drawn(d) /\ d.sound = c.sound /\ d.audio = c.audio
      /\ Recipes!Passed(d.graph, d.video) = Picture(c) \o fs
      /\ \A l \in Recipes!Produced(d.graph) : l[1] \in {"v", "wm", "vwm", "vout", "vlimited"}
  BY <1>1, <1>4, PictureCompiles
<1> HIDE DEF d
<1>6. /\ d \in RecipeState /\ d.graph \in Seq(RecipeChain) /\ d.video \in RecipeLabel
      /\ d.sound \in Seq(RecipeFilter) /\ d.audio \in BOOLEAN
      /\ Wired(d.graph, {d.video})
  BY <1>5 DEF Drawn, RecipeState
<1>7. /\ stream \in RecipeLabel /\ la \in RecipeLabel /\ stream # la
      /\ Recipes!IsStream(stream) /\ ~Recipes!IsStream(la) /\ la[1] = "aout"
  BY DEF RecipeLabel, Recipes!Stream, Recipes!IsStream
<1> HIDE DEF stream, la
<1>8. /\ chain \in RecipeChain /\ chain.ins = <<stream>> /\ Len(chain.ins) = 1
      /\ chain.ins[1] = stream /\ chain.filters = d.sound /\ chain.out = la
  <2>1. <<stream>> \in Seq(RecipeLabel) /\ Len(<<stream>>) = 1
    BY <1>7
  <2> QED  BY <1>6, <1>7, <2>1 DEF RecipeChain, Recipes!Chain
<1> HIDE DEF chain
<1>9. /\ la \notin Recipes!Produced(d.graph) /\ stream \notin Recipes!Produced(d.graph)
      /\ d.video # la
  <2>1. stream \notin Recipes!Produced(d.graph)
    BY <1>6, <1>7 DEF Wired
  <2> QED  BY <1>5, <1>7, <2>1 DEF Drawn
<1>10. /\ G \in Seq(RecipeChain) /\ Recipes!Ordered(G)
       /\ Recipes!Produced(G) = Recipes!Produced(d.graph) \cup (IF with THEN {la} ELSE {})
       /\ \A l \in Recipes!Produced(G) :
            /\ ~Recipes!IsStream(l)
            /\ Recipes!Places(G, l) = {} <=> (l = d.video \/ (with /\ l = la))
            /\ \A at, bt \in Recipes!Places(G, l) : at = bt
       /\ Recipes!Passed(G, d.video) = Recipes!Passed(d.graph, d.video)
       /\ with => Recipes!Passed(G, la) = d.sound
       /\ ~with => Recipes!Passed(G, stream) = <<>>
  <2>0. Recipes!Passed(d.graph, stream) = <<>>
    <3>1. \A i \in 1..Len(d.graph) : d.graph[i].out # stream
      BY <1>6, <1>9 DEF Recipes!Produced
    <3> QED  BY <1>6, <1>7, <3>1, PassedIs
  <2>1. CASE with
    <3>1. G = Append(d.graph, chain)
      BY <2>1
    <3> HIDE DEF G, with
    <3>2. G \in Seq(RecipeChain) /\ Recipes!Produced(G) = Recipes!Produced(d.graph) \cup {la}
      BY <1>6, <1>8, <3>1, MoreInputs
    <3> DEFINE used == {chain.ins[j] : j \in 1..Len(chain.ins)}
               left == ({d.video} \ used) \cup {chain.out}
    <3>3. \A j \in 1..Len(chain.ins) : j = 1
      BY <1>8
    <3>4. used = {stream}
      <4>1. 1..1 = {1}
        OBVIOUS
      <4> QED  BY <1>8, <4>1
    <3>5. Wired(G, left)
      <4>1. \A j \in 1..Len(chain.ins) : Recipes!IsStream(chain.ins[j])
        BY <1>7, <1>8, <3>3
      <4>2. \A i, j \in 1..Len(chain.ins) : chain.ins[i] = chain.ins[j] => i = j
        BY <3>3
      <4>3. ~Recipes!IsStream(chain.out) /\ chain.out \notin Recipes!Produced(d.graph)
        BY <1>7, <1>8, <1>9
      <4> QED  BY <1>6, <1>8, <3>1, <4>1, <4>2, <4>3, WiredMore
    <3>6. ASSUME NEW l \in Recipes!Produced(G)
          PROVE  l \in left <=> (l = d.video \/ l = la)
      <4>1. ~Recipes!IsStream(l)
        BY <3>5 DEF Wired
      <4>2. l # stream
        BY <1>7, <4>1
      <4> HIDE DEF used
      <4> QED  BY <1>8, <3>4, <4>2
    <3> HIDE DEF left
    <3>7. /\ Recipes!Passed(G, d.video) = Recipes!Passed(d.graph, d.video)
          /\ Recipes!Passed(G, la) = <<>> \o d.sound
      <4>1. Recipes!Passed(G, d.video) = Recipes!Passed(d.graph, d.video)
        BY <1>6, <1>8, <1>9, <3>1, PassedAppend
      <4>2. Recipes!Passed(G, la) = Recipes!Passed(d.graph, chain.ins[1]) \o chain.filters
        BY <1>6, <1>7, <1>8, <3>1, PassedAppend
      <4> QED  BY <1>8, <2>0, <4>1, <4>2
    <3>8. <<>> \o d.sound = d.sound
      BY <1>6
    <3> QED  BY <2>1, <3>2, <3>5, <3>6, <3>7, <3>8 DEF Wired
  <2>2. CASE ~with
    <3>1. G = d.graph
      BY <2>2
    <3> HIDE DEF G, with
    <3> QED  BY <1>6, <2>0, <2>2, <3>1 DEF Wired
  <2> QED  BY <2>1, <2>2
<1> HIDE DEF G
<1>11. with = sounded
  BY <1>1, <1>2, <1>5
<1>12. /\ compiled.graph = G /\ compiled.video = d.video
       /\ compiled.audio = A /\ compiled.rate = o.rate
  BY <1>3
<1>13. A = IF sounds /\ o.aac THEN {IF with THEN la ELSE stream} ELSE {}
  BY <1>1, <1>5
<1> HIDE DEF compiled, with, A, sounds
<1>14. \A l \in Recipes!Produced(G) :
         l \in Recipes!Mapped(compiled) <=> (l = d.video \/ (with /\ l = la /\ sounds /\ o.aac))
  <2>1. stream \notin Recipes!Produced(G)
    BY <1>7, <1>10
  <2> QED  BY <1>12, <1>13, <2>1 DEF Recipes!Mapped
<1>15. Recipes!WellFormed(compiled)
  <2>1. ASSUME NEW l \in Recipes!Produced(G), NEW at \in Recipes!Uses(compiled, l),
               NEW bt \in Recipes!Uses(compiled, l)
        PROVE  at = bt
    <3>1. CASE Recipes!Places(G, l) = {}
      BY <1>12, <3>1 DEF Recipes!Uses
    <3>2. CASE Recipes!Places(G, l) # {}
      <4>1. l \notin Recipes!Mapped(compiled)
        BY <1>10, <1>14, <3>2
      <4>2. Recipes!Uses(compiled, l) = Recipes!Places(G, l)
        BY <1>12, <4>1 DEF Recipes!Uses
      <4> QED  BY <1>10, <4>2
    <3> QED  BY <3>1, <3>2
  <2>2. ASSUME NEW l \in Recipes!Mapped(compiled)
        PROVE  Recipes!IsStream(l) \/ l \in Recipes!Produced(G)
    <3>1. l = d.video \/ l \in A
      BY <1>12, <2>2 DEF Recipes!Mapped
    <3>2. CASE l = d.video
      BY <1>5, <1>10, <3>2 DEF Drawn
    <3>3. CASE l \in A
      BY <1>7, <1>10, <1>13, <3>3
    <3> QED  BY <3>1, <3>2, <3>3
  <2> QED  BY <1>10, <1>12, <2>1, <2>2 DEF Recipes!WellFormed
<1>16. Recipes!Unconnected(compiled) = IF sounded /\ ~o.aac THEN {la} ELSE {}
  <2>1. ASSUME NEW l \in Recipes!Produced(G)
        PROVE  Recipes!Uses(compiled, l) = {} <=> l = la /\ with /\ ~o.aac
    <3>1. Recipes!Uses(compiled, l) = {} <=>
            Recipes!Places(G, l) = {} /\ l \notin Recipes!Mapped(compiled)
      BY <1>12 DEF Recipes!Uses
    <3>2. with => sounds
      BY <1>11
    <3> QED  BY <1>2, <1>9, <1>10, <1>14, <3>1, <3>2
  <2>2. with => la \in Recipes!Produced(G)
    BY <1>10
  <2>3. Recipes!Unconnected(compiled) = {l \in Recipes!Produced(G) : l = la /\ with /\ ~o.aac}
    BY <1>12, <2>1 DEF Recipes!Unconnected
  <2> HIDE DEF sounded
  <2> QED  BY <1>11, <2>2, <2>3
<1>17. Recipes!Passed(compiled.graph, compiled.video) = Visible(steps) \o fs
  BY <1>1, <1>5, <1>10, <1>12
<1>18. \A l \in compiled.audio : Recipes!Passed(compiled.graph, l) = Audible(steps)
  <2> SUFFICES ASSUME NEW l \in A PROVE Recipes!Passed(G, l) = Audible(steps)
    BY <1>12
  <2>1. sounds /\ l = IF with THEN la ELSE stream
    BY <1>13
  <2>2. d.sound = Audible(steps)
    BY <1>1, <1>5, <2>1
  <2>3. ~with => Audible(steps) = <<>>
    BY <1>1, <1>11, <2>1
  <2> QED  BY <1>10, <2>1, <2>2, <2>3
<1>19. (compiled.audio # {}) = (sounds /\ o.aac)
  BY <1>12, <1>13
<1> QED  BY <1>12, <1>15, <1>16, <1>17, <1>18, <1>19 DEF compiled, steps, o, fs, la, sounds

\* What a step makes of a frame, of what remains and of its expected length.
LEMMA StepFilters ==
  ASSUME NEW frame \in RecipeFrame, NEW s \in StepTypes, Recipes!ValidStep(s),
         NEW e \in Nat, frame.length <= e
  PROVE  LET g == IF Recipes!Seen(s) THEN Recipes!Filtered(frame, s) ELSE frame
         IN  /\ g \in RecipeFrame /\ g.rate = frame.rate
             /\ g.length <= Recipes!Shortened(e, s)
             /\ g.length = Recipes!Trimmed(frame.length, s)
             /\ s.type = "fit" => /\ g.width = s.width /\ g.height = s.height
                                  /\ g.width % 2 = 0 /\ g.height % 2 = 0
             /\ s.type # "fit" => g.width = frame.width /\ g.height = frame.height
<1> DEFINE g == IF Recipes!Seen(s) THEN Recipes!Filtered(frame, s) ELSE frame
<1>1. /\ frame.width \in Nat \ {0} /\ frame.height \in Nat \ {0} /\ frame.length \in Nat
      /\ frame.rate \in Nat
  BY DEF RecipeFrame
<1>2. CASE s.type = "trim"
  <2> DEFINE length == Recipes!Kept(frame.length, s)
  <2>1. s.start \in Nat /\ s.ms \in Nat /\ s.until \in {"none", "end", "duration"}
    BY <1>2, RecipesAssumption
  <2>2. s.until = "end" => s.ms > s.start
    BY <1>2 DEF Recipes!ValidStep
  <2>3. length \in Nat /\ length <= Recipes!Shortened(e, s)
    BY <1>1, <1>2, <2>1, <2>2
    DEF Recipes!Kept, Recipes!Greatest, Recipes!Least, Recipes!Shortened
  <2>4. g = [frame EXCEPT !.length = length]
    BY <1>2 DEF Recipes!Seen, Recipes!Filtered
  <2> HIDE DEF length, g
  <2>5. /\ g \in RecipeFrame /\ g.length = length /\ g.width = frame.width
        /\ g.height = frame.height /\ g.rate = frame.rate
    BY <2>3, <2>4 DEF RecipeFrame
  <2>6. Recipes!Trimmed(frame.length, s) = length
    BY <1>2 DEF Recipes!Trimmed, length
  <2> QED  BY <1>2, <2>3, <2>5, <2>6 DEF g
<1>3. CASE s.type = "fit"
  <2>1. /\ s.width \in Nat \ {0} /\ s.height \in Nat \ {0}
        /\ s.width % 2 = 0 /\ s.height % 2 = 0
    BY <1>3, RecipesAssumption DEF Recipes!ValidStep
  <2>2. g = [frame EXCEPT !.width = s.width, !.height = s.height]
    BY <1>3 DEF Recipes!Seen, Recipes!Filtered
  <2>3. Recipes!Shortened(e, s) = e /\ Recipes!Trimmed(frame.length, s) = frame.length
    BY <1>3 DEF Recipes!Shortened, Recipes!Trimmed
  <2> HIDE DEF g
  <2>4. /\ g \in RecipeFrame /\ g.length = frame.length /\ g.width = s.width
        /\ g.height = s.height /\ g.rate = frame.rate
    BY <2>1, <2>2 DEF RecipeFrame
  <2> QED  BY <1>3, <2>1, <2>3, <2>4 DEF g
<1>4. CASE s.type \in {"audio", "captions", "watermark"}
  <2>1. g = frame
    BY <1>4 DEF Recipes!Filtered
  <2>2. Recipes!Shortened(e, s) = e /\ Recipes!Trimmed(frame.length, s) = frame.length
    BY <1>4 DEF Recipes!Shortened, Recipes!Trimmed
  <2> QED  BY <1>1, <1>4, <2>1, <2>2
<1>5. s.type \in {"trim", "fit", "audio", "captions", "watermark"}
  BY RecipesAssumption
<1> QED  BY <1>2, <1>3, <1>4, <1>5

\* The frame after all steps: it has the size of the last fit, an even one, and
\* is no longer than expected.
FitAt(steps, i) == i \in DOMAIN steps /\ steps[i].type = "fit"

\* The steps give the picture the size of the last fit, an even one, the length
\* the trims leave, and no more than the one that is expected.
LEMMA StepsFilter ==
  ASSUME NEW p, NEW recording \in SourceTypes, NEW steps \in Seq(StepTypes),
         Recipes!StepsOf(p) = steps, \A i \in DOMAIN steps : Recipes!ValidStep(steps[i])
  PROVE  LET w == Recipes!FilteredBy(recording, Visible(steps))
         IN  /\ Visible(steps) \in Seq(StepTypes)
             /\ w \in RecipeFrame /\ w.rate = recording.rate
             /\ w.length <= Recipes!Expected(p, recording) /\ Recipes!Expected(p, recording) \in Nat
             /\ w.length = Recipes!Remaining(p, recording)
             /\ \A i : /\ FitAt(steps, i) => w.width % 2 = 0 /\ w.height % 2 = 0
                       /\ FitAt(steps, i) /\ (\A j : FitAt(steps, j) => j <= i) =>
                            w.width = steps[i].width /\ w.height = steps[i].height
<1> DEFINE n == Len(steps)
           S == {s \in {steps[i] : i \in DOMAIN steps} : Recipes!Seen(s)}
<1>1. /\ n \in Nat /\ DOMAIN steps = 1..n /\ \A k \in 1..n : steps[k] \in StepTypes
      /\ recording \in RecipeFrame /\ recording.length \in Nat
  BY RecipesAssumption DEF RecipeFrame
<1>2. \A k \in 1..n : steps[k] \in S <=> Recipes!Seen(steps[k])
  BY <1>1
<1> HIDE DEF S
<1>3. PICK g : /\ g[0] = <<>>
               /\ \A k \in 1..n : g[k] =
                    IF steps[k] \in S THEN Append(g[k - 1], steps[k]) ELSE g[k - 1]
               /\ Recipes!Among(steps, S) = g[n]
  BY AmongBy
<1>4. PICK e : /\ e[0] = recording.length
               /\ \A k \in 1..n : e[k] = Recipes!Shortened(e[k - 1], steps[k])
               /\ Recipes!Expected(p, recording) = e[n]
  <2>1. PICK e : /\ e[0] = recording.length
                 /\ \A k \in 1..Len(Recipes!StepsOf(p)) :
                      e[k] = Recipes!Shortened(e[k - 1], Recipes!StepsOf(p)[k])
                 /\ Recipes!Expected(p, recording) = e[Len(Recipes!StepsOf(p))]
    BY <1>1, ExpectedBy
  <2> QED  BY <2>1
<1>11. PICK l : /\ l[0] = recording.length
                /\ \A k \in 1..n : l[k] = Recipes!Trimmed(l[k - 1], steps[k])
                /\ Recipes!Remaining(p, recording) = l[n]
  <2>1. PICK l : /\ l[0] = recording.length
                 /\ \A k \in 1..Len(Recipes!StepsOf(p)) :
                      l[k] = Recipes!Trimmed(l[k - 1], Recipes!StepsOf(p)[k])
                 /\ Recipes!Remaining(p, recording) = l[Len(Recipes!StepsOf(p))]
    BY <1>1, RemainingBy
  <2> QED  BY <2>1
<1> HIDE DEF n
<1> DEFINE w(k) == Recipes!FilteredBy(recording, g[k])
           Fit(k, i) == i \in 1..k /\ steps[i].type = "fit"
           Sized(k) == \A i : /\ Fit(k, i) => w(k).width % 2 = 0 /\ w(k).height % 2 = 0
                              /\ Fit(k, i) /\ (\A j : Fit(k, j) => j <= i) =>
                                   w(k).width = steps[i].width /\ w(k).height = steps[i].height
           Known(k) == /\ g[k] \in Seq(StepTypes) /\ e[k] \in Nat
                       /\ w(k) \in RecipeFrame /\ w(k).rate = recording.rate
                       /\ w(k).length <= e[k] /\ w(k).length = l[k] /\ Sized(k)
           Ks == {k \in Nat : k <= n => Known(k)}
<1>5. \A q \in Seq(StepTypes), s \in StepTypes :
        /\ Append(q, s) \in Seq(StepTypes)
        /\ Recipes!FilteredBy(recording, Append(q, s)) =
             Recipes!Filtered(Recipes!FilteredBy(recording, q), s)
  BY FilteredByAppend
<1>6. 0 \in Ks
  <2>1. <<>> \in Seq(StepTypes) /\ 1..0 = {}
    OBVIOUS
  <2>2. w(0) = recording
    BY <1>3, FilteredByNone
  <2>3. /\ g[0] \in Seq(StepTypes) /\ e[0] \in Nat
        /\ e[0] = recording.length /\ l[0] = recording.length
    BY <1>1, <1>3, <1>4, <1>11, <2>1
  <2>4. Sized(0)
    <3>1. \A i : ~Fit(0, i)
      BY <2>1
    <3> QED  BY <3>1
  <2>5. Known(0)
    <3> HIDE DEF w, Sized
    <3> QED  BY <1>1, <2>2, <2>3, <2>4
  <2> QED  BY <2>5
<1>7. ASSUME NEW k \in Nat, k \in Ks PROVE k + 1 \in Ks
  <2> SUFFICES ASSUME k + 1 <= n PROVE Known(k + 1)
    OBVIOUS
  <2> DEFINE s == steps[k + 1]
             a == w(k)
             b == w(k + 1)
  <2>1. k + 1 \in 1..n /\ (k + 1) - 1 = k /\ k <= n
    BY <1>1
  <2>2. Known(k)
    BY <1>7, <2>1
  <2>3. /\ s \in StepTypes /\ Recipes!ValidStep(s) /\ e[k + 1] = Recipes!Shortened(e[k], s)
        /\ l[k + 1] = Recipes!Trimmed(l[k], s)
    BY <1>1, <1>4, <1>11, <2>1
  <2>4. /\ g[k + 1] \in Seq(StepTypes)
        /\ b = IF Recipes!Seen(s) THEN Recipes!Filtered(a, s) ELSE a
    <3>1. g[k + 1] = IF Recipes!Seen(s) THEN Append(g[k], s) ELSE g[k]
      BY <1>2, <1>3, <2>1
    <3>2. g[k] \in Seq(StepTypes)
      BY <2>2
    <3> HIDE DEF s
    <3>3. CASE Recipes!Seen(s)
      BY <1>5, <2>3, <3>1, <3>2, <3>3
    <3>4. CASE ~Recipes!Seen(s)
      BY <3>1, <3>2, <3>4
    <3> QED  BY <3>3, <3>4
  <2>5. e[k + 1] \in Nat
    BY <2>2, <2>3, ShortenedIsNat
  <2>6. /\ b \in RecipeFrame /\ b.rate = a.rate /\ b.length <= e[k + 1] /\ b.length = l[k + 1]
        /\ s.type = "fit" => /\ b.width = s.width /\ b.height = s.height
                             /\ b.width % 2 = 0 /\ b.height % 2 = 0
        /\ s.type # "fit" => b.width = a.width /\ b.height = a.height
    <3>1. a \in RecipeFrame /\ e[k] \in Nat /\ a.length <= e[k] /\ a.length = l[k]
      BY <2>2
    <3> HIDE DEF a, b, s
    <3> QED  BY <2>3, <2>4, <3>1, StepFilters
  <2>7. Sized(k + 1)
    <3> SUFFICES ASSUME NEW i, Fit(k + 1, i)
                 PROVE  /\ b.width % 2 = 0 /\ b.height % 2 = 0
                        /\ (\A j : Fit(k + 1, j) => j <= i) =>
                             b.width = steps[i].width /\ b.height = steps[i].height
      BY Zenon
    <3>1. \A j : Fit(k + 1, j) <=> Fit(k, j) \/ (j = k + 1 /\ s.type = "fit")
      BY <2>1
    <3>2. Sized(k)
      BY <2>2
    <3>3. k + 1 > k /\ \A j : Fit(k, j) => j <= k /\ j \in Nat
      OBVIOUS
    <3> HIDE DEF w, Fit
    <3>4. CASE s.type = "fit"
      <4>1. ASSUME \A j : Fit(k + 1, j) => j <= i PROVE i = k + 1
        <5>1. Fit(k + 1, k + 1)
          BY <3>1, <3>4
        <5> QED  BY <3>1, <3>3, <4>1, <5>1
      <4> QED  BY <2>6, <3>4, <4>1
    <3>5. CASE s.type # "fit"
      BY <2>6, <3>1, <3>2, <3>5
    <3> QED  BY <3>4, <3>5
  <2> QED  BY <2>2, <2>4, <2>5, <2>6, <2>7
<1> HIDE DEF Ks, Known
<1>8. Known(n)
  <2>1. n \in Ks
    BY <1>1, <1>6, <1>7, SetInduction
  <2> QED  BY <1>1, <2>1 DEF Ks
<1>9. Visible(steps) = g[n]
  BY <1>3 DEF Visible, S
<1>10. \A i : FitAt(steps, i) <=> Fit(n, i)
  BY <1>1 DEF FitAt
<1> QED  BY <1>4, <1>8, <1>9, <1>10, <1>11 DEF Known

\* A rounded proportion is a number.
LEMMA NearestIsInt ==
  ASSUME NEW m \in Int, NEW n \in Nat \ {0}
  PROVE  Recipes!Nearest(m, n) \in Int
<1> DEFINE a == 2 * m + n
           b == 2 * n
<1>1. a \in Int /\ b \in Nat \ {0}
  OBVIOUS
<1> HIDE DEF a, b
<1>2. a \div b \in Int
  BY <1>1
<1> QED  BY <1>2 DEF Recipes!Nearest, a, b

\* A limited frame may have no pixel left.
RenderedFrame == [width : Int, height : Int, audio : BOOLEAN, rate : Nat, length : Nat]

\* A limit is not exceeded, and the length and the rate do not depend on it.
LEMMA LimitHolds ==
  ASSUME NEW frame \in RecipeFrame, NEW o \in OutputTypes
  PROVE  LET g == Recipes!Filtered(frame,
                        [type |-> "limit", width |-> o.width, height |-> o.height])
         IN  /\ \A n \in o.width : g.width <= n
             /\ \A n \in o.height : g.height <= n
             /\ g.length = frame.length /\ g.rate = frame.rate /\ g \in RenderedFrame
<1> DEFINE w == Recipes!Bounded(o.width, frame.width)
           h == Recipes!Bounded(o.height, frame.height)
           x == Recipes!Nearest(h * frame.width, frame.height)
           y == Recipes!Nearest(w * frame.height, frame.width)
           g == Recipes!Filtered(frame, [type |-> "limit", width |-> o.width, height |-> o.height])
<1>1. /\ frame.width \in Nat \ {0} /\ frame.height \in Nat \ {0}
  BY DEF RecipeFrame
<1>2. ASSUME NEW limit \in {o.width, o.height}, NEW n \in Nat \ {0}
      PROVE  /\ Recipes!Bounded(limit, n) \in Nat
             /\ \A m \in limit : m \in Nat /\ Recipes!Bounded(limit, n) <= m
  <2>1. limit \subseteq Nat /\ \A k, m \in limit : k = m
    BY RecipesAssumption
  <2>2. ASSUME NEW m \in limit PROVE (CHOOSE k \in limit : TRUE) = m
    BY <2>1
  <2>3. CASE limit = {}
    BY <2>3 DEF Recipes!Bounded
  <2>4. ASSUME NEW m \in limit PROVE /\ Recipes!Bounded(limit, n) \in Nat
                                     /\ m \in Nat /\ Recipes!Bounded(limit, n) <= m
    <3>1. Recipes!Bounded(limit, n) = Recipes!Least(m, n)
      <4>1. limit # {} /\ (CHOOSE k \in limit : TRUE) = m
        BY <2>2
      <4> QED  BY <4>1, Zenon DEF Recipes!Bounded
    <3>2. m \in Nat
      BY <2>1
    <3> QED  BY <3>1, <3>2 DEF Recipes!Least
  <2> QED  BY <2>3, <2>4
<1>3. /\ w \in Nat /\ h \in Nat
      /\ \A m \in o.width : m \in Nat /\ w <= m
      /\ \A m \in o.height : m \in Nat /\ h <= m
  BY <1>1, <1>2
<1> HIDE DEF w, h
<1>4. x \in Int /\ y \in Int
  <2>1. h * frame.width \in Int /\ w * frame.height \in Int
    BY <1>1, <1>3
  <2> QED  BY <1>1, <2>1, NearestIsInt
<1>5. g = [frame EXCEPT !.width = Recipes!Least(w, x), !.height = Recipes!Least(h, y)]
  BY DEF Recipes!Filtered, w, h
<1> HIDE DEF x, y, g
<1>6. /\ g.width = Recipes!Least(w, x) /\ g.height = Recipes!Least(h, y)
      /\ g.length = frame.length /\ g.rate = frame.rate
  <2> DEFINE lw == Recipes!Least(w, x)
             lh == Recipes!Least(h, y)
  <2>1. g = [frame EXCEPT !.width = lw, !.height = lh]
    BY <1>5
  <2> HIDE DEF lw, lh
  <2>2. g.width = lw /\ g.height = lh /\ g.length = frame.length /\ g.rate = frame.rate
    BY <2>1 DEF RecipeFrame
  <2> QED  BY <2>2 DEF lw, lh
<1>7. /\ Recipes!Least(w, x) \in Int /\ Recipes!Least(w, x) <= w
      /\ Recipes!Least(h, y) \in Int /\ Recipes!Least(h, y) <= h
  BY <1>3, <1>4 DEF Recipes!Least
<1>8. (\A n \in o.width : g.width <= n) /\ (\A n \in o.height : g.height <= n)
  BY <1>3, <1>6, <1>7
<1>9. g \in RenderedFrame
  <2> DEFINE lw == Recipes!Least(w, x)
             lh == Recipes!Least(h, y)
  <2>1. g = [frame EXCEPT !.width = lw, !.height = lh] /\ lw \in Int /\ lh \in Int
    BY <1>5, <1>7
  <2> HIDE DEF lw, lh
  <2> QED  BY <2>1 DEF RecipeFrame, RenderedFrame
<1> QED  BY <1>6, <1>8, <1>9 DEF g

\* The frame that comes out of all the filters of the picture.
LEMMA LimitsFilter ==
  ASSUME NEW recording, NEW shown \in Seq(StepTypes), NEW o \in OutputTypes,
         Recipes!FilteredBy(recording, shown) \in RecipeFrame
  PROVE  LET w == Recipes!FilteredBy(recording, shown)
             g == Recipes!FilteredBy(recording, shown \o Recipes!Limits(o))
         IN  /\ ~Recipes!Limited(o) => g = w
             /\ \A n \in o.width : g.width <= n
             /\ \A n \in o.height : g.height <= n
             /\ g.length = w.length /\ g.rate = w.rate /\ g \in RenderedFrame
<1> DEFINE w == Recipes!FilteredBy(recording, shown)
           g == Recipes!FilteredBy(recording, shown \o Recipes!Limits(o))
           limit == [type |-> "limit", width |-> o.width, height |-> o.height]
<1>1. CASE Recipes!Limited(o)
  <2>1. Recipes!Limits(o) = <<limit>> /\ limit \in RecipeFilter
    BY <1>1 DEF Recipes!Limits, RecipeFilter
  <2> HIDE DEF limit
  <2>2. shown \in Seq(RecipeFilter)
    BY DEF RecipeFilter
  <2>3. shown \o <<limit>> = Append(shown, limit)
    BY <2>1, <2>2
  <2>4. g = Recipes!Filtered(w, limit)
    BY <2>1, <2>2, <2>3, FilteredByAppend
  <2> HIDE DEF w, g
  <2>5. LET v == Recipes!Filtered(w, limit)
        IN  /\ \A n \in o.width : v.width <= n
            /\ \A n \in o.height : v.height <= n
            /\ v.length = w.length /\ v.rate = w.rate /\ v \in RenderedFrame
    <3>1. w \in RecipeFrame
      BY DEF w
    <3> QED  BY <3>1, LimitHolds DEF limit
  <2> QED  BY <1>1, <2>4, <2>5 DEF w, g
<1>2. CASE ~Recipes!Limited(o)
  <2>1. Recipes!Limits(o) = <<>> /\ o.width = {} /\ o.height = {}
    BY <1>2 DEF Recipes!Limits, Recipes!Limited
  <2>2. shown \o <<>> = shown
    OBVIOUS
  <2>3. g = w
    BY <2>1, <2>2
  <2>4. w \in RenderedFrame
    <3> HIDE DEF w
    <3>1. w \in RecipeFrame
      BY DEF w
    <3> QED  BY <3>1 DEF RecipeFrame, RenderedFrame
  <2> HIDE DEF w, g
  <2> QED  BY <2>1, <2>3, <2>4 DEF w, g
<1> QED  BY <1>1, <1>2

\* What a plan compiles to, and what FFmpeg makes of it.
LEMMA RecipeIs ==
  RecipeInv => Recipes!StepsOf(plan) \in Seq(StepTypes) /\ Recipes!OutputOf(plan) \in OutputTypes
<1> SUFFICES ASSUME RecipeInv
             PROVE  /\ Recipes!StepsOf(plan) \in Seq(StepTypes)
                    /\ Recipes!OutputOf(plan) \in OutputTypes
  OBVIOUS
<1> DEFINE Plans == [steps : Seq(StepTypes), output : OutputTypes, destination : SUBSET RecipeKind]
<1>1. PICK p \in Plans : p = plan /\ \A r, s \in p.destination : r = s
  BY DEF RecipeInv
<1>2. CASE p.destination = {}
  BY <1>1, <1>2, BothRecipes DEF Recipes!OutputOf
<1>3. ASSUME NEW r \in p.destination
      PROVE  /\ Recipes!StepsOf(plan) \in Seq(StepTypes)
             /\ Recipes!OutputOf(plan) \in OutputTypes
  <2>1. r \in RecipeKind /\ p.destination = {r} /\ Recipes!StepsOf(p) = p.steps \o r.steps
    BY <1>1, BothRecipes
  <2>2. Recipes!OutputOf(p) = r.output
    <3>1. (CHOOSE s \in p.destination : TRUE) = r /\ p.destination # {}
      BY <2>1
    <3> QED  BY <3>1, Zenon DEF Recipes!OutputOf
  <2>3. r.output \in OutputTypes /\ r.steps \in Seq(StepTypes) /\ p.steps \in Seq(StepTypes)
    BY <2>1 DEF RecipeKind
  <2> QED  BY <1>1, <2>1, <2>2, <2>3
<1> QED  BY <1>2, <1>3

\* Every plan of the recipe renders.
LEMMA RecipeRenders == RecipeInv => Recipes!PlanRenders
<1> SUFFICES ASSUME RecipeInv PROVE Recipes!PlanRenders
  OBVIOUS
<1> DEFINE steps == Recipes!StepsOf(plan)
           o == Recipes!OutputOf(plan)
           compiled == Recipes!Compiled(plan, media)
           w == Recipes!FilteredBy(media, Visible(steps))
           g == Recipes!FilteredBy(media, Visible(steps) \o Recipes!Limits(o))
           frame == Recipes!Rendered(compiled, media)
           expected == Recipes!Expected(plan, media)
           sounds == media.audio /\ ~Silenced(steps)
           sounded == sounds /\ \E i \in DOMAIN steps : Recipes!Heard(steps[i])
<1>1. /\ steps \in Seq(StepTypes) /\ o \in OutputTypes /\ media \in SourceTypes
      /\ \A i \in DOMAIN steps : Recipes!ValidStep(steps[i])
  BY RecipeIs DEF RecipeInv
<1>2. /\ Recipes!WellFormed(compiled)
      /\ Recipes!Unconnected(compiled) = IF sounded /\ ~o.aac THEN {<<"aout", 0>>} ELSE {}
      /\ Recipes!Passed(compiled.graph, compiled.video) = Visible(steps) \o Recipes!Limits(o)
      /\ \A l \in compiled.audio : Recipes!Passed(compiled.graph, l) = Audible(steps)
      /\ (compiled.audio # {}) = (sounds /\ o.aac)
      /\ compiled.rate = o.rate
  BY <1>1, CommandIs
<1>3. /\ Visible(steps) \in Seq(StepTypes)
      /\ w \in RecipeFrame /\ w.rate = media.rate
      /\ w.length <= expected /\ expected \in Nat /\ w.length = Recipes!Remaining(plan, media)
      /\ \A i : /\ FitAt(steps, i) => w.width % 2 = 0 /\ w.height % 2 = 0
                /\ FitAt(steps, i) /\ (\A j : FitAt(steps, j) => j <= i) =>
                     w.width = steps[i].width /\ w.height = steps[i].height
  BY <1>1, StepsFilter
<1>4. /\ ~Recipes!Limited(o) => g = w
      /\ \A n \in o.width : g.width <= n
      /\ \A n \in o.height : g.height <= n
      /\ g.length = w.length /\ g.rate = w.rate /\ g \in RenderedFrame
  BY <1>1, <1>3, LimitsFilter
<1>5. \A i : i \in Recipes!OfType(plan, "fit") <=> FitAt(steps, i)
  BY DEF Recipes!OfType, FitAt
<1>6. (\E i \in Recipes!OfType(plan, "audio") : steps[i].mode = "remove") = Silenced(steps)
  BY DEF Recipes!OfType, Silenced, Recipes!Removes
<1> HIDE DEF steps, o, compiled, w, g, expected, frame, sounds, sounded
<1>7. Recipes!GraphIsWellFormed
  <2>1. sounded = (media.audio /\ (\E i \in DOMAIN steps : Recipes!Heard(steps[i]))
                              /\ (\A i \in DOMAIN steps : ~Recipes!Removes(steps[i])))
    BY DEF sounded, sounds, Silenced
  <2> QED  BY <1>2, <2>1 DEF Recipes!GraphIsWellFormed, steps, o, compiled
<1>8. Recipes!StepsKeepOrder
  BY <1>2 DEF Recipes!StepsKeepOrder, Visible, Audible, steps, o, compiled
<1>9. frame = [g EXCEPT !.audio = compiled.audio # {},
                        !.rate = IF o.rate = {} THEN @ ELSE CHOOSE r \in o.rate : TRUE]
  BY <1>2 DEF Recipes!Rendered, g, frame
<1>10. /\ frame.width = g.width /\ frame.height = g.height /\ frame.length = g.length
       /\ frame.audio = (compiled.audio # {})
       /\ frame.rate = IF o.rate = {} THEN g.rate ELSE CHOOSE r \in o.rate : TRUE
  <2> DEFINE rate == IF o.rate = {} THEN g.rate ELSE CHOOSE r \in o.rate : TRUE
             heard == compiled.audio # {}
  <2>1. frame = [g EXCEPT !.audio = heard, !.rate = rate]
    BY <1>9
  <2> HIDE DEF rate, heard
  <2>2. /\ frame.width = g.width /\ frame.height = g.height /\ frame.length = g.length
        /\ frame.audio = heard /\ frame.rate = rate
    BY <1>4, <2>1 DEF RenderedFrame
  <2> QED  BY <2>2 DEF rate, heard
<1>11. \A n \in o.rate : frame.rate = n /\ n <= n
  <2> SUFFICES ASSUME NEW n \in o.rate PROVE frame.rate = n /\ n <= n
    OBVIOUS
  <2>1. n \in Nat /\ \A r \in o.rate : r = n
    BY <1>1, RecipesAssumption
  <2>2. o.rate # {} /\ (CHOOSE r \in o.rate : TRUE) = n
    BY <2>1
  <2> QED  BY <1>10, <2>1, <2>2
<1>12. Recipes!Accepted(plan, media, frame) <=> Recipes!Remaining(plan, media) > 0
  <2>1. \A i : /\ i \in Recipes!OfType(plan, "fit")
               /\ \A j \in Recipes!OfType(plan, "fit") : j <= i
               => (~Recipes!Limited(o) => /\ frame.width = steps[i].width
                                          /\ frame.height = steps[i].height)
    <3> SUFFICES ASSUME NEW i, FitAt(steps, i), \A j : FitAt(steps, j) => j <= i,
                        ~Recipes!Limited(o)
                 PROVE  frame.width = steps[i].width /\ frame.height = steps[i].height
      BY <1>5
    <3> QED  BY <1>3, <1>4, <1>10
  <2>2. /\ \A n \in o.width : frame.width <= n
        /\ \A n \in o.height : frame.height <= n
        /\ \A n \in o.rate : frame.rate <= n
    BY <1>4, <1>10, <1>11
  <2>3. frame.audio = (media.audio /\ ~Silenced(steps) /\ o.aac)
    BY <1>2, <1>10 DEF sounds
  <2>4. frame.length = Recipes!Remaining(plan, media)
    BY <1>3, <1>4, <1>10
  <2> QED  BY <1>6, <2>1, <2>2, <2>3, <2>4 DEF Recipes!Accepted, steps, o
<1>13. Recipes!OfType(plan, "fit") # {} /\ ~Recipes!Limited(o) => Recipes!Encodes(frame)
  <2> SUFFICES ASSUME NEW i, FitAt(steps, i), ~Recipes!Limited(o) PROVE Recipes!Encodes(frame)
    BY <1>5
  <2>1. frame.width = w.width /\ frame.height = w.height
    BY <1>4, <1>10
  <2> QED  BY <1>3, <2>1 DEF Recipes!Encodes
<1>14. Recipes!OutputPasses
  BY <1>12, <1>13 DEF Recipes!OutputPasses, o, compiled, frame
<1>15. Recipes!ProgressNotAhead
  <2>1. frame.length = w.length /\ w.length \in Nat
    BY <1>3, <1>4, <1>10 DEF RecipeFrame
  <2>2. expected >= frame.length
    BY <1>3, <2>1
  <2> QED  BY <2>2 DEF Recipes!ProgressNotAhead, expected, compiled, frame
<1> QED  BY <1>7, <1>8, <1>14, <1>15 DEF Recipes!PlanRenders

-----------------------------------------------------------------------------
(* WorkflowForm                                                            *)

\* The steps that forms and migrations make.
EditorSteps ==
  {Forms!SourceStep(r, k) : r \in BOOLEAN, k \in Forms!FolderKinds}
  \cup {Forms!FilterStep}
  \cup {Forms!TransformStep(s, e, f) : s \in Forms!Sizes, e \in BOOLEAN, f \in {"crop", "stretch"}}
  \cup {Forms!ScheduleStep(g) : g \in BOOLEAN}
  \cup {Forms!DestinationStep(t) : t \in Forms!Destination}
Order(s) == Forms!StepOrder[s.kind]
\* A chain: its source and steps of later and later kinds, up to one kind.
Leads(c, last) ==
  /\ c \in Seq(EditorSteps) /\ Len(c) >= 1 /\ c[1].kind = "source"
  /\ \A i \in 2..Len(c) : c[i].kind \in {"filter", "transform", "schedule"}
  /\ \A i \in 1..(Len(c) - 1) : Order(c[i]) < Order(c[i + 1])
  /\ Order(c[Len(c)]) <= last
Elements(c) == {c[i] : i \in DOMAIN c}

\* The order of the kinds of steps.
LEMMA KindOrder ==
  /\ Forms!StepOrder["source"] = 0 /\ Forms!StepOrder["filter"] = 1
  /\ Forms!StepOrder["transform"] = 2 /\ Forms!StepOrder["transcription"] = 3
  /\ Forms!StepOrder["captions"] = 4 /\ Forms!StepOrder["schedule"] = 5
  /\ Forms!StepOrder["destination"] = 6
BY DEF Forms!StepOrder

\* A chain of the source alone, and one with a further step.
LEMMA ChainStarts ==
  ASSUME NEW s \in EditorSteps, s.kind = "source"
  PROVE  Leads(<<s>>, 0) /\ Elements(<<s>>) = {s}
<1>1. <<s>> \in Seq(EditorSteps) /\ Len(<<s>>) = 1 /\ <<s>>[1] = s /\ DOMAIN <<s>> = {1}
  OBVIOUS
<1> HIDE DEF EditorSteps
<1> QED  BY <1>1, KindOrder DEF Leads, Elements, Order

\* A step of a later kind follows; or none does.
LEMMA ChainGoesOn ==
  ASSUME NEW c, NEW n \in 0..4, Leads(c, n), NEW s \in EditorSteps,
         NEW m \in 0..5, n < m, Order(s) = m,
         s.kind \in {"filter", "transform", "schedule"}
  PROVE  /\ Leads(c \o <<s>>, m) /\ Elements(c \o <<s>>) = Elements(c) \cup {s}
         /\ c \o <<>> = c /\ Leads(c, m)
<1>1. c \in Seq(EditorSteps) /\ Len(c) \in Nat /\ DOMAIN c = 1..Len(c) /\ Len(c) >= 1
      /\ Order(c[Len(c)]) <= n
  BY DEF Leads
<1>0. ASSUME NEW i \in 1..Len(c) PROVE Order(c[i]) \in Nat
  <2>1. c[i].kind \in {"source", "filter", "transform", "schedule"}
    BY <1>1 DEF Leads
  <2> QED  BY <2>1, KindOrder DEF Order
<1>2. Leads(c \o <<s>>, m) /\ Elements(c \o <<s>>) = Elements(c) \cup {s}
  <2> DEFINE e == c \o <<s>>
  <2>1. /\ e \in Seq(EditorSteps) /\ Len(e) = Len(c) + 1 /\ DOMAIN e = 1..(Len(c) + 1)
        /\ \A i \in 1..Len(c) : e[i] = c[i]
        /\ e[Len(c) + 1] = s
    BY <1>1
  <2> HIDE DEF e
  <2>2. Elements(e) = Elements(c) \cup {s}
    BY <1>1, <2>1 DEF Elements
  <2>3. ASSUME NEW i \in 1..(Len(e) - 1) PROVE Order(e[i]) < Order(e[i + 1])
    <3>1. CASE i = Len(c)
      BY <1>1, <1>0, <2>1, <3>1
    <3>2. CASE i # Len(c)
      <4>1. i \in 1..(Len(c) - 1) /\ e[i] = c[i] /\ e[i + 1] = c[i + 1]
        BY <1>1, <2>1, <3>2
      <4> QED  BY <4>1 DEF Leads
    <3> QED  BY <3>1, <3>2
  <2>4. ASSUME NEW i \in 2..Len(e) PROVE e[i].kind \in {"filter", "transform", "schedule"}
    <3>1. CASE i = Len(c) + 1
      BY <2>1, <3>1
    <3>2. CASE i # Len(c) + 1
      <4>1. i \in 2..Len(c) /\ e[i] = c[i]
        BY <1>1, <2>1, <3>2
      <4> QED  BY <4>1 DEF Leads
    <3> QED  BY <3>1, <3>2
  <2>5. e[1].kind = "source" /\ Len(e) >= 1
    BY <1>1, <2>1 DEF Leads
  <2>6. Order(e[Len(e)]) <= m
    BY <1>1, <2>1
  <2>7. Leads(e, m)
    BY <2>1, <2>3, <2>4, <2>5, <2>6 DEF Leads
  <2> QED  BY <2>2, <2>7 DEF e
<1>3. c \o <<>> = c /\ Leads(c, m)
  <2>1. c \o <<>> = c
    BY <1>1
  <2>2. Leads(c, m)
    BY <1>1, <1>0 DEF Leads
  <2> QED  BY <2>1, <2>2
<1> QED  BY <1>2, <1>3

\* A chain with its destinations: where its steps are, and its edges.
Fans(c, ds) == Leads(c, 5) /\ ds \in Seq(Forms!Destination) /\ ds # <<>>
\* Its steps are those of the chain and one per destination, in order.
LEMMA FanSteps ==
  ASSUME NEW c, NEW ds, Fans(c, ds)
  PROVE  LET d == Forms!Fan(c, ds)
         IN  /\ d.steps \in Seq(EditorSteps) /\ Len(d.steps) = Len(c) + Len(ds)
             /\ Len(c) \in Nat \ {0} /\ Len(ds) \in Nat \ {0} /\ DOMAIN ds = 1..Len(ds)
             /\ \A i \in 1..Len(c) : d.steps[i] = c[i]
             /\ \A i \in 1..Len(ds) : d.steps[Len(c) + i] = Forms!DestinationStep(ds[i])
             /\ d.edges = {<<i, i + 1>> : i \in 1..(Len(c) - 1)}
                          \cup {<<Len(c), Len(c) + i>> : i \in 1..Len(ds)}
<1> DEFINE d == Forms!Fan(c, ds)
           es == Forms!DestinationSteps(ds)
<1>1. c \in Seq(EditorSteps) /\ Len(c) \in Nat \ {0} /\ DOMAIN c = 1..Len(c)
  BY DEF Fans, Leads
<1>2. Len(ds) \in Nat \ {0} /\ DOMAIN ds = 1..Len(ds) /\ \A i \in 1..Len(ds) : ds[i] \in Forms!Destination
  BY DEF Fans
<1>3. es \in Seq(EditorSteps) /\ Len(es) = Len(ds)
      /\ \A i \in 1..Len(ds) : es[i] = Forms!DestinationStep(ds[i])
  <2>1. \A i \in 1..Len(ds) : Forms!DestinationStep(ds[i]) \in EditorSteps
    BY <1>2 DEF EditorSteps
  <2> HIDE DEF EditorSteps
  <2>2. es = [i \in 1..Len(ds) |-> Forms!DestinationStep(ds[i])]
    BY <1>2 DEF Forms!DestinationSteps
  <2>3. es \in [1..Len(ds) -> EditorSteps] /\ \A i \in 1..Len(ds) : es[i] = Forms!DestinationStep(ds[i])
    BY <2>1, <2>2
  <2> HIDE DEF es
  <2> QED  BY <1>2, <2>3
<1>4. d.steps = c \o es /\ d.edges = {<<i, i + 1>> : i \in 1..(Len(c) - 1)}
                                      \cup {<<Len(c), Len(c) + i>> : i \in 1..Len(ds)}
  BY <1>2 DEF Forms!Fan
<1> HIDE DEF es, d
<1>5. /\ d.steps \in Seq(EditorSteps) /\ Len(d.steps) = Len(c) + Len(ds)
      /\ \A i \in 1..Len(c) : d.steps[i] = c[i]
      /\ \A i \in 1..Len(ds) : d.steps[Len(c) + i] = es[i]
  <2>1. c \o es \in Seq(EditorSteps) /\ Len(c \o es) = Len(c) + Len(es)
    BY <1>1, <1>3
  <2>2. ASSUME NEW i \in 1..Len(c) PROVE (c \o es)[i] = c[i]
    BY <1>1, <1>3, <2>2
  <2>3. ASSUME NEW i \in 1..Len(ds) PROVE (c \o es)[Len(c) + i] = es[i]
    <3>1. Len(c) + i \in 1..(Len(c) + Len(es)) /\ ~(Len(c) + i <= Len(c)) /\ (Len(c) + i) - Len(c) = i
      BY <1>1, <1>2, <1>3
    <3> QED  BY <1>1, <1>3, <3>1
  <2> QED  BY <1>3, <1>4, <2>1, <2>2, <2>3
<1> QED  BY <1>1, <1>2, <1>3, <1>4, <1>5 DEF d

\* The steps of two sequences one after the other, and of such a definition.
LEMMA ConcatElements ==
  ASSUME NEW S, NEW c \in Seq(S), NEW e \in Seq(S)
  PROVE  Elements(c \o e) = Elements(c) \cup Elements(e)
<1>1. /\ Len(c) \in Nat /\ Len(e) \in Nat /\ DOMAIN c = 1..Len(c) /\ DOMAIN e = 1..Len(e)
      /\ DOMAIN (c \o e) = 1..(Len(c) + Len(e))
      /\ \A i \in 1..(Len(c) + Len(e)) : (c \o e)[i] = IF i <= Len(c) THEN c[i] ELSE e[i - Len(c)]
  BY ConcatProperties, LenProperties
<1> DEFINE b == c \o e
<1> HIDE DEF b
<1>2. ASSUME NEW i \in DOMAIN b PROVE b[i] \in Elements(c) \cup Elements(e)
  <2>1. i \in 1..(Len(c) + Len(e)) /\ b[i] = IF i <= Len(c) THEN c[i] ELSE e[i - Len(c)]
    BY <1>1, <1>2 DEF b
  <2>2. CASE i <= Len(c)
    <3>1. i \in DOMAIN c /\ b[i] = c[i]
      BY <1>1, <2>1, <2>2
    <3> QED  BY <3>1 DEF Elements
  <2>3. CASE ~(i <= Len(c))
    <3>1. i - Len(c) \in DOMAIN e /\ b[i] = e[i - Len(c)]
      BY <1>1, <2>1, <2>3
    <3> QED  BY <3>1 DEF Elements
  <2> QED  BY <2>2, <2>3
<1>3. ASSUME NEW i \in DOMAIN c PROVE c[i] \in Elements(b)
  <2>1. i \in DOMAIN b /\ b[i] = c[i]
    BY <1>1 DEF b
  <2> QED  BY <2>1 DEF Elements
<1>4. ASSUME NEW i \in DOMAIN e PROVE e[i] \in Elements(b)
  <2>1. Len(c) + i \in 1..(Len(c) + Len(e)) /\ ~(Len(c) + i <= Len(c)) /\ (Len(c) + i) - Len(c) = i
    BY <1>1
  <2>2. Len(c) + i \in DOMAIN b /\ b[Len(c) + i] = e[i]
    BY <1>1, <2>1 DEF b
  <2> QED  BY <2>2 DEF Elements
<1>5. Elements(b) = Elements(c) \cup Elements(e)
  BY <1>2, <1>3, <1>4 DEF Elements
<1> QED  BY <1>5 DEF b

\* Its steps, as a set.
LEMMA FanElements ==
  ASSUME NEW c \in Seq(EditorSteps), NEW ds \in Seq(Forms!Destination)
  PROVE  Elements(Forms!Fan(c, ds).steps)
           = Elements(c) \cup {Forms!DestinationStep(ds[i]) : i \in DOMAIN ds}
<1> DEFINE es == Forms!DestinationSteps(ds)
<1>1. DOMAIN ds = 1..Len(ds) /\ Len(ds) \in Nat /\ \A i \in 1..Len(ds) : ds[i] \in Forms!Destination
  OBVIOUS
<1>2. es = [i \in 1..Len(ds) |-> Forms!DestinationStep(ds[i])]
  BY <1>1 DEF Forms!DestinationSteps
<1>3. \A i \in 1..Len(ds) : Forms!DestinationStep(ds[i]) \in EditorSteps
  BY <1>1 DEF EditorSteps
<1> HIDE DEF es
<1>4. es \in [1..Len(ds) -> EditorSteps]
  BY <1>2, <1>3
<1>5. es \in Seq(EditorSteps)
  BY <1>1, <1>4
<1>6. Elements(c \o es) = Elements(c) \cup Elements(es)
  BY <1>5, ConcatElements
<1>7. Elements(es) = {Forms!DestinationStep(ds[i]) : i \in DOMAIN ds}
  BY <1>1, <1>2 DEF Elements
<1>8. Forms!Fan(c, ds).steps = c \o es
  BY DEF Forms!Fan, es
<1> QED  BY <1>6, <1>7, <1>8

\* The kinds and the edges of such a definition.
LEMMA FanKinds ==
  ASSUME NEW c, NEW ds, Fans(c, ds)
  PROVE  LET k == Forms!KindsOf(Forms!Fan(c, ds))
         IN  /\ k.steps \in Seq(Forms!Kinds) /\ Len(k.steps) = Len(c) + Len(ds)
             /\ k.steps[1] = "source"
             /\ \A i \in 1..Len(c) : k.steps[i] = c[i].kind
             /\ \A i \in 2..Len(c) : k.steps[i] \in {"filter", "transform", "schedule"}
             /\ \A i \in (Len(c) + 1)..(Len(c) + Len(ds)) : k.steps[i] = "destination"
             /\ k.edges = {<<i, i + 1>> : i \in 1..(Len(c) - 1)}
                          \cup {<<Len(c), Len(c) + i>> : i \in 1..Len(ds)}
<1> DEFINE d == Forms!Fan(c, ds)
           k == Forms!KindsOf(d)
           n == Len(c) + Len(ds)
<1>1. /\ Len(c) \in Nat \ {0} /\ Len(ds) \in Nat \ {0}
      /\ d.steps \in Seq(EditorSteps) /\ Len(d.steps) = n
      /\ \A i \in 1..Len(c) : d.steps[i] = c[i]
      /\ \A i \in 1..Len(ds) : d.steps[Len(c) + i] = Forms!DestinationStep(ds[i])
      /\ d.edges = {<<i, i + 1>> : i \in 1..(Len(c) - 1)}
                          \cup {<<Len(c), Len(c) + i>> : i \in 1..Len(ds)}
  BY FanSteps
<1> HIDE DEF d
<1>2. n \in Nat /\ DOMAIN d.steps = 1..n
  BY <1>1
<1>3. k.steps = [i \in 1..n |-> d.steps[i].kind] /\ k.edges = d.edges
  BY <1>2 DEF Forms!KindsOf
<1>4. /\ c[1].kind = "source"
      /\ \A i \in 2..Len(c) : c[i].kind \in {"filter", "transform", "schedule"}
  BY DEF Fans, Leads
<1>5. ASSUME NEW i \in (Len(c) + 1)..n PROVE d.steps[i].kind = "destination"
  <2>1. i - Len(c) \in 1..Len(ds) /\ i = Len(c) + (i - Len(c))
    BY <1>1
  <2>2. d.steps[i] = Forms!DestinationStep(ds[i - Len(c)])
    BY <1>1, <2>1
  <2> QED  BY <2>2 DEF Forms!DestinationStep
<1>0. /\ \A i \in 1..n : i = 1 \/ i \in 2..Len(c) \/ i \in (Len(c) + 1)..n
      /\ 1 \in 1..Len(c) /\ 1..Len(c) \subseteq 1..n /\ 2..Len(c) \subseteq 1..Len(c)
      /\ (Len(c) + 1)..n \subseteq 1..n
  BY <1>1
<1>14. \A i \in 1..Len(c) : d.steps[i] = c[i]
  BY <1>1
<1>6. ASSUME NEW i \in 1..n PROVE d.steps[i].kind \in Forms!Kinds
  <2>1. d.steps[i].kind \in {"source", "filter", "transform", "schedule", "destination"}
    BY <1>0, <1>14, <1>4, <1>5
  <2> QED  BY <2>1 DEF Forms!Kinds, Forms!StepOrder
<1>7. k.steps \in [1..n -> Forms!Kinds]
  BY <1>3, <1>6
<1>8. k.steps \in Seq(Forms!Kinds) /\ Len(k.steps) = n
  BY <1>2, <1>7
<1>9. \A i \in 1..n : k.steps[i] = d.steps[i].kind
  BY <1>3
<1> HIDE DEF k, n
<1>11. \A i \in 1..Len(c) : k.steps[i] = c[i].kind
  BY <1>0, <1>9, <1>14
<1>10. k.steps[1] = "source"
  BY <1>0, <1>4, <1>11
<1>12. \A i \in 2..Len(c) : k.steps[i] \in {"filter", "transform", "schedule"}
  BY <1>0, <1>4, <1>11
<1>13. \A i \in (Len(c) + 1)..n : k.steps[i] = "destination"
  BY <1>0, <1>5, <1>9
<1> QED  BY <1>1, <1>3, <1>8, <1>10, <1>11, <1>12, <1>13 DEF k, d, n

\* visit() finds all of them: one step of the chain per round, and the
\* destinations in the round after its last.
LEMMA FanReached ==
  ASSUME NEW c, NEW ds, Fans(c, ds)
  PROVE  LET k == Forms!KindsOf(Forms!Fan(c, ds))
         IN  Forms!Reachable(k, 1) = Forms!Positions(k)
<1> DEFINE k == Forms!KindsOf(Forms!Fan(c, ds))
           n == Len(c) + Len(ds)
<1>1. /\ Len(c) \in Nat \ {0} /\ Len(ds) \in Nat \ {0} /\ n \in Nat /\ Len(k.steps) = n
      /\ k.edges = {<<i, i + 1>> : i \in 1..(Len(c) - 1)}
                          \cup {<<Len(c), Len(c) + i>> : i \in 1..Len(ds)}
  BY FanKinds, FanSteps
<1> HIDE DEF k
<1>2. Forms!Reachable(k, 1) = Workflows!Reachable(k, 1)
  BY DEF Forms!Reachable, Workflows!Reachable
<1>3. Forms!Positions(k) = 1..n
  BY <1>1 DEF Forms!Positions
<1>4. Workflows!Reachable(k, 1) \subseteq 1..n
  <2>1. 1 \in 1..n
    BY <1>1
  <2>2. ASSUME NEW e \in k.edges PROVE e[2] \in 1..n
    BY <1>1
  <2>3. Len(k.steps) \in Nat
    BY <1>1
  <2> HIDE DEF n
  <2> QED  BY <2>1, <2>2, <2>3, ReachedWithin
<1>5. 1..n \subseteq Workflows!Reachable(k, 1)
  <2>1. PICK f : Walk(k, 1, n, f) /\ Workflows!Reachable(k, 1) = f[n]
    BY <1>1, ReachedByWalk
  <2>2. f[0] = {1} /\ \A m \in 1..n : f[m] = Followed(k, f[m - 1])
    <3>1. 0 \in 0..n /\ \A m \in 1..n : m \in 0..n /\ m # 0
      BY <1>1
    <3> QED  BY <2>1, <3>1 DEF Walk
  <2> DEFINE Far == {m \in Nat : m <= n =>
                       /\ \A i \in 1..Len(c) : i <= m + 1 => i \in f[m]
                       /\ m >= Len(c) => 1..n \subseteq f[m]}
  <2>3. 0 \in Far
    BY <1>1, <2>2
  <2>4. ASSUME NEW m \in Nat, m \in Far PROVE m + 1 \in Far
    <3> SUFFICES ASSUME m + 1 <= n
                 PROVE  /\ \A i \in 1..Len(c) : i <= (m + 1) + 1 => i \in f[m + 1]
                        /\ m + 1 >= Len(c) => 1..n \subseteq f[m + 1]
      OBVIOUS
    <3>1. /\ \A i \in 1..Len(c) : i <= m + 1 => i \in f[m]
          /\ m >= Len(c) => 1..n \subseteq f[m]
      BY <1>1, <2>4
    <3>2. f[m + 1] = Followed(k, f[m])
      <4>1. m + 1 \in 1..n /\ (m + 1) - 1 = m
        BY <1>1
      <4> QED  BY <2>2, <4>1
    <3>3. f[m] \subseteq f[m + 1] /\ \A e \in k.edges : e[1] \in f[m] => e[2] \in f[m + 1]
      BY <3>2 DEF Followed
    <3>4. ASSUME NEW i \in 1..Len(c), i <= (m + 1) + 1 PROVE i \in f[m + 1]
      <4>1. CASE i <= m + 1
        BY <3>1, <3>3, <4>1
      <4>2. CASE i = m + 2
        <5>1. i - 1 \in 1..(Len(c) - 1) /\ i - 1 \in 1..Len(c) /\ i - 1 <= m + 1 /\ (i - 1) + 1 = i
          BY <1>1, <4>2
        <5>2. <<i - 1, i>> \in k.edges
          BY <1>1, <5>1
        <5>3. i - 1 \in f[m]
          BY <3>1, <5>1
        <5> QED  BY <3>3, <5>2, <5>3
      <4> QED  BY <1>1, <3>4, <4>1, <4>2
    <3>5. ASSUME m + 1 >= Len(c), NEW i \in 1..n PROVE i \in f[m + 1]
      <4>1. CASE i <= Len(c)
        BY <1>1, <3>4, <3>5, <4>1
      <4>2. CASE i > Len(c)
        <5>1. i - Len(c) \in 1..Len(ds) /\ Len(c) + (i - Len(c)) = i
          BY <1>1, <4>2
        <5>2. <<Len(c), i>> \in k.edges
          BY <1>1, <5>1
        <5>3. Len(c) \in f[m]
          BY <1>1, <3>1, <3>5
        <5> QED  BY <3>3, <5>2, <5>3
      <4> QED  BY <1>1, <4>1, <4>2
    <3> QED  BY <3>4, <3>5
  <2> HIDE DEF Far
  <2>5. n \in Far
    BY <1>1, <2>3, <2>4, SetInduction
  <2> QED  BY <1>1, <2>1, <2>5 DEF Far
<1> QED  BY <1>2, <1>3, <1>4, <1>5 DEF k

\* It is a route, and none of its steps is refused that its chain has.
LEMMA FanValid ==
  ASSUME NEW c, NEW ds, Fans(c, ds)
  PROVE  Forms!Valid(Forms!KindsOf(Forms!Fan(c, ds)))
<1> DEFINE k == Forms!KindsOf(Forms!Fan(c, ds))
           n == Len(c) + Len(ds)
<1>1. /\ Len(c) \in Nat \ {0} /\ Len(ds) \in Nat \ {0} /\ n \in Nat /\ Len(k.steps) = n
      /\ k.edges = {<<i, i + 1>> : i \in 1..(Len(c) - 1)}
                          \cup {<<Len(c), Len(c) + i>> : i \in 1..Len(ds)}
      /\ k.steps[1] = "source"
      /\ \A i \in 1..Len(c) : k.steps[i] = c[i].kind
      /\ \A i \in 2..Len(c) : k.steps[i] \in {"filter", "transform", "schedule"}
      /\ \A i \in (Len(c) + 1)..n : k.steps[i] = "destination"
  <2> HIDE DEF n
  <2>0. Len(c) \in Nat \ {0} /\ Len(ds) \in Nat \ {0}
    BY FanSteps
  <2>1. Len(c) \in Nat \ {0} /\ Len(ds) \in Nat \ {0} /\ n \in Nat
    BY <2>0 DEF n
  <2>2. /\ Len(k.steps) = Len(c) + Len(ds)
        /\ k.edges = {<<i, i + 1>> : i \in 1..(Len(c) - 1)}
                            \cup {<<Len(c), Len(c) + i>> : i \in 1..Len(ds)}
        /\ k.steps[1] = "source"
        /\ \A i \in 1..Len(c) : k.steps[i] = c[i].kind
        /\ \A i \in 2..Len(c) : k.steps[i] \in {"filter", "transform", "schedule"}
        /\ \A i \in (Len(c) + 1)..(Len(c) + Len(ds)) : k.steps[i] = "destination"
    BY FanKinds
  <2> HIDE DEF k
  <2> QED  BY <2>1, <2>2 DEF n
<1>2. Forms!Reachable(k, 1) = Forms!Positions(k)
  BY FanReached
<1> HIDE DEF k
<1>3. Forms!Positions(k) = 1..n
  BY <1>1 DEF Forms!Positions
<1>4. \A i \in 2..n : k.steps[i] \in {"filter", "transform", "schedule", "destination"}
  BY <1>1
<1>5. /\ Forms!OfKind(k, "source") = {1}
      /\ Forms!OfKind(k, "destination") = (Len(c) + 1)..n
      /\ Forms!OfKind(k, "captions") = {} /\ Forms!OfKind(k, "transcription") = {}
  <2>1. \A i \in 1..n : i = 1 \/ i \in 2..n
    BY <1>1
  <2>2. \A i \in 1..n : i = 1 \/ i \in 2..Len(c) \/ i \in (Len(c) + 1)..n
    BY <1>1
  <2>3. 1 \in 1..n /\ (Len(c) + 1)..n \subseteq 1..n
    BY <1>1
  <2>4. Forms!OfKind(k, "source") = {1}
    BY <1>1, <1>3, <1>4, <2>1, <2>3 DEF Forms!OfKind
  <2>5. Forms!OfKind(k, "destination") = (Len(c) + 1)..n
    BY <1>1, <1>3, <2>2, <2>3 DEF Forms!OfKind
  <2>6. Forms!OfKind(k, "captions") = {} /\ Forms!OfKind(k, "transcription") = {}
    BY <1>1, <1>3, <1>4, <2>1 DEF Forms!OfKind
  <2> QED  BY <2>4, <2>5, <2>6
<1>6. \A e \in k.edges : /\ e[1] \in 1..Len(c) /\ e[2] \in 2..n
                         /\ e \in (1..n) \X (1..n)
                         /\ e[1] < Len(c) => e[2] = e[1] + 1
                         /\ e[1] = Len(c) => e[2] \in (Len(c) + 1)..n
  <2>1. ASSUME NEW i \in 1..(Len(c) - 1)
        PROVE  /\ i \in 1..Len(c) /\ i \in 1..n /\ i + 1 \in 2..n /\ i + 1 \in 1..n /\ i < Len(c)
    BY <1>1
  <2>2. ASSUME NEW i \in 1..Len(ds)
        PROVE  /\ Len(c) \in 1..Len(c) /\ Len(c) \in 1..n /\ Len(c) + i \in 2..n
               /\ Len(c) + i \in 1..n /\ Len(c) + i \in (Len(c) + 1)..n
    BY <1>1
  <2>3. k.edges = {<<i, i + 1>> : i \in 1..(Len(c) - 1)}
                  \cup {<<Len(c), Len(c) + i>> : i \in 1..Len(ds)}
    BY <1>1
  <2> HIDE DEF n
  <2>4. ASSUME NEW e \in {<<i, i + 1>> : i \in 1..(Len(c) - 1)}
        PROVE  /\ e[1] \in 1..Len(c) /\ e[2] \in 2..n /\ e \in (1..n) \X (1..n)
               /\ e[1] < Len(c) /\ e[2] = e[1] + 1
    BY <2>1
  <2>5. ASSUME NEW e \in {<<Len(c), Len(c) + i>> : i \in 1..Len(ds)}
        PROVE  /\ e[1] \in 1..Len(c) /\ e[2] \in 2..n /\ e \in (1..n) \X (1..n)
               /\ e[1] = Len(c) /\ e[2] \in (Len(c) + 1)..n
    BY <2>2
  <2>6. Len(c) \in Nat
    BY <1>1
  <2> QED  BY <2>3, <2>4, <2>5, <2>6
<1>7. Cardinality({1}) = 1 /\ Cardinality({}) = 0 /\ 0 <= 1
  BY FS_Singleton, FS_EmptySet
<1>8. /\ Forms!Cardinality(Forms!OfKind(k, "source")) = 1
      /\ Forms!Cardinality(Forms!OfKind(k, "transcription")) <= 1
      /\ Forms!Cardinality(Forms!OfKind(k, "captions")) <= 1
  <2>1. ASSUME NEW S PROVE Forms!Cardinality(S) = Cardinality(S)
    BY DEF Forms!Cardinality, Cardinality
  <2> QED  BY <1>5, <1>7, <2>1
<1>9. ASSUME NEW e \in k.edges
      PROVE  e[1] # e[2] /\ Forms!StepOrder[k.steps[e[1]]] < Forms!StepOrder[k.steps[e[2]]]
  <2>1. CASE e[1] = Len(c)
    <3>1. k.steps[e[2]] = "destination" /\ e[2] \in (Len(c) + 1)..n
      BY <1>1, <1>6, <2>1
    <3>2. k.steps[e[1]] \in {"source", "filter", "transform", "schedule"}
      BY <1>1, <1>6, <2>1
    <3> QED  BY <1>1, <2>1, <3>1, <3>2, KindOrder, SMTT(20)
  <2>2. CASE e[1] < Len(c)
    <3>1. e[1] \in 1..(Len(c) - 1) /\ e[2] = e[1] + 1 /\ e[2] \in 1..Len(c)
      BY <1>1, <1>6, <2>2
    <3>2. Order(c[e[1]]) < Order(c[e[2]])
      BY <3>1 DEF Fans, Leads
    <3>3. k.steps[e[1]] = c[e[1]].kind /\ k.steps[e[2]] = c[e[2]].kind
      BY <1>1, <1>6, <3>1
    <3> QED  BY <3>1, <3>2, <3>3 DEF Order
  <2> QED  BY <1>1, <1>6, <2>1, <2>2
<1>10. Forms!Ordered(k)
  BY <1>9 DEF Forms!Ordered
<1>11. Forms!Into(k, 1) = {}
  BY <1>1, <1>6 DEF Forms!Into
<1>12. \A i \in (Len(c) + 1)..n : Forms!OutOf(k, i) = {}
  BY <1>1, <1>6 DEF Forms!OutOf
<1>13. Forms!OfKind(k, "destination") # {}
  <2>1. n \in (Len(c) + 1)..n
    BY <1>1
  <2> QED  BY <1>5, <2>1
<1> QED
  BY <1>2, <1>3, <1>5, <1>6, <1>8, <1>10, <1>11, <1>12, <1>13 DEF Forms!Valid, k

\* The pass of filter() over the steps, one by one: it takes place, and on such
\* a definition it finds the destinations in their order.
Pass(steps, n, f) ==
  f = [k \in 0..n |-> IF k = 0 THEN <<>>
                      ELSE IF steps[k].kind = "destination" THEN Append(f[k - 1], steps[k])
                      ELSE f[k - 1]]
\* Such a pass takes place.
LEMMA PassExists ==
  ASSUME NEW steps, NEW n \in Nat
  PROVE  \E f : Pass(steps, n, f)
<1> DEFINE S == {m \in Nat : \E f : Pass(steps, m, f)}
           Next(x, k) == IF steps[k].kind = "destination" THEN Append(x, steps[k]) ELSE x
<1>1. 0 \in S
  <2>1. Pass(steps, 0, [k \in 0..0 |-> <<>>])
    BY DEF Pass
  <2> QED  BY <2>1
<1>2. ASSUME NEW m \in Nat, m \in S PROVE m + 1 \in S
  <2>1. PICK f : Pass(steps, m, f)
    BY <1>2
  <2> DEFINE g == [k \in 0..(m + 1) |-> IF k = m + 1 THEN Next(f[m], m + 1) ELSE f[k]]
  <2>2. ASSUME NEW k \in 0..m PROVE f[k] = IF k = 0 THEN <<>> ELSE Next(f[k - 1], k)
    BY <2>1 DEF Pass
  <2> HIDE DEF Next
  <2>3. ASSUME NEW k \in 0..(m + 1)
        PROVE  g[k] = IF k = 0 THEN <<>> ELSE Next(g[k - 1], k)
    <3>1. CASE k = m + 1
      BY <3>1
    <3>2. CASE k # m + 1
      <4>1. k \in 0..m /\ g[k] = f[k] /\ (k # 0 => g[k - 1] = f[k - 1])
        BY <3>2
      <4> HIDE DEF g
      <4> QED  BY <2>2, <4>1
    <3> QED  BY <3>1, <3>2
  <2>4. g = [k \in 0..(m + 1) |-> IF k = 0 THEN <<>> ELSE Next(g[k - 1], k)]
    <3>1. g = [k \in 0..(m + 1) |-> g[k]]
      OBVIOUS
    <3> HIDE DEF g
    <3> QED  BY <2>3, <3>1
  <2>5. Pass(steps, m + 1, g)
    BY <2>4 DEF Pass, Next
  <2> QED  BY <2>5
<1> HIDE DEF S
<1>3. n \in S
  BY <1>1, <1>2, SetInduction
<1> QED  BY <1>3 DEF S

\* DestinationsAmong is what it ends with.
LEMMA AmongByPass ==
  ASSUME NEW steps, Len(steps) \in Nat
  PROVE  \E f : /\ Pass(steps, Len(steps), f)
                /\ Forms!DestinationsAmong(steps) = f[Len(steps)]
<1> DEFINE found == CHOOSE f : Pass(steps, Len(steps), f)
<1>1. Forms!DestinationsAmong(steps) = found[Len(steps)]
  BY DEF Forms!DestinationsAmong, Pass
<1>2. Pass(steps, Len(steps), found)
  BY PassExists
<1> QED  BY <1>1, <1>2

\* Of a fan it finds the destinations in their order.
LEMMA FanDestinations ==
  ASSUME NEW c, NEW ds, Fans(c, ds)
  PROVE  Forms!DestinationsAmong(Forms!Fan(c, ds).steps) = Forms!DestinationSteps(ds)
<1> DEFINE steps == Forms!Fan(c, ds).steps
           n == Len(c) + Len(ds)
           found == Forms!DestinationSteps(ds)
<1>1. /\ Len(c) \in Nat \ {0} /\ Len(ds) \in Nat \ {0} /\ n \in Nat /\ Len(steps) = n
      /\ \A i \in 1..Len(ds) : ds[i] \in Forms!Destination
      /\ found = [i \in 1..Len(ds) |-> Forms!DestinationStep(ds[i])]
  <2>1. DOMAIN ds = 1..Len(ds) /\ \A i \in 1..Len(ds) : ds[i] \in Forms!Destination
    BY DEF Fans
  <2> HIDE DEF n, found
  <2>2. Len(c) \in Nat \ {0} /\ Len(ds) \in Nat \ {0} /\ Len(steps) = Len(c) + Len(ds)
    BY FanSteps
  <2>3. found = [i \in 1..Len(ds) |-> Forms!DestinationStep(ds[i])]
    BY <2>1 DEF found, Forms!DestinationSteps
  <2> QED  BY <2>1, <2>2, <2>3 DEF n
<1>2. /\ \A i \in 1..Len(c) : steps[i].kind # "destination"
      /\ \A i \in 1..Len(ds) : /\ steps[Len(c) + i] = Forms!DestinationStep(ds[i])
                               /\ steps[Len(c) + i].kind = "destination"
  <2>1. /\ \A i \in 1..Len(c) : steps[i] = c[i]
        /\ \A i \in 1..Len(ds) : steps[Len(c) + i] = Forms!DestinationStep(ds[i])
    BY FanSteps
  <2>2. \A i \in 1..Len(c) : i = 1 \/ i \in 2..Len(c)
    BY <1>1
  <2>3. \A i \in 1..Len(c) : c[i].kind # "destination"
    BY <2>2 DEF Fans, Leads
  <2>4. \A i \in 1..Len(ds) : Forms!DestinationStep(ds[i]).kind = "destination"
    BY DEF Forms!DestinationStep
  <2> HIDE DEF steps
  <2> QED  BY <2>1, <2>3, <2>4
<1> HIDE DEF steps
<1>3. PICK f : Pass(steps, n, f) /\ Forms!DestinationsAmong(steps) = f[n]
  BY <1>1, AmongByPass
<1>4. f[0] = <<>>
  BY <1>1, <1>3 DEF Pass
<1>5. ASSUME NEW k \in 1..n
      PROVE  f[k] = IF steps[k].kind = "destination" THEN Append(f[k - 1], steps[k]) ELSE f[k - 1]
  <2>1. k \in 0..n /\ k # 0
    BY <1>1
  <2> HIDE DEF n
  <2> QED  BY <1>3, <2>1 DEF Pass
<1> DEFINE Ends == {Forms!DestinationStep(t) : t \in Forms!Destination}
           Sofar(k) == /\ k <= Len(c) => f[k] = <<>>
                       /\ k >= Len(c) => /\ f[k] \in Seq(Ends) /\ Len(f[k]) = k - Len(c)
                                         /\ \A i \in 1..(k - Len(c)) : f[k][i] = found[i]
           Known == {k \in Nat : k <= n => Sofar(k)}
<1>6. \A i \in 1..Len(ds) : found[i] \in Ends /\ found[i] = Forms!DestinationStep(ds[i])
  BY <1>1
<1> HIDE DEF Ends, found
<1>7. 0 \in Known
  BY <1>1, <1>4
<1>8. ASSUME NEW k \in Nat, k \in Known PROVE k + 1 \in Known
  <2> SUFFICES ASSUME k + 1 <= n PROVE Sofar(k + 1)
    OBVIOUS
  <2> HIDE DEF Sofar
  <2>1. Sofar(k)
    <3>1. k <= n
      BY <1>1
    <3> QED  BY <1>8, <3>1
  <2>2. k + 1 \in 1..n /\ (k + 1) - 1 = k
    BY <1>1
  <2>3. CASE k + 1 <= Len(c)
    <3>1. k + 1 \in 1..Len(c)
      BY <1>1, <2>3
    <3>2. f[k + 1] = f[k]
      BY <1>2, <1>5, <2>2, <3>1
    <3>3. f[k + 1] = <<>>
      BY <1>1, <2>1, <2>3, <3>2 DEF Sofar
    <3>4. <<>> \in Seq(Ends) /\ Len(<<>>) = 0
      OBVIOUS
    <3> QED  BY <1>1, <2>3, <3>3, <3>4 DEF Sofar
  <2>4. CASE k >= Len(c)
    <3> DEFINE j == k - Len(c)
    <3>1. j \in Nat /\ j + 1 \in 1..Len(ds) /\ Len(c) + (j + 1) = k + 1 /\ (k + 1) - Len(c) = j + 1
      BY <1>1, <2>4
    <3>2. f[k + 1] = Append(f[k], found[j + 1])
      <4>1. /\ steps[Len(c) + (j + 1)] = Forms!DestinationStep(ds[j + 1])
            /\ steps[Len(c) + (j + 1)].kind = "destination"
            /\ found[j + 1] = Forms!DestinationStep(ds[j + 1])
        BY <1>2, <1>6, <3>1
      <4>2. f[k + 1] = IF steps[k + 1].kind = "destination" THEN Append(f[k], steps[k + 1]) ELSE f[k]
        BY <1>5, <2>2
      <4> HIDE DEF j
      <4> QED  BY <3>1, <4>1, <4>2
    <3>3. f[k] \in Seq(Ends) /\ Len(f[k]) = j /\ \A i \in 1..j : f[k][i] = found[i]
      BY <2>1, <2>4 DEF Sofar
    <3>4. found[j + 1] \in Ends
      BY <1>6, <3>1
    <3> HIDE DEF j
    <3>5. /\ f[k + 1] \in Seq(Ends) /\ Len(f[k + 1]) = j + 1
          /\ \A i \in 1..(j + 1) : f[k + 1][i] = found[i]
      BY <3>1, <3>2, <3>3, <3>4
    <3>6. ~(k + 1 <= Len(c))
      BY <1>1, <2>4
    <3> QED  BY <3>1, <3>5, <3>6 DEF Sofar
  <2>5. k + 1 <= Len(c) \/ k >= Len(c)
    BY <1>1
  <2> QED  BY <2>3, <2>4, <2>5
<1> HIDE DEF Known
<1>9. n \in Known
  BY <1>1, <1>7, <1>8, SetInduction
<1>10. /\ f[n] \in Seq(Ends) /\ Len(f[n]) = Len(ds)
       /\ \A i \in 1..Len(ds) : f[n][i] = found[i]
  BY <1>1, <1>9 DEF Known
<1>11. found \in Seq(Ends) /\ Len(found) = Len(ds)
  <2>1. found \in [1..Len(ds) -> Ends]
    BY <1>1, <1>6
  <2> QED  BY <1>1, <2>1
<1>12. f[n] = found
  BY <1>10, <1>11, SeqEqual
<1> QED  BY <1>3, <1>12 DEF steps, found

\* A form, with at most three destinations.
FormKind ==
  [folder : BOOLEAN, kind : Forms!FolderKinds, remote : BOOLEAN, retention : Forms!Retentions,
   duration : Forms!Durations, rights : BOOLEAN, filtering : BOOLEAN, filter : BOOLEAN,
   transforming : BOOLEAN, size : Forms!Sizes, even : BOOLEAN, fit : {"crop", "stretch"},
   scheduling : BOOLEAN, schedule : BOOLEAN, title : Forms!Titles,
   destinations : {ds \in Seq(Forms!Destination) : Len(ds) <= 3}]
SourceOf(f) == Forms!SourceStep(f.remote, IF f.remote THEN "standard" ELSE f.kind)
Filters(f) == f.remote /\ f.filtering /\ f.filter
FitOf(f) == Forms!TransformStep(f.size, f.even, f.fit)
ChainOf(f) ==
  <<SourceOf(f)>>
    \o (IF Filters(f) THEN <<Forms!FilterStep>> ELSE <<>>)
    \o (IF f.transforming THEN <<FitOf(f)>> ELSE <<>>)
    \o (IF f.scheduling THEN <<Forms!ScheduleStep(f.schedule)>> ELSE <<>>)

\* The chain that submit() builds, and its steps.
LEMMA SubmittedChain ==
  ASSUME NEW f \in FormKind
  PROVE  /\ Leads(ChainOf(f), 5)
         /\ Elements(ChainOf(f)) =
              {SourceOf(f)} \cup (IF Filters(f) THEN {Forms!FilterStep} ELSE {})
                \cup (IF f.transforming THEN {FitOf(f)} ELSE {})
                \cup (IF f.scheduling THEN {Forms!ScheduleStep(f.schedule)} ELSE {})
<1>1. /\ SourceOf(f) \in EditorSteps /\ SourceOf(f).kind = "source"
      /\ Forms!FilterStep \in EditorSteps /\ Forms!FilterStep.kind = "filter"
      /\ FitOf(f) \in EditorSteps /\ FitOf(f).kind = "transform"
      /\ Forms!ScheduleStep(f.schedule) \in EditorSteps
      /\ Forms!ScheduleStep(f.schedule).kind = "schedule"
  <2>1. /\ f.remote \in BOOLEAN /\ f.kind \in Forms!FolderKinds
        /\ (IF f.remote THEN "standard" ELSE f.kind) \in Forms!FolderKinds
    BY DEF FormKind, Forms!FolderKinds
  <2>2. f.size \in Forms!Sizes /\ f.even \in BOOLEAN /\ f.fit \in {"crop", "stretch"}
        /\ f.schedule \in BOOLEAN
    BY DEF FormKind
  <2>3. SourceOf(f) \in {Forms!SourceStep(r, k) : r \in BOOLEAN, k \in Forms!FolderKinds}
    BY <2>1 DEF SourceOf
  <2>4. FitOf(f) \in {Forms!TransformStep(s, e, x) :
                        s \in Forms!Sizes, e \in BOOLEAN, x \in {"crop", "stretch"}}
    BY <2>2 DEF FitOf
  <2>5. Forms!ScheduleStep(f.schedule) \in {Forms!ScheduleStep(g) : g \in BOOLEAN}
    BY <2>2
  <2>6. /\ SourceOf(f).kind = "source" /\ Forms!FilterStep.kind = "filter"
        /\ FitOf(f).kind = "transform" /\ Forms!ScheduleStep(f.schedule).kind = "schedule"
    BY DEF SourceOf, FitOf, Forms!SourceStep, Forms!FilterStep, Forms!TransformStep,
           Forms!ScheduleStep
  <2> QED  BY <2>3, <2>4, <2>5, <2>6 DEF EditorSteps
<1>2. /\ Order(Forms!FilterStep) = 1 /\ Order(FitOf(f)) = 2
      /\ Order(Forms!ScheduleStep(f.schedule)) = 5
  BY <1>1, KindOrder DEF Order
<1>3. Filters(f) \in BOOLEAN /\ f.transforming \in BOOLEAN /\ f.scheduling \in BOOLEAN
  BY DEF FormKind, Filters
<1> DEFINE b1 == <<SourceOf(f)>>
           b2 == b1 \o (IF Filters(f) THEN <<Forms!FilterStep>> ELSE <<>>)
           b3 == b2 \o (IF f.transforming THEN <<FitOf(f)>> ELSE <<>>)
           b4 == b3 \o (IF f.scheduling THEN <<Forms!ScheduleStep(f.schedule)>> ELSE <<>>)
<1>4. Leads(b1, 0) /\ Elements(b1) = {SourceOf(f)}
  BY <1>1, ChainStarts
<1> HIDE DEF b1
<1>5. /\ Leads(b2, 1)
      /\ Elements(b2) = Elements(b1) \cup (IF Filters(f) THEN {Forms!FilterStep} ELSE {})
  <2>1. /\ Leads(b1 \o <<Forms!FilterStep>>, 1)
        /\ Elements(b1 \o <<Forms!FilterStep>>) = Elements(b1) \cup {Forms!FilterStep}
        /\ b1 \o <<>> = b1 /\ Leads(b1, 1)
    <3>1. 0 \in 0..4 /\ 1 \in 0..5 /\ 0 < 1
      OBVIOUS
    <3> QED  BY <1>1, <1>2, <1>4, <3>1, ChainGoesOn
  <2>2. CASE Filters(f)
    BY <2>1, <2>2
  <2>3. CASE ~Filters(f)
    BY <2>1, <2>3
  <2> QED  BY <1>3, <2>2, <2>3
<1> HIDE DEF b2
<1>6. /\ Leads(b3, 2)
      /\ Elements(b3) = Elements(b2) \cup (IF f.transforming THEN {FitOf(f)} ELSE {})
  <2>1. /\ Leads(b2 \o <<FitOf(f)>>, 2) /\ Elements(b2 \o <<FitOf(f)>>) = Elements(b2) \cup {FitOf(f)}
        /\ b2 \o <<>> = b2 /\ Leads(b2, 2)
    <3>1. 1 \in 0..4 /\ 2 \in 0..5 /\ 1 < 2
      OBVIOUS
    <3> QED  BY <1>1, <1>2, <1>5, <3>1, ChainGoesOn
  <2>2. CASE f.transforming
    BY <2>1, <2>2
  <2>3. CASE ~f.transforming
    BY <2>1, <2>3
  <2> QED  BY <1>3, <2>2, <2>3
<1> HIDE DEF b3
<1>7. /\ Leads(b4, 5)
      /\ Elements(b4) = Elements(b3)
           \cup (IF f.scheduling THEN {Forms!ScheduleStep(f.schedule)} ELSE {})
  <2>1. /\ Leads(b3 \o <<Forms!ScheduleStep(f.schedule)>>, 5)
        /\ Elements(b3 \o <<Forms!ScheduleStep(f.schedule)>>)
             = Elements(b3) \cup {Forms!ScheduleStep(f.schedule)}
        /\ b3 \o <<>> = b3 /\ Leads(b3, 5)
    <3>1. 2 \in 0..4 /\ 5 \in 0..5 /\ 2 < 5
      OBVIOUS
    <3> QED  BY <1>1, <1>2, <1>6, <3>1, ChainGoesOn
  <2>2. CASE f.scheduling
    BY <2>1, <2>2
  <2>3. CASE ~f.scheduling
    BY <2>1, <2>3
  <2> QED  BY <1>3, <2>2, <2>3
<1> HIDE DEF b4
<1>8. b4 = ChainOf(f)
  BY DEF b4, b3, b2, b1, ChainOf
<1> QED  BY <1>4, <1>5, <1>6, <1>7, <1>8

\* What it sends.
Sent(f) == Forms!Fan(ChainOf(f), f.destinations)
\* The fields of the request that the editor makes of a form.
LEMMA SubmittedFields ==
  ASSUME NEW f
  PROVE  LET v == Forms!Submitted(f)
         IN  /\ v.folder = (f.folder /\ ~f.remote) /\ v.account = FALSE /\ v.title = f.title
             /\ v.destinations = {f.destinations} /\ v.definition = {Sent(f)}
             /\ v.remote = IF ~f.remote THEN {}
                           ELSE {[retention |-> f.retention,
                                  duration |-> IF f.retention = "keep_for_duration"
                                               THEN f.duration ELSE "absent",
                                  filter |-> Filters(f), rights |-> IF f.rights THEN "yes" ELSE "no"]}
             /\ Forms!DestinationsOf(v) = f.destinations /\ Forms!DefinitionOf(v) = Sent(f)
<1>1. Forms!Submitted(f) =
        [folder |-> f.folder /\ ~f.remote, account |-> FALSE, title |-> f.title,
         destinations |-> {f.destinations},
         remote |-> IF ~f.remote THEN {}
                    ELSE {[retention |-> f.retention,
                           duration |-> IF f.retention = "keep_for_duration"
                                        THEN f.duration ELSE "absent",
                           filter |-> Filters(f), rights |-> IF f.rights THEN "yes" ELSE "no"]},
         definition |-> {Sent(f)}]
  BY DEF Forms!Submitted, Sent, ChainOf, SourceOf, FitOf, Filters
<1> DEFINE v == Forms!Submitted(f)
<1>2. /\ v.folder = (f.folder /\ ~f.remote) /\ v.account = FALSE /\ v.title = f.title
      /\ v.destinations = {f.destinations} /\ v.definition = {Sent(f)}
      /\ v.remote = IF ~f.remote THEN {}
                    ELSE {[retention |-> f.retention,
                           duration |-> IF f.retention = "keep_for_duration"
                                        THEN f.duration ELSE "absent",
                           filter |-> Filters(f), rights |-> IF f.rights THEN "yes" ELSE "no"]}
  BY <1>1
<1> HIDE DEF v
<1>3. Forms!DestinationsOf(v) = f.destinations /\ Forms!DefinitionOf(v) = Sent(f)
  <2>1. \A ds \in {f.destinations} : ds = f.destinations
    OBVIOUS
  <2>2. \A d \in {Sent(f)} : d = Sent(f)
    OBVIOUS
  <2>3. (CHOOSE ds \in v.destinations : TRUE) = f.destinations /\ v.destinations # {}
    BY <1>2
  <2>4. (CHOOSE d \in v.definition : TRUE) = Sent(f) /\ v.definition # {}
    BY <1>2
  <2> QED  BY <2>3, <2>4 DEF Forms!DestinationsOf, Forms!DefinitionOf
<1> QED  BY <1>2, <1>3 DEF v

\* The steps of the definition it sends.
LEMMA SentSteps ==
  ASSUME NEW f \in FormKind, f.destinations # <<>>
  PROVE  /\ Fans(ChainOf(f), f.destinations)
         /\ Elements(Sent(f).steps) = Elements(ChainOf(f))
              \cup {Forms!DestinationStep(f.destinations[i]) : i \in DOMAIN f.destinations}
         /\ Forms!StepsOf(Sent(f), "source") = {SourceOf(f)}
         /\ Forms!StepsOf(Sent(f), "filter") = IF Filters(f) THEN {Forms!FilterStep} ELSE {}
<1>1. f.destinations \in Seq(Forms!Destination)
  BY DEF FormKind
<1>2. Fans(ChainOf(f), f.destinations)
  <2>1. Leads(ChainOf(f), 5)
    BY SubmittedChain
  <2> QED  BY <1>1, <2>1 DEF Fans
<1>3. Elements(Sent(f).steps) = Elements(ChainOf(f))
         \cup {Forms!DestinationStep(f.destinations[i]) : i \in DOMAIN f.destinations}
  <2>1. ChainOf(f) \in Seq(EditorSteps)
    BY <1>2 DEF Fans, Leads
  <2> QED  BY <1>1, <2>1, FanElements DEF Sent
<1>4. /\ SourceOf(f).kind = "source" /\ Forms!FilterStep.kind = "filter"
      /\ FitOf(f).kind = "transform" /\ Forms!ScheduleStep(f.schedule).kind = "schedule"
      /\ \A i \in DOMAIN f.destinations : Forms!DestinationStep(f.destinations[i]).kind = "destination"
  BY DEF SourceOf, FitOf, Forms!SourceStep, Forms!FilterStep, Forms!TransformStep,
         Forms!ScheduleStep, Forms!DestinationStep
<1>5. \A kind : Forms!StepsOf(Sent(f), kind) = {s \in Elements(Sent(f).steps) : s.kind = kind}
  BY DEF Forms!StepsOf, Elements
<1>6. Elements(ChainOf(f)) =
              {SourceOf(f)} \cup (IF Filters(f) THEN {Forms!FilterStep} ELSE {})
                \cup (IF f.transforming THEN {FitOf(f)} ELSE {})
                \cup (IF f.scheduling THEN {Forms!ScheduleStep(f.schedule)} ELSE {})
  BY SubmittedChain
<1>7. \A s \in Elements(Sent(f).steps) :
         /\ s.kind = "source" => s = SourceOf(f)
         /\ s.kind = "filter" => s = Forms!FilterStep /\ Filters(f)
  BY <1>3, <1>4, <1>6
<1>8. SourceOf(f) \in Elements(Sent(f).steps)
      /\ (Filters(f) => Forms!FilterStep \in Elements(Sent(f).steps))
  BY <1>3, <1>6
<1>9. Forms!StepsOf(Sent(f), "source") = {SourceOf(f)}
  BY <1>4, <1>5, <1>7, <1>8
<1>10. Forms!StepsOf(Sent(f), "filter") = IF Filters(f) THEN {Forms!FilterStep} ELSE {}
  BY <1>4, <1>5, <1>7, <1>8
<1> QED  BY <1>2, <1>3, <1>9, <1>10

\* None of its steps is refused for its settings.
LEMMA SentSound ==
  ASSUME NEW f \in FormKind, Forms!EditorAccepts(f)
  PROVE  \A i \in DOMAIN Sent(f).steps : ~Forms!BadStep(Sent(f).steps[i])
<1>1. f.destinations # <<>> /\ (f.scheduling => f.schedule) /\ (f.transforming => f.even)
  BY DEF Forms!EditorAccepts
<1>2. ~Forms!BadStep(SourceOf(f))
  BY DEF Forms!BadStep, SourceOf, Forms!SourceStep
<1>3. ~Forms!BadStep(Forms!FilterStep)
  BY DEF Forms!BadStep, Forms!FilterStep
<1>4. f.transforming => ~Forms!BadStep(FitOf(f))
  BY <1>1 DEF Forms!BadStep, FitOf, Forms!TransformStep
<1>5. f.scheduling => ~Forms!BadStep(Forms!ScheduleStep(f.schedule))
  BY <1>1 DEF Forms!BadStep, Forms!ScheduleStep
<1>6. \A t : ~Forms!BadStep(Forms!DestinationStep(t))
  BY DEF Forms!BadStep, Forms!DestinationStep
<1>7. Elements(ChainOf(f)) =
              {SourceOf(f)} \cup (IF Filters(f) THEN {Forms!FilterStep} ELSE {})
                \cup (IF f.transforming THEN {FitOf(f)} ELSE {})
                \cup (IF f.scheduling THEN {Forms!ScheduleStep(f.schedule)} ELSE {})
  BY SubmittedChain
<1>8. Elements(Sent(f).steps) = Elements(ChainOf(f))
         \cup {Forms!DestinationStep(f.destinations[i]) : i \in DOMAIN f.destinations}
  BY <1>1, SentSteps
<1>9. \A s \in Elements(Sent(f).steps) : ~Forms!BadStep(s)
  BY <1>2, <1>3, <1>4, <1>5, <1>6, <1>7, <1>8
<1> QED  BY <1>9 DEF Elements

\* The reasons of Refusals, by name.
Reasons(v) ==
  [source |-> (v.remote = {}) = ~v.folder,
   title |-> v.title = "blank",
   template |-> v.title = "unknown",
   fields |-> v.destinations # {} /\ v.account,
   destinations |-> \/ Forms!DestinationsOf(v) = <<>>
                    \/ \E i \in DOMAIN Forms!DestinationsOf(v) : ~Forms!DestinationsOf(v)[i].chosen,
   duplicate |-> Forms!Duplicates(Forms!DestinationsOf(v)),
   retention |-> \E r \in v.remote : Forms!BadRetention(r),
   mismatch |-> \/ \A s \in Forms!StepsOf(Forms!DefinitionOf(v), "source") :
                     s.remote # (v.remote # {})
                \/ Forms!DestinationSteps(Forms!DestinationsOf(v))
                     # Forms!DestinationsAmong(Forms!DefinitionOf(v).steps),
   step |-> \E i \in DOMAIN Forms!DefinitionOf(v).steps :
              Forms!BadStep(Forms!DefinitionOf(v).steps[i]),
   route |-> ~Forms!Valid(Forms!KindsOf(Forms!DefinitionOf(v)))]
\* The refusals of a request are the reasons that hold.
LEMMA RefusedFor ==
  ASSUME NEW v
  PROVE  Forms!Refusals(v) =
    {r \in {"source", "title", "template", "fields", "destinations", "duplicate", "retention",
            "mismatch", "step", "route"} : Reasons(v)[r]}
<1>1. Forms!Refusals(v) = {r \in DOMAIN Reasons(v) : Reasons(v)[r]}
  BY DEF Forms!Refusals, Reasons
<1>2. DOMAIN Reasons(v) =
    {"source", "title", "template", "fields", "destinations", "duplicate", "retention",
     "mismatch", "step", "route"}
  BY DEF Reasons
<1> HIDE DEF Reasons
<1> QED  BY <1>1, <1>2

\* The service refuses of what the editor lets through only a title with a
\* variable that there is not and a duration of no whole seconds.
LEMMA SubmittedRefused ==
  ASSUME NEW f \in FormKind, Forms!EditorAccepts(f)
  PROVE  LET v == Forms!Submitted(f)
         IN  Forms!Refusals(v) = {r \in {"template", "retention"} :
                                    IF r = "template" THEN v.title = "unknown"
                                    ELSE \E x \in v.remote : x.duration = "fraction"}
<1> DEFINE v == Forms!Submitted(f)
<1>1. /\ v.folder = (f.folder /\ ~f.remote) /\ v.account = FALSE /\ v.title = f.title
      /\ v.destinations = {f.destinations} /\ v.definition = {Sent(f)}
      /\ v.remote = IF ~f.remote THEN {}
                           ELSE {[retention |-> f.retention,
                                  duration |-> IF f.retention = "keep_for_duration"
                                               THEN f.duration ELSE "absent",
                                  filter |-> Filters(f), rights |-> IF f.rights THEN "yes" ELSE "no"]}
      /\ Forms!DestinationsOf(v) = f.destinations /\ Forms!DefinitionOf(v) = Sent(f)
  BY SubmittedFields
<1> HIDE DEF v
<1>2. /\ f.remote \/ f.folder
      /\ f.destinations # <<>> /\ \A i \in DOMAIN f.destinations : f.destinations[i].chosen
      /\ ~Forms!Duplicates(f.destinations)
      /\ f.title # "blank"
  BY DEF Forms!EditorAccepts
<1>3. f.remote \in BOOLEAN /\ f.folder \in BOOLEAN /\ f.duration \in Forms!Durations
  BY DEF FormKind
<1>4. ~Reasons(v).source
  <2>1. CASE f.remote
    BY <1>1, <2>1 DEF Reasons
  <2>2. CASE ~f.remote
    BY <1>1, <1>2, <2>2 DEF Reasons
  <2> QED  BY <2>1, <2>2
<1>5. ~Reasons(v).title
  BY <1>1, <1>2 DEF Reasons
<1>6. Reasons(v).template = (v.title = "unknown")
  BY DEF Reasons
<1>7. ~Reasons(v).fields
  BY <1>1 DEF Reasons
<1>8. ~Reasons(v).destinations
  BY <1>1, <1>2 DEF Reasons
<1>9. ~Reasons(v).duplicate
  BY <1>1, <1>2 DEF Reasons
<1>10. Reasons(v).retention = (\E x \in v.remote : x.duration = "fraction")
  <2>1. Reasons(v).retention
          = (\E x \in v.remote : x.retention = "keep_for_duration" /\ x.duration = "fraction")
    BY DEF Reasons, Forms!BadRetention
  <2>2. \A x \in v.remote : x.retention # "keep_for_duration" => x.duration = "absent"
    BY <1>1
  <2> QED  BY <2>1, <2>2
<1>11. ~Reasons(v).mismatch
  <2>1. /\ Forms!StepsOf(Sent(f), "source") = {SourceOf(f)}
        /\ Fans(ChainOf(f), f.destinations)
    BY <1>2, SentSteps
  <2>2. Forms!DestinationsAmong(Sent(f).steps) = Forms!DestinationSteps(f.destinations)
    BY <2>1, FanDestinations DEF Sent
  <2>3. SourceOf(f).remote = f.remote
    BY DEF SourceOf, Forms!SourceStep
  <2>4. f.remote = (v.remote # {})
    BY <1>1, <1>3
  <2>5. ~\A s \in Forms!StepsOf(Forms!DefinitionOf(v), "source") : s.remote # (v.remote # {})
    BY <1>1, <2>1, <2>3, <2>4
  <2>6. Forms!DestinationSteps(Forms!DestinationsOf(v))
          = Forms!DestinationsAmong(Forms!DefinitionOf(v).steps)
    BY <1>1, <2>2
  <2> QED  BY <2>5, <2>6 DEF Reasons
<1>12. ~Reasons(v).step
  BY <1>1, SentSound DEF Reasons
<1>13. ~Reasons(v).route
  <2>1. Forms!Valid(Forms!KindsOf(Sent(f)))
    BY <1>2, SentSteps, FanValid DEF Sent
  <2> QED  BY <1>1, <2>1 DEF Reasons
<1> HIDE DEF Reasons
<1>14. \A r \in {"source", "title", "template", "fields", "destinations", "duplicate",
                 "retention", "mismatch", "step", "route"} :
          Reasons(v)[r] <=> /\ r \in {"template", "retention"}
                            /\ IF r = "template" THEN v.title = "unknown"
                               ELSE \E x \in v.remote : x.duration = "fraction"
  BY <1>4, <1>5, <1>6, <1>7, <1>8, <1>9, <1>10, <1>11, <1>12, <1>13
<1> QED  BY <1>14, RefusedFor DEF v

\* What a preset offers, and the form its draft is shown in.
LEMMA PresetLists ==
  ASSUME NEW o
  PROVE  /\ Forms!PresetDestinations(o) \in Seq(Forms!Destination)
         /\ Len(Forms!PresetDestinations(o)) <= 3
<1> DEFINE Going(to) == [to |-> to, chosen |-> TRUE, feed |-> IF to = "instagram" THEN "yes" ELSE "absent"]
           In(to) == IF to \in o.destinations THEN <<Going(to)>> ELSE <<>>
<1>1. \A to \in Forms!Platforms : Going(to) \in Forms!Destination
  BY DEF Forms!Destination
<1> HIDE DEF Going
<1>2. \A to \in Forms!Platforms : In(to) \in Seq(Forms!Destination) /\ Len(In(to)) \in 0..1
  BY <1>1
<1>3. Forms!PresetDestinations(o) = In("youtube") \o In("tiktok") \o In("instagram")
  BY DEF Forms!PresetDestinations, Going
<1>4. {"youtube", "tiktok", "instagram"} \subseteq Forms!Platforms
  BY DEF Forms!Platforms
<1>5. ASSUME NEW a \in Seq(Forms!Destination), NEW b \in Seq(Forms!Destination),
             NEW n \in 0..2, Len(a) <= n, Len(b) <= 1
      PROVE  a \o b \in Seq(Forms!Destination) /\ Len(a \o b) <= n + 1
  <2>1. a \o b \in Seq(Forms!Destination) /\ Len(a \o b) = Len(a) + Len(b)
        /\ Len(a) \in Nat /\ Len(b) \in Nat
    BY ConcatProperties, LenProperties
  <2> QED  BY <1>5, <2>1
<1>6. \A to \in Forms!Platforms : In(to) \in Seq(Forms!Destination) /\ Len(In(to)) <= 1
  BY <1>2
<1> HIDE DEF In
<1>7. /\ In("youtube") \o In("tiktok") \in Seq(Forms!Destination)
      /\ Len(In("youtube") \o In("tiktok")) <= 2
  <2>1. 1 \in 0..2 /\ 1 + 1 = 2
    OBVIOUS
  <2> QED  BY <1>4, <1>5, <1>6, <2>1
<1>8. /\ In("youtube") \o In("tiktok") \o In("instagram") \in Seq(Forms!Destination)
      /\ Len(In("youtube") \o In("tiktok") \o In("instagram")) <= 3
  <2> DEFINE both == In("youtube") \o In("tiktok")
  <2>1. both \in Seq(Forms!Destination) /\ Len(both) <= 2 /\ 2 \in 0..2 /\ 2 + 1 = 3
    BY <1>7
  <2> HIDE DEF both
  <2>2. both \o In("instagram") \in Seq(Forms!Destination) /\ Len(both \o In("instagram")) <= 3
    BY <1>4, <1>5, <1>6, <2>1
  <2> QED  BY <2>2 DEF both
<1> QED  BY <1>3, <1>8
DraftRemote(id) == id = "stream-clip-short-form"
DraftKind(id) == IF DraftRemote(id) THEN "standard" ELSE "obs_replay_buffer"
DraftChain(id) == <<Forms!SourceStep(DraftRemote(id), DraftKind(id)),
                    Forms!TransformStep("vertical", TRUE, "crop")>>
\* What the editor shows of the draft of a preset.
LEMMA DraftForm ==
  ASSUME NEW o, NEW id \in Forms!Presets
  PROVE  /\ Forms!FormOf(Forms!Draft(o, id)) \in FormKind
         /\ Forms!Draft(o, id).title = "source"
         /\ (Forms!Draft(o, id).remote = {}) = ~DraftRemote(id)
         /\ Forms!Draft(o, id).definition = {Forms!Fan(DraftChain(id), Forms!PresetDestinations(o))}
         /\ Forms!FormOf(Forms!Draft(o, id)).kind = DraftKind(id)
         /\ Forms!FormOf(Forms!Draft(o, id)).remote = DraftRemote(id)
         /\ Forms!FormOf(Forms!Draft(o, id)).filtering = FALSE
         /\ Forms!FormOf(Forms!Draft(o, id)).transforming = TRUE
         /\ Forms!FormOf(Forms!Draft(o, id)).size = "vertical"
         /\ Forms!FormOf(Forms!Draft(o, id)).even = TRUE
         /\ Forms!FormOf(Forms!Draft(o, id)).fit = "crop"
         /\ Forms!FormOf(Forms!Draft(o, id)).scheduling = FALSE
         /\ Forms!FormOf(Forms!Draft(o, id)).title = "source"
         /\ Forms!FormOf(Forms!Draft(o, id)).destinations = Forms!PresetDestinations(o)
<1> DEFINE v == Forms!Draft(o, id)
           f == Forms!FormOf(v)
           remote == id = "stream-clip-short-form"
           kind == IF remote THEN "standard" ELSE "obs_replay_buffer"
           ds == Forms!PresetDestinations(o)
           src == Forms!SourceStep(remote, kind)
           fit == Forms!TransformStep("vertical", TRUE, "crop")
           d == Forms!Fan(<<src, fit>>, ds)
           clips == [retention |-> "delete_after_success", duration |-> "absent",
                     filter |-> FALSE, rights |-> "no"]
<1>1. /\ v.folder = FALSE /\ v.title = "source" /\ v.destinations = {ds} /\ v.definition = {d}
      /\ v.remote = IF remote THEN {clips} ELSE {}
  BY DEF Forms!Draft
<1>16. clips.retention = "delete_after_success" /\ clips.rights = "no"
  OBVIOUS
<1>2. ds \in Seq(Forms!Destination) /\ Len(ds) <= 3
  BY PresetLists
<1>3. src.kind = "source" /\ fit.kind = "transform" /\ src \in EditorSteps /\ fit \in EditorSteps
      /\ src.folder = (IF remote THEN {} ELSE {"obs_replay_buffer"})
      /\ fit.size = "vertical" /\ fit.fit = "crop"
  <2>1. kind \in Forms!FolderKinds /\ "vertical" \in Forms!Sizes
    BY DEF Forms!FolderKinds, Forms!Sizes
  <2>2. PICK r \in BOOLEAN, t \in BOOLEAN : r = remote /\ t = TRUE
    OBVIOUS
  <2>3. Forms!SourceStep(r, kind) \in EditorSteps
    BY <2>1 DEF EditorSteps
  <2>4. Forms!TransformStep("vertical", t, "crop") \in EditorSteps
    BY <2>1 DEF EditorSteps
  <2>7. src \in EditorSteps /\ fit \in EditorSteps
    BY <2>2, <2>3, <2>4
  <2>5. src.kind = "source" /\ src.folder = (IF remote THEN {} ELSE {"obs_replay_buffer"})
    BY DEF Forms!SourceStep
  <2>6. fit.kind = "transform" /\ fit.size = "vertical" /\ fit.fit = "crop"
    BY DEF Forms!TransformStep
  <2> QED  BY <2>5, <2>6, <2>7
<1> HIDE DEF ds, src, fit, clips
<1>4. <<src, fit>> \in Seq(EditorSteps) /\ Elements(<<src, fit>>) = {src, fit}
  <2>1. <<src, fit>> \in Seq(EditorSteps) /\ DOMAIN <<src, fit>> = {1, 2}
        /\ <<src, fit>>[1] = src /\ <<src, fit>>[2] = fit
    BY <1>3
  <2> QED  BY <2>1 DEF Elements
<1>5. Elements(d.steps) = {src, fit} \cup {Forms!DestinationStep(ds[i]) : i \in DOMAIN ds}
  BY <1>2, <1>4, FanElements
<1>6. \A t : Forms!DestinationStep(t).kind = "destination"
  BY DEF Forms!DestinationStep
<1> HIDE DEF d
<1>7. \A k : Forms!StepsOf(d, k) = {s \in Elements(d.steps) : s.kind = k}
  BY DEF Forms!StepsOf, Elements
<1>8. Forms!StepsOf(d, "source") = {src} /\ Forms!StepsOf(d, "transform") = {fit}
  BY <1>3, <1>5, <1>6, <1>7
<1>9. Forms!StepsOf(d, "filter") = {} /\ Forms!StepsOf(d, "schedule") = {}
  BY <1>3, <1>5, <1>6, <1>7
<1>10. /\ (CHOOSE x \in v.definition : TRUE) = d
       /\ (CHOOSE x \in v.destinations : TRUE) = ds
       /\ (CHOOSE s \in Forms!StepsOf(d, "transform") : TRUE) = fit
  BY <1>1, <1>8
<1>11. ~remote => (CHOOSE k \in UNION {s.folder : s \in Forms!StepsOf(d, "source")} : TRUE)
                    = "obs_replay_buffer"
  <2>1. ~remote => UNION {s.folder : s \in Forms!StepsOf(d, "source")} = {"obs_replay_buffer"}
    BY <1>3, <1>8
  <2> QED  BY <2>1
<1>12. remote => UNION {s.folder : s \in Forms!StepsOf(d, "source")} = {}
  BY <1>3, <1>8
<1>13. remote => (CHOOSE r \in v.remote : TRUE).retention = "delete_after_success"
  <2>1. \A x \in {clips} : x = clips
    OBVIOUS
  <2>2. (CHOOSE x \in {clips} : TRUE) = clips
    BY <2>1
  <2> HIDE DEF v
  <2> QED  BY <1>1, <1>16, <2>2
<1>14. /\ (v.remote = {}) = ~remote
       /\ (v.remote # {}) = remote
       /\ (\E r \in v.remote : r.rights = "yes") = FALSE
  <2> HIDE DEF v
  <2>1. CASE remote
    BY <1>1, <1>16, <2>1
  <2>2. CASE ~remote
    BY <1>1, <2>2
  <2> QED  BY <2>1, <2>2
<1> HIDE DEF v
<1> DEFINE kinds == UNION {s.folder : s \in Forms!StepsOf(d, "source")}
           fits == Forms!StepsOf(d, "transform")
           filters == Forms!StepsOf(d, "filter") # {}
           schedules == Forms!StepsOf(d, "schedule") # {}
<1>15. f = [Forms!FreshForm EXCEPT
        !.folder = v.folder,
        !.kind = IF kinds = {} THEN "standard" ELSE CHOOSE k \in kinds : TRUE,
        !.remote = v.remote # {},
        !.retention = IF v.remote = {} THEN @ ELSE (CHOOSE r \in v.remote : TRUE).retention,
        !.rights = \E r \in v.remote : r.rights = "yes",
        !.filtering = filters, !.filter = @ \/ filters,
        !.transforming = fits # {},
        !.size = IF fits = {} THEN @ ELSE (CHOOSE s \in fits : TRUE).size,
        !.fit = IF fits = {} THEN @ ELSE (CHOOSE s \in fits : TRUE).fit,
        !.scheduling = schedules, !.schedule = schedules,
        !.title = v.title,
        !.destinations = CHOOSE x \in v.destinations : TRUE]
  <2> DEFINE e == CHOOSE x \in v.definition : TRUE
             Portrayed(x) == [Forms!FreshForm EXCEPT
               !.folder = v.folder,
               !.kind = LET ks == UNION {s.folder : s \in Forms!StepsOf(x, "source")}
                        IN IF ks = {} THEN "standard" ELSE CHOOSE k \in ks : TRUE,
               !.remote = v.remote # {},
               !.retention = IF v.remote = {} THEN @ ELSE (CHOOSE r \in v.remote : TRUE).retention,
               !.rights = \E r \in v.remote : r.rights = "yes",
               !.filtering = Forms!StepsOf(x, "filter") # {},
               !.filter = @ \/ Forms!StepsOf(x, "filter") # {},
               !.transforming = Forms!StepsOf(x, "transform") # {},
               !.size = IF Forms!StepsOf(x, "transform") = {} THEN @
                        ELSE (CHOOSE s \in Forms!StepsOf(x, "transform") : TRUE).size,
               !.fit = IF Forms!StepsOf(x, "transform") = {} THEN @
                       ELSE (CHOOSE s \in Forms!StepsOf(x, "transform") : TRUE).fit,
               !.scheduling = Forms!StepsOf(x, "schedule") # {},
               !.schedule = Forms!StepsOf(x, "schedule") # {},
               !.title = v.title,
               !.destinations = CHOOSE y \in v.destinations : TRUE]
  <2>1. f = Portrayed(e)
    BY Zenon DEF Forms!FormOf
  <2>2. e = d
    BY <1>10
  <2> HIDE DEF Portrayed, e, f
  <2>3. f = Portrayed(d)
    BY <2>1, <2>2
  <2> QED  BY <2>3 DEF Portrayed
<1>17. /\ (IF kinds = {} THEN "standard" ELSE CHOOSE k \in kinds : TRUE) = kind
       /\ fits # {} /\ (CHOOSE s \in fits : TRUE) = fit
       /\ filters = FALSE /\ schedules = FALSE
  <2>1. CASE remote
    BY <1>8, <1>9, <1>10, <1>12, <2>1
  <2>2. CASE ~remote
    <3>1. kinds = {"obs_replay_buffer"}
      BY <1>3, <1>8, <2>2
    <3> QED  BY <1>8, <1>9, <1>10, <1>11, <2>2, <3>1
  <2> QED  BY <2>1, <2>2
<1> HIDE DEF kinds, fits, filters, schedules, f
<1>18. /\ f.folder = FALSE /\ f.kind = kind /\ f.remote = remote
       /\ f.retention = "delete_after_success" /\ f.duration = "whole" /\ f.rights = FALSE
       /\ f.filtering = FALSE /\ f.filter = FALSE /\ f.transforming = TRUE
       /\ f.size = "vertical" /\ f.even = TRUE /\ f.fit = "crop"
       /\ f.scheduling = FALSE /\ f.schedule = FALSE /\ f.title = "source"
       /\ f.destinations = ds
  <2>1. CASE remote
    BY <1>1, <1>3, <1>10, <1>13, <1>14, <1>15, <1>17, <2>1 DEF Forms!FreshForm
  <2>2. CASE ~remote
    BY <1>1, <1>3, <1>10, <1>14, <1>15, <1>17, <2>2 DEF Forms!FreshForm
  <2> QED  BY <2>1, <2>2
<1>19. f \in FormKind
  <2>1. f = [folder |-> f.folder, kind |-> f.kind, remote |-> f.remote, retention |-> f.retention,
             duration |-> f.duration, rights |-> f.rights, filtering |-> f.filtering,
             filter |-> f.filter, transforming |-> f.transforming, size |-> f.size,
             even |-> f.even, fit |-> f.fit, scheduling |-> f.scheduling,
             schedule |-> f.schedule, title |-> f.title, destinations |-> f.destinations]
    BY <1>15 DEF Forms!FreshForm
  <2>2. kind \in Forms!FolderKinds /\ "delete_after_success" \in Forms!Retentions
        /\ "whole" \in Forms!Durations /\ "vertical" \in Forms!Sizes /\ "source" \in Forms!Titles
    BY DEF Forms!FolderKinds, Forms!Retentions, Forms!Durations, Forms!Sizes, Forms!Titles
  <2> QED  BY <1>2, <1>18, <2>1, <2>2 DEF FormKind
<1> HIDE DEF d
<1>20. v.title = "source" /\ v.definition = {d} /\ (v.remote = {}) = ~remote
  BY <1>1, <1>14
<1>21. d = Forms!Fan(DraftChain(id), ds) /\ DraftRemote(id) = remote /\ DraftKind(id) = kind
  BY DEF d, src, fit, DraftChain, DraftRemote, DraftKind
<1> HIDE DEF d, remote, kind
<1> QED  BY <1>18, <1>19, <1>20, <1>21 DEF f, v, ds

\* A remote source in a request.
RemoteKind == [retention : Forms!Retentions, duration : Forms!Durations \cup {"absent"},
               filter : BOOLEAN, rights : {"yes", "no", "absent"}]
Told(r) == [r EXCEPT !.rights = IF @ = "no" THEN "absent" ELSE @]
\* What is read back of a workflow that was stored.
LEMMA ReadsBack ==
  ASSUME NEW v, v.remote \subseteq RemoteKind
  PROVE  LET w == Forms!Read(Forms!Row(Forms!Built(v)))
         IN  /\ w = [Forms!Built(v) EXCEPT !.remote = {Told(r) : r \in @}]
             /\ w.definition = Forms!DefinitionOf(v)
             /\ w.remote = {Told(r) : r \in v.remote}
<1> DEFINE b == Forms!Built(v)
           row == Forms!Row(b)
           w == Forms!Read(row)
           stored == {[retention |-> r.retention, duration |-> r.duration, filter |-> r.filter,
                       rights |-> r.rights = "yes"] : r \in v.remote}
           again == {[retention |-> r.retention, duration |-> r.duration, filter |-> r.filter,
                      rights |-> IF r.rights THEN "yes" ELSE "absent"] : r \in stored}
<1>1. b = [folder |-> v.folder, remote |-> v.remote, title |-> v.title,
           destinations |-> Forms!DestinationsOf(v), definition |-> Forms!DefinitionOf(v)]
  BY DEF Forms!Built
<1>2. w = [folder |-> v.folder, title |-> v.title, definition |-> Forms!DefinitionOf(v),
           destinations |-> Forms!DestinationsOf(v), remote |-> again]
  BY <1>1 DEF Forms!Row, Forms!Read
<1>3. ASSUME NEW r \in RemoteKind
      PROVE  [retention |-> r.retention, duration |-> r.duration, filter |-> r.filter,
              rights |-> IF (r.rights = "yes") THEN "yes" ELSE "absent"] = Told(r)
  BY DEF RemoteKind, Told
<1>4. again = {[retention |-> r.retention, duration |-> r.duration, filter |-> r.filter,
                rights |-> IF (r.rights = "yes") THEN "yes" ELSE "absent"] : r \in v.remote}
  <2> DEFINE Retained(r) == [retention |-> r.retention, duration |-> r.duration, filter |-> r.filter,
                         rights |-> r.rights = "yes"]
             Back(r) == [retention |-> r.retention, duration |-> r.duration, filter |-> r.filter,
                         rights |-> IF r.rights THEN "yes" ELSE "absent"]
             Twice(r) == [retention |-> r.retention, duration |-> r.duration, filter |-> r.filter,
                          rights |-> IF (r.rights = "yes") THEN "yes" ELSE "absent"]
  <2>1. ASSUME NEW r PROVE Back(Retained(r)) = Twice(r)
    <3>1. CASE r.rights = "yes"
      BY <3>1
    <3>2. CASE r.rights # "yes"
      BY <3>2
    <3> QED  BY <3>1, <3>2
  <2> HIDE DEF Retained, Back, Twice
  <2>2. {Back(x) : x \in {Retained(r) : r \in v.remote}} = {Twice(r) : r \in v.remote}
    BY <2>1
  <2> QED  BY <2>2 DEF Retained, Back, Twice
<1> HIDE DEF again
<1>5. again = {Told(r) : r \in v.remote}
  <2>1. \A r \in v.remote : r \in RemoteKind
    OBVIOUS
  <2> QED  BY <1>3, <1>4, <2>1
<1>6. b.remote = v.remote
  BY <1>1
<1>7. w = [b EXCEPT !.remote = {Told(r) : r \in @}]
  <2>1. [b EXCEPT !.remote = {Told(r) : r \in @}] = [b EXCEPT !.remote = again]
    BY <1>5, <1>6
  <2> HIDE DEF w
  <2> QED  BY <1>1, <1>2, <2>1
<1> QED  BY <1>2, <1>5, <1>7

\* The rows: of what other clients asked for, of what forms were sent, and of
\* what the migration 0017 found.
Allowed == {v \in Requests : Forms!Refusals(v) = {}}
SentForms == {f \in FormKind : Forms!EditorAccepts(f) /\ Forms!Refusals(Forms!Submitted(f)) = {}}
RowKind ==
  {Forms!Accepted("client", v) : v \in Allowed}
  \cup {Forms!Accepted("editor", Forms!Submitted(f)) : f \in SentForms}
  \cup {[by |-> "migration", row |-> Forms!Migrated(Forms!Row(Forms!Built(v))), answered |-> {}] :
          v \in {x \in Allowed : x.definition = {}}}
RowSound(w) ==
  /\ Forms!Compiles(Forms!Read(w.row))
  /\ \A a \in w.answered :
       Forms!Read(w.row) = [a EXCEPT !.remote = {Told(r) : r \in @}]
  /\ w.by = "editor" => LET x == Forms!Read(w.row)
                        IN (Forms!StepsOf(x.definition, "filter") # {}) = (\E r \in x.remote : r.filter)

\* What is accepted compiles.
LEMMA AcceptedSound ==
  ASSUME NEW v, v.remote \subseteq RemoteKind, Forms!Refusals(v) = {}, NEW by
  PROVE  LET w == Forms!Accepted(by, v)
         IN  /\ Forms!Compiles(Forms!Read(w.row)) /\ w.by = by
             /\ \A a \in w.answered :
                  Forms!Read(w.row) = [a EXCEPT !.remote = {Told(r) : r \in @}]
<1> DEFINE w == Forms!Accepted(by, v)
<1>1. w.by = by /\ w.row = Forms!Row(Forms!Built(v)) /\ w.answered = {Forms!Built(v)}
  BY DEF Forms!Accepted
<1>2. ~Reasons(v)["step"] /\ ~Reasons(v)["route"]
  BY RefusedFor
<1>3. /\ \A i \in DOMAIN Forms!DefinitionOf(v).steps :
             ~Forms!BadStep(Forms!DefinitionOf(v).steps[i])
      /\ Forms!Valid(Forms!KindsOf(Forms!DefinitionOf(v)))
  BY <1>2 DEF Reasons
<1>4. /\ Forms!Read(w.row).definition = Forms!DefinitionOf(v)
      /\ Forms!Read(w.row) = [Forms!Built(v) EXCEPT !.remote = {Told(r) : r \in @}]
  BY <1>1, ReadsBack
<1> HIDE DEF w
<1>5. Forms!Compiles(Forms!Read(w.row))
  BY <1>3, <1>4 DEF Forms!Compiles
<1> QED  BY <1>1, <1>4, <1>5 DEF w

\* What the migration leaves of a workflow without a definition compiles too.
LEMMA MigratedSound ==
  ASSUME NEW v \in Allowed, v.definition = {}
  PROVE  Forms!Compiles(Forms!Read(Forms!Migrated(Forms!Row(Forms!Built(v)))))
<1> DEFINE row == Forms!Row(Forms!Built(v))
           remote == row.remote # {}
           ds == Forms!DestinationsOf(v)
           src == Forms!SourceStep(remote, "standard")
           d == Forms!Fan(<<src>>, ds)
<1>1. row.destinations = ds
  BY DEF Forms!Row, Forms!Built
<1>2. Forms!Read(Forms!Migrated(row)).definition = Forms!LegacyDefinition(remote, FALSE, ds)
  <2> HIDE DEF remote, ds
  <2>1. row = [folder |-> row.folder, title |-> row.title, definition |-> row.definition,
               destinations |-> row.destinations, remote |-> row.remote]
    BY DEF Forms!Row
  <2> HIDE DEF row
  <2>2. Forms!Migrated(row).definition = Forms!LegacyDefinition(row.remote # {}, FALSE, row.destinations)
    BY <2>1 DEF Forms!Migrated
  <2>3. Forms!Read(Forms!Migrated(row)).definition = Forms!Migrated(row).definition
    BY DEF Forms!Read
  <2> QED  BY <1>1, <2>2, <2>3 DEF remote
<1>3. Forms!LegacyDefinition(remote, FALSE, ds) = Forms!Fan(<<src>> \o <<>>, ds)
  BY DEF Forms!LegacyDefinition
<1>4. src \in EditorSteps /\ src.kind = "source" /\ ~Forms!BadStep(src)
  <2>1. "standard" \in Forms!FolderKinds
    BY DEF Forms!FolderKinds
  <2>2. PICK r \in BOOLEAN : r = remote
    <3> HIDE DEF row
    <3> QED  OBVIOUS
  <2>3. Forms!SourceStep(r, "standard") \in EditorSteps
    BY <2>1 DEF EditorSteps
  <2> HIDE DEF remote
  <2>4. src.kind = "source" /\ src.folder = {}
    BY DEF Forms!SourceStep
  <2>5. ~Forms!BadStep(src)
    <3> HIDE DEF src
    <3> QED  BY <2>4 DEF Forms!BadStep
  <2> QED  BY <2>2, <2>3, <2>4, <2>5
<1>5. ds \in Seq(Forms!Destination) /\ ds # <<>>
  <2>1. v \in Requests /\ Forms!Refusals(v) = {}
    BY DEF Allowed
  <2>2. ~Reasons(v)["destinations"]
    BY <2>1, RefusedFor
  <2>3. ds # <<>>
    BY <2>2 DEF Reasons
  <2>4. CASE v.destinations # {}
    <3>1. ds \in v.destinations
      BY <2>4 DEF Forms!DestinationsOf
    <3>2. v.destinations \subseteq Seq(Forms!Destination)
      BY <2>1, FormsAssumption
    <3> QED  BY <2>3, <3>1, <3>2
  <2>5. CASE v.destinations = {}
    <3>1. ds = Forms!LegacyYouTubeDestination
      BY <2>3, <2>5 DEF Forms!DestinationsOf
    <3>2. Forms!LegacyYouTubeDestination \in Seq(Forms!Destination)
      BY DEF Forms!LegacyYouTubeDestination, Forms!Destination, Forms!Platforms
    <3> QED  BY <2>3, <3>1, <3>2
  <2> QED  BY <2>4, <2>5
<1> HIDE DEF src, ds, row
<1>6. <<src>> \o <<>> = <<src>>
  BY <1>4
<1>7. Leads(<<src>>, 0) /\ Elements(<<src>>) = {src}
  BY <1>4, ChainStarts
<1>8. Leads(<<src>>, 5) /\ <<src>> \in Seq(EditorSteps)
  <2>1. Order(src) = 0
    BY <1>4, KindOrder DEF Order
  <2>2. Len(<<src>>) = 1 /\ <<src>>[1] = src
    OBVIOUS
  <2> QED  BY <1>7, <2>1, <2>2 DEF Leads
<1>9. Fans(<<src>>, ds)
  BY <1>5, <1>8 DEF Fans
<1>10. Forms!Valid(Forms!KindsOf(d))
  BY <1>9, FanValid
<1>11. Elements(d.steps) = {src} \cup {Forms!DestinationStep(ds[i]) : i \in DOMAIN ds}
  BY <1>5, <1>7, <1>8, FanElements
<1>12. \A t : ~Forms!BadStep(Forms!DestinationStep(t))
  BY DEF Forms!BadStep, Forms!DestinationStep
<1>13. \A i \in DOMAIN d.steps : ~Forms!BadStep(d.steps[i])
  <2>1. \A s \in Elements(d.steps) : ~Forms!BadStep(s)
    BY <1>4, <1>11, <1>12
  <2> HIDE DEF d
  <2> QED  BY <2>1 DEF Elements
<1>14. Forms!Read(Forms!Migrated(row)).definition = d
  BY <1>2, <1>3, <1>6
<1> QED  BY <1>10, <1>13, <1>14 DEF Forms!Compiles, row

\* Every row that can be stored is such a row.
LEMMA RowsSound == \A w \in RowKind : RowSound(w)
<1>1. ASSUME NEW v \in Allowed PROVE RowSound(Forms!Accepted("client", v))
  <2>1. v.remote \subseteq RemoteKind /\ Forms!Refusals(v) = {}
    BY FormsAssumption DEF Allowed, RemoteKind
  <2> DEFINE w == Forms!Accepted("client", v)
  <2>2. /\ Forms!Compiles(Forms!Read(w.row)) /\ w.by = "client"
        /\ \A a \in w.answered :
             Forms!Read(w.row) = [a EXCEPT !.remote = {Told(r) : r \in @}]
    BY <2>1, AcceptedSound
  <2> HIDE DEF w
  <2>3. RowSound(w)
    BY <2>2 DEF RowSound
  <2> QED  BY <2>3 DEF w
<1>2. ASSUME NEW f \in SentForms PROVE RowSound(Forms!Accepted("editor", Forms!Submitted(f)))
  <2> DEFINE v == Forms!Submitted(f)
             w == Forms!Accepted("editor", v)
             x == Forms!Read(w.row)
             clips == [retention |-> f.retention,
                       duration |-> IF f.retention = "keep_for_duration" THEN f.duration ELSE "absent",
                       filter |-> Filters(f), rights |-> IF f.rights THEN "yes" ELSE "no"]
  <2>1. f \in FormKind /\ Forms!EditorAccepts(f) /\ Forms!Refusals(v) = {} /\ f.destinations # <<>>
    BY DEF SentForms, Forms!EditorAccepts
  <2>2. v.remote = (IF ~f.remote THEN {} ELSE {clips}) /\ Forms!DefinitionOf(v) = Sent(f)
    BY SubmittedFields
  <2>3. clips \in RemoteKind /\ clips.filter = Filters(f)
    BY <2>1 DEF RemoteKind, FormKind, Filters
  <2> HIDE DEF v, clips
  <2>4. v.remote \subseteq RemoteKind
    BY <2>2, <2>3
  <2>5. /\ x.definition = Sent(f) /\ x.remote = {Told(r) : r \in v.remote}
    BY <2>2, <2>4, ReadsBack DEF Forms!Accepted
  <2>6. Forms!StepsOf(Sent(f), "filter") = IF Filters(f) THEN {Forms!FilterStep} ELSE {}
    BY <2>1, SentSteps
  <2>7. Told(clips).filter = Filters(f)
    BY <2>3 DEF Told, RemoteKind
  <2>8. (\E r \in x.remote : r.filter) = Filters(f)
    <3> HIDE DEF x
    <3>1. CASE f.remote
      <4>1. x.remote = {Told(clips)}
        BY <2>2, <2>5, <3>1
      <4>2. CASE Filters(f)
        <5>1. Told(clips).filter
          BY <2>7, <4>2
        <5>2. \E r \in x.remote : r.filter
          BY <4>1, <5>1
        <5>3. Filters(f) = TRUE
          BY <4>2 DEF Filters
        <5> QED  BY <5>2, <5>3
      <4>3. CASE ~Filters(f)
        <5>1. ~Told(clips).filter
          BY <2>7, <4>3
        <5>2. ~\E r \in x.remote : r.filter
          BY <4>1, <5>1
        <5>3. Filters(f) = FALSE
          BY <4>3 DEF Filters
        <5> QED  BY <5>2, <5>3
      <4> QED  BY <4>2, <4>3
    <3>2. CASE ~f.remote
      <4>1. x.remote = {} /\ ~Filters(f)
        BY <2>2, <2>5, <3>2 DEF Filters
      <4> QED  BY <4>1 DEF Filters
    <3> QED  BY <3>1, <3>2
  <2>9. (Forms!StepsOf(x.definition, "filter") # {}) = (\E r \in x.remote : r.filter)
    <3> HIDE DEF x
    <3>1. (Forms!StepsOf(x.definition, "filter") # {}) = Filters(f)
      BY <2>5, <2>6 DEF Filters
    <3> QED  BY <2>8, <3>1
  <2> QED  BY <2>1, <2>4, <2>9, AcceptedSound DEF RowSound, v
<1>3. ASSUME NEW v \in Allowed, v.definition = {}
      PROVE  RowSound([by |-> "migration", row |-> Forms!Migrated(Forms!Row(Forms!Built(v))),
                       answered |-> {}])
  BY <1>3, MigratedSound DEF RowSound
<1> QED  BY <1>1, <1>2, <1>3 DEF RowKind

\* The form, and each that was sent, against the draft that it was loaded from:
\* it shows the draft while nothing but the folder and the rights is edited, and
\* its title fits the kind of its source until somebody types one.
FieldNames == {"folder", "kind", "remote", "retention", "duration", "rights", "filtering", "filter",
               "transforming", "size", "even", "fit", "scheduling", "schedule", "title",
               "destinations"}
DraftSet == {Forms!Draft(o, id) : o \in Offers, id \in Forms!Presets}
Same(f, g) ==
  /\ f.kind = g.kind /\ f.remote = g.remote /\ f.filtering = g.filtering
  /\ f.transforming = g.transforming /\ f.size = g.size /\ f.even = g.even /\ f.fit = g.fit
  /\ f.scheduling = g.scheduling /\ f.title = g.title /\ f.destinations = g.destinations
TitleFits(f) == f.title \in {"file", "source"} /\ (f.title = "source" <=> f.kind # "standard")
Fits(f, l, t) ==
  /\ l \subseteq DraftSet
  /\ t \subseteq {"folder", "rights"} => \A d \in l : Same(f, Forms!FormOf(d))
  /\ "title" \notin t /\ (\A d \in l : d.remote = {}) => TitleFits(f)
FormInv ==
  /\ form \in FormKind /\ touched \subseteq FieldNames
  /\ applying \in Forms!Presets \cup {"none"} /\ acts \in 0..ActBound
  /\ Fits(form, loaded, touched)
  /\ \A s \in sending : \E f \in FormKind :
       Forms!EditorAccepts(f) /\ Fits(f, s.loaded, s.touched) /\ s.value = Forms!Submitted(f)
  /\ workflows \in Seq(RowKind)

\* A field is edited.
LEMMA EditStep ==
  ASSUME FormInv, NEW field \in FieldNames, NEW g \in FormKind, Forms!Edit(field, g),
         field \in {"folder", "rights"} => Same(g, form),
         field \notin {"kind", "title"} => g.title = form.title /\ g.kind = form.kind,
         field = "kind" => g.title = Forms!TitleFor(g.kind)
  PROVE  FormInv'
<1>1. /\ form' = g /\ touched' = touched \cup {field} /\ acts' = acts + 1 /\ acts < ActBound
      /\ UNCHANGED <<loaded, applying, sending, workflows>>
  BY DEF Forms!Edit
<1>2. Fits(form, loaded, touched)
  BY DEF FormInv
<1>3. touched \cup {field} \subseteq {"folder", "rights"} => \A d \in loaded : Same(g, Forms!FormOf(d))
  <2>1. ASSUME touched \cup {field} \subseteq {"folder", "rights"}, NEW d \in loaded
        PROVE  Same(g, Forms!FormOf(d))
    <3>1. Same(form, Forms!FormOf(d)) /\ Same(g, form)
      BY <1>2, <2>1 DEF Fits
    <3> QED  BY <3>1 DEF Same
  <2> QED  BY <2>1
<1>4. ASSUME "title" \notin touched \cup {field}, \A d \in loaded : d.remote = {}
      PROVE  TitleFits(g)
  <2>1. TitleFits(form) /\ field # "title"
    BY <1>2, <1>4 DEF Fits
  <2>2. CASE field # "kind"
    BY <2>1, <2>2 DEF TitleFits
  <2>3. CASE field = "kind"
    BY <2>1, <2>3 DEF TitleFits, Forms!TitleFor
  <2> QED  BY <2>2, <2>3
<1>5. Fits(form', loaded', touched')
  BY <1>1, <1>2, <1>3, <1>4 DEF Fits
<1>6. acts' \in 0..ActBound
  BY <1>1, FormsAssumption DEF FormInv
<1>7. touched' \subseteq FieldNames
  BY <1>1 DEF FormInv
<1> QED  BY <1>1, <1>5, <1>6, <1>7 DEF FormInv

\* Edits of the source keep the invariant.
LEMMA SourceEdited ==
  ASSUME FormInv, Forms!EditSource
  PROVE  FormInv'
<1>0. form \in FormKind
  BY DEF FormInv
<1>1. CASE Forms!Edit("remote", [form EXCEPT !.remote = ~@])
  <2> DEFINE g == [form EXCEPT !.remote = ~@]
  <2>1. g \in FormKind /\ g.title = form.title /\ g.kind = form.kind
    BY <1>0 DEF FormKind
  <2> HIDE DEF g
  <2> QED  BY <1>1, <2>1, EditStep DEF FieldNames, g
<1>2. CASE Forms!Edit("folder", [form EXCEPT !.folder = ~@])
  <2> DEFINE g == [form EXCEPT !.folder = ~@]
  <2>1. g \in FormKind /\ g.title = form.title /\ g.kind = form.kind /\ Same(g, form)
    BY <1>0 DEF FormKind, Same
  <2> HIDE DEF g
  <2> QED  BY <1>2, <2>1, EditStep DEF FieldNames, g
<1>3. ASSUME NEW k \in Forms!FolderKinds \ {form.kind},
             Forms!Edit("kind", [form EXCEPT !.kind = k, !.title = Forms!TitleFor(k)])
      PROVE  FormInv'
  <2> DEFINE g == [form EXCEPT !.kind = k, !.title = Forms!TitleFor(k)]
  <2>1. Forms!TitleFor(k) \in Forms!Titles
    BY <1>0 DEF Forms!TitleFor, Forms!Titles, FormKind
  <2>2. g \in FormKind /\ g.title = Forms!TitleFor(k) /\ g.kind = k
    BY <1>0, <2>1 DEF FormKind
  <2> HIDE DEF g
  <2> QED  BY <1>3, <2>2, EditStep DEF FieldNames, g
<1>4. ASSUME NEW r \in Forms!Retentions \ {form.retention},
             Forms!Edit("retention", [form EXCEPT !.retention = r])
      PROVE  FormInv'
  <2> DEFINE g == [form EXCEPT !.retention = r]
  <2>1. g \in FormKind /\ g.title = form.title /\ g.kind = form.kind
    BY <1>0 DEF FormKind
  <2> HIDE DEF g
  <2> QED  BY <1>4, <2>1, EditStep DEF FieldNames, g
<1>5. ASSUME NEW d \in Forms!Durations \ {form.duration},
             Forms!Edit("duration", [form EXCEPT !.duration = d])
      PROVE  FormInv'
  <2> DEFINE g == [form EXCEPT !.duration = d]
  <2>1. g \in FormKind /\ g.title = form.title /\ g.kind = form.kind
    BY <1>0 DEF FormKind
  <2> HIDE DEF g
  <2> QED  BY <1>5, <2>1, EditStep DEF FieldNames, g
<1>6. CASE Forms!Edit("rights", [form EXCEPT !.rights = ~@])
  <2> DEFINE g == [form EXCEPT !.rights = ~@]
  <2>1. g \in FormKind /\ g.title = form.title /\ g.kind = form.kind /\ Same(g, form)
    BY <1>0 DEF FormKind, Same
  <2> HIDE DEF g
  <2> QED  BY <1>6, <2>1, EditStep DEF FieldNames, g
<1> QED  BY <1>1, <1>2, <1>3, <1>4, <1>5, <1>6 DEF Forms!EditSource

\* Edits of the stages between source and destinations keep it.
LEMMA StagesEdited ==
  ASSUME FormInv, Forms!EditFilter \/ Forms!EditTransform \/ Forms!EditSchedule
  PROVE  FormInv'
<1>0. form \in FormKind
  BY DEF FormInv
<1>1. ASSUME NEW field \in {"filtering", "filter", "transforming", "size", "even", "fit",
                            "scheduling", "schedule"},
             NEW g \in FormKind, g.title = form.title, g.kind = form.kind, Forms!Edit(field, g)
      PROVE  FormInv'
  BY <1>1, EditStep DEF FieldNames
<1>2. CASE Forms!EditFilter
  <2>1. /\ [form EXCEPT !.filtering = ~@] \in FormKind
        /\ [form EXCEPT !.filtering = ~@].title = form.title
        /\ [form EXCEPT !.filtering = ~@].kind = form.kind
    BY <1>0 DEF FormKind
  <2>2. /\ [form EXCEPT !.filter = ~@] \in FormKind
        /\ [form EXCEPT !.filter = ~@].title = form.title
        /\ [form EXCEPT !.filter = ~@].kind = form.kind
    BY <1>0 DEF FormKind
  <2> QED  BY <1>1, <1>2, <2>1, <2>2 DEF Forms!EditFilter
<1>3. CASE Forms!EditSchedule
  <2>1. /\ [form EXCEPT !.scheduling = ~@] \in FormKind
        /\ [form EXCEPT !.scheduling = ~@].title = form.title
        /\ [form EXCEPT !.scheduling = ~@].kind = form.kind
    BY <1>0 DEF FormKind
  <2>2. /\ [form EXCEPT !.schedule = ~@] \in FormKind
        /\ [form EXCEPT !.schedule = ~@].title = form.title
        /\ [form EXCEPT !.schedule = ~@].kind = form.kind
    BY <1>0 DEF FormKind
  <2> QED  BY <1>1, <1>3, <2>1, <2>2 DEF Forms!EditSchedule
<1>4. CASE Forms!EditTransform
  <2>1. /\ [form EXCEPT !.transforming = ~@] \in FormKind
        /\ [form EXCEPT !.transforming = ~@].title = form.title
        /\ [form EXCEPT !.transforming = ~@].kind = form.kind
    BY <1>0 DEF FormKind
  <2>2. ASSUME NEW s \in Forms!Sizes
        PROVE  /\ [form EXCEPT !.size = s, !.even = s # "custom" \/ @] \in FormKind
               /\ [form EXCEPT !.size = s, !.even = s # "custom" \/ @].title = form.title
               /\ [form EXCEPT !.size = s, !.even = s # "custom" \/ @].kind = form.kind
    BY <1>0 DEF FormKind
  <2>3. /\ [form EXCEPT !.even = ~@] \in FormKind
        /\ [form EXCEPT !.even = ~@].title = form.title
        /\ [form EXCEPT !.even = ~@].kind = form.kind
    BY <1>0 DEF FormKind
  <2>4. ASSUME NEW fit \in {"crop", "stretch"}
        PROVE  /\ [form EXCEPT !.fit = fit] \in FormKind
               /\ [form EXCEPT !.fit = fit].title = form.title
               /\ [form EXCEPT !.fit = fit].kind = form.kind
    BY <1>0 DEF FormKind
  <2> QED  BY <1>1, <1>4, <2>1, <2>2, <2>3, <2>4 DEF Forms!EditTransform
<1> QED  BY <1>2, <1>3, <1>4

\* One is taken out of a list.
LEMMA TakenOut ==
  ASSUME NEW S, NEW s \in Seq(S), NEW i \in 1..Len(s)
  PROVE  /\ SubSeq(s, 1, i - 1) \o SubSeq(s, i + 1, Len(s)) \in Seq(S)
         /\ Len(SubSeq(s, 1, i - 1) \o SubSeq(s, i + 1, Len(s))) <= Len(s)
<1>1. Len(s) \in Nat /\ i \in Int /\ \A j \in 1..Len(s) : s[j] \in S
  OBVIOUS
<1> DEFINE a == SubSeq(s, 1, i - 1)
           b == SubSeq(s, i + 1, Len(s))
<1>2. /\ a \in Seq(S) /\ Len(a) = IF 1 <= i - 1 THEN (i - 1) - 1 + 1 ELSE 0
  <2>1. 1 \in Int /\ i - 1 \in Int /\ \A j \in 1..(i - 1) : s[j] \in S
    BY <1>1
  <2> QED  BY <2>1, SubSeqProperties
<1>3. /\ b \in Seq(S) /\ Len(b) = IF i + 1 <= Len(s) THEN Len(s) - (i + 1) + 1 ELSE 0
  <2>1. i + 1 \in Int /\ Len(s) \in Int /\ \A j \in (i + 1)..Len(s) : s[j] \in S
    BY <1>1
  <2> QED  BY <2>1, SubSeqProperties
<1> HIDE DEF a, b
<1>4. a \o b \in Seq(S) /\ Len(a \o b) = Len(a) + Len(b)
  BY <1>2, <1>3, ConcatProperties
<1>5. Len(a) + Len(b) <= Len(s)
  <2>1. Len(s) \in Nat /\ i \in Nat /\ 1 <= i /\ i <= Len(s)
    BY <1>1
  <2>2. Len(a) = i - 1
    BY <1>2, <2>1
  <2>3. Len(b) = Len(s) - i
    BY <1>3, <2>1
  <2> QED  BY <2>1, <2>2, <2>3
<1> QED  BY <1>4, <1>5 DEF a, b

\* Edits of the destinations keep it.
LEMMA DestinationsEdited ==
  ASSUME FormInv, Forms!EditDestinations
  PROVE  FormInv'
<1>0. form \in FormKind
  BY DEF FormInv
<1>1. form.destinations \in Seq(Forms!Destination) /\ Len(form.destinations) <= 3
  BY <1>0 DEF FormKind
<1>2. ASSUME NEW ds \in Seq(Forms!Destination), Len(ds) <= 3,
             Forms!Edit("destinations", [form EXCEPT !.destinations = ds])
      PROVE  FormInv'
  <2> DEFINE g == [form EXCEPT !.destinations = ds]
  <2>1. g \in FormKind /\ g.title = form.title /\ g.kind = form.kind
    BY <1>0, <1>2 DEF FormKind
  <2> HIDE DEF g
  <2> QED  BY <1>2, <2>1, EditStep DEF FieldNames, g
<1>3. \A to \in Forms!Platforms, chosen \in BOOLEAN :
         [to |-> to, chosen |-> chosen, feed |-> "absent"] \in Forms!Destination
  BY DEF Forms!Destination
<1>4. CASE /\ Len(form.destinations) < 3
           /\ Forms!Edit("destinations", [form EXCEPT !.destinations =
                Append(@, [to |-> "youtube", chosen |-> FALSE, feed |-> "absent"])])
  <2> DEFINE later == [to |-> "youtube", chosen |-> FALSE, feed |-> "absent"]
  <2>1. later \in Forms!Destination
    BY DEF Forms!Destination, Forms!Platforms
  <2> HIDE DEF later
  <2>2. Append(form.destinations, later) \in Seq(Forms!Destination)
        /\ Len(Append(form.destinations, later)) <= 3
    BY <1>1, <1>4, <2>1
  <2> QED  BY <1>2, <1>4, <2>2 DEF later
<1>5. ASSUME NEW i \in DOMAIN form.destinations, NEW to \in Forms!Platforms,
             Forms!Edit("destinations", [form EXCEPT !.destinations[i] =
               [to |-> to, chosen |-> TRUE, feed |-> "absent"]])
      PROVE  FormInv'
  <2> DEFINE later == [to |-> to, chosen |-> TRUE, feed |-> "absent"]
             ds == [form.destinations EXCEPT ![i] = later]
  <2>1. later \in Forms!Destination
    BY DEF Forms!Destination
  <2> HIDE DEF later
  <2>2. i \in 1..Len(form.destinations)
    BY <1>1
  <2>3. ds \in Seq(Forms!Destination) /\ Len(ds) <= 3
    BY <1>1, <2>1, <2>2, ExceptSeq
  <2>4. [form EXCEPT !.destinations[i] = later] = [form EXCEPT !.destinations = ds]
    OBVIOUS
  <2> HIDE DEF ds
  <2> QED  BY <1>2, <1>5, <2>3, <2>4 DEF later
<1>6. ASSUME NEW i \in DOMAIN form.destinations,
             Forms!Edit("destinations", [form EXCEPT !.destinations =
               SubSeq(@, 1, i - 1) \o SubSeq(@, i + 1, Len(@))])
      PROVE  FormInv'
  <2> DEFINE earlier == form.destinations
             ds == SubSeq(earlier, 1, i - 1) \o SubSeq(earlier, i + 1, Len(earlier))
  <2>1. i \in 1..Len(earlier) /\ Len(earlier) \in Nat
    BY <1>1
  <2>2. ds \in Seq(Forms!Destination) /\ Len(ds) <= Len(earlier)
    BY <1>1, <2>1, TakenOut
  <2>3. Len(ds) <= 3
    <3>1. Len(ds) \in Nat
      BY <2>2, LenProperties
    <3> HIDE DEF ds
    <3> QED  BY <1>1, <2>1, <2>2, <3>1
  <2> QED  BY <1>2, <1>6, <2>2, <2>3
<1> QED  BY <1>4, <1>5, <1>6 DEF Forms!EditDestinations

\* Edits of the title keep it.
LEMMA TitleEdited ==
  ASSUME FormInv, Forms!EditTitle
  PROVE  FormInv'
<1>1. PICK t \in Forms!Titles : Forms!Edit("title", [form EXCEPT !.title = t])
  BY DEF Forms!EditTitle
<1> DEFINE g == [form EXCEPT !.title = t]
<1>2. g \in FormKind
  BY DEF FormInv, FormKind
<1> HIDE DEF g
<1> QED  BY <1>1, <1>2, EditStep DEF FieldNames, g

\* A draft comes for the form, or is refused.
LEMMA PresetStep ==
  ASSUME FormInv, Forms!PresetAnswered \/ \E id \in Forms!Presets : Forms!UsePreset(id)
  PROVE  FormInv'
<1>1. CASE \E id \in Forms!Presets : Forms!UsePreset(id)
  BY <1>1 DEF Forms!UsePreset, FormInv
<1>2. CASE Forms!PresetAnswered
  <2>1. applying \in Forms!Presets
    BY <1>2 DEF Forms!PresetAnswered, FormInv
  <2>2. PICK o \in Offers :
          IF Forms!Blocked(o, applying) THEN UNCHANGED <<form, touched, loaded>>
          ELSE /\ form' = Forms!FormOf(Forms!Draft(o, applying))
               /\ touched' = {} /\ loaded' = {Forms!Draft(o, applying)}
    BY <1>2 DEF Forms!PresetAnswered
  <2>3. applying' = "none" /\ UNCHANGED <<sending, workflows, acts>>
    BY <1>2 DEF Forms!PresetAnswered
  <2>4. CASE UNCHANGED <<form, touched, loaded>>
    BY <2>3, <2>4 DEF FormInv
  <2>5. CASE /\ form' = Forms!FormOf(Forms!Draft(o, applying))
             /\ touched' = {} /\ loaded' = {Forms!Draft(o, applying)}
    <3> DEFINE v == Forms!Draft(o, applying)
               f == Forms!FormOf(v)
    <3>1. /\ f \in FormKind /\ (v.remote = {}) = ~DraftRemote(applying)
          /\ f.kind = DraftKind(applying) /\ f.title = "source"
      BY <2>1, DraftForm
    <3>2. v \in DraftSet
      BY <2>1 DEF DraftSet
    <3> HIDE DEF v
    <3>3. Same(f, Forms!FormOf(v))
      BY DEF Same
    <3> HIDE DEF f
    <3>4. v.remote = {} => TitleFits(f)
      BY <3>1 DEF TitleFits, DraftKind
    <3>5. Fits(f, {v}, {})
      BY <3>2, <3>3, <3>4 DEF Fits
    <3>6. form' = f /\ loaded' = {v} /\ touched' = {}
      BY <2>5 DEF f, v
    <3> QED  BY <2>3, <3>1, <3>5, <3>6 DEF FormInv
  <2> QED  BY <2>2, <2>4, <2>5
<1> QED  BY <1>1, <1>2

\* What is sent is what the form was, and what is stored is what was sent.
LEMMA SendStep ==
  ASSUME FormInv, Forms!Submit \/ Forms!Handled
  PROVE  FormInv'
<1>1. CASE Forms!Submit
  <2> DEFINE later == [value |-> Forms!Submitted(form), loaded |-> loaded, touched |-> touched]
  <2>1. sending' = {later} /\ UNCHANGED <<form, touched, loaded, applying, workflows, acts>>
        /\ Forms!EditorAccepts(form)
    BY <1>1 DEF Forms!Submit
  <2>2. later.value = Forms!Submitted(form) /\ later.loaded = loaded /\ later.touched = touched
    OBVIOUS
  <2> HIDE DEF later
  <2>3. \A s \in sending' : \E f \in FormKind :
          Forms!EditorAccepts(f) /\ Fits(f, s.loaded, s.touched) /\ s.value = Forms!Submitted(f)
    BY <2>1, <2>2 DEF FormInv
  <2> QED  BY <2>1, <2>3 DEF FormInv
<1>2. CASE Forms!Handled
  <2>1. PICK s \in sending :
          /\ sending' = {}
          /\ workflows' = IF Forms!Refusals(s.value) = {}
                          THEN Append(workflows, Forms!Accepted("editor", s.value)) ELSE workflows
          /\ acts' = ActBound
          /\ UNCHANGED <<form, touched, loaded, applying>>
    BY <1>2 DEF Forms!Handled
  <2>2. PICK f \in FormKind : Forms!EditorAccepts(f) /\ s.value = Forms!Submitted(f)
    BY <2>1 DEF FormInv
  <2>3. workflows' \in Seq(RowKind)
    <3>1. workflows \in Seq(RowKind)
      BY DEF FormInv
    <3>2. CASE Forms!Refusals(s.value) = {}
      <4>1. f \in SentForms
        BY <2>2, <3>2 DEF SentForms
      <4>2. Forms!Accepted("editor", s.value) \in RowKind
        BY <2>2, <4>1 DEF RowKind
      <4> QED  BY <2>1, <3>1, <3>2, <4>2
    <3> QED  BY <2>1, <3>1, <3>2
  <2>4. acts' \in 0..ActBound
    BY <2>1, FormsAssumption
  <2> QED  BY <2>1, <2>3, <2>4 DEF FormInv
<1> QED  BY <1>1, <1>2

\* The table of the other clients.
LEMMA OthersStep ==
  ASSUME FormInv,
         \/ \E v \in Requests : Forms!Migrate(v) \/ \E i \in 1..(Len(workflows) + 1) : Forms!Client(v, i)
         \/ \E i \in DOMAIN workflows : Forms!Delete(i)
  PROVE  FormInv'
<1>1. workflows \in Seq(RowKind) /\ Len(workflows) \in Nat /\ DOMAIN workflows = 1..Len(workflows)
  BY DEF FormInv
<1>2. ASSUME Forms!Others, UNCHANGED <<form, touched, loaded, applying, sending>>,
             workflows' \in Seq(RowKind)
      PROVE  FormInv'
  <2>1. acts' \in 0..ActBound
    BY <1>2, FormsAssumption DEF Forms!Others, FormInv
  <2> QED  BY <1>2, <2>1 DEF FormInv
<1>3. ASSUME NEW v \in Requests, Forms!Migrate(v) PROVE FormInv'
  <2> DEFINE w == [by |-> "migration", row |-> Forms!Migrated(Forms!Row(Forms!Built(v))),
                   answered |-> {}]
  <2>1. v \in Allowed /\ v.definition = {}
    BY <1>3 DEF Forms!Migrate, Allowed
  <2>2. w \in RowKind
    BY <2>1 DEF RowKind
  <2>3. workflows' = <<w>> /\ Forms!Others /\ UNCHANGED <<form, touched, loaded, applying, sending>>
    BY <1>3 DEF Forms!Migrate
  <2> HIDE DEF w
  <2> QED  BY <1>2, <2>2, <2>3
<1>4. ASSUME NEW v \in Requests, NEW i \in 1..(Len(workflows) + 1), Forms!Client(v, i) PROVE FormInv'
  <2> DEFINE w == Forms!Accepted("client", v)
  <2>1. /\ Forms!Others /\ UNCHANGED <<form, touched, loaded, applying, sending>>
        /\ workflows' = IF Forms!Refusals(v) # {} THEN workflows
                        ELSE IF i \in DOMAIN workflows THEN [workflows EXCEPT ![i] = w]
                        ELSE Append(workflows, w)
    BY <1>4 DEF Forms!Client
  <2>2. workflows' \in Seq(RowKind)
    <3>1. CASE Forms!Refusals(v) = {}
      <4>1. v \in Allowed
        BY <3>1 DEF Allowed
      <4>2. w \in RowKind
        BY <4>1 DEF RowKind
      <4> HIDE DEF w
      <4>3. CASE i \in DOMAIN workflows
        BY <1>1, <2>1, <3>1, <4>2, <4>3, ExceptSeq
      <4>4. CASE i \notin DOMAIN workflows
        BY <1>1, <2>1, <3>1, <4>2, <4>4
      <4> QED  BY <4>3, <4>4
    <3> QED  BY <1>1, <2>1, <3>1
  <2> QED  BY <1>2, <2>1, <2>2
<1>5. ASSUME NEW i \in DOMAIN workflows, Forms!Delete(i) PROVE FormInv'
  <2>1. /\ Forms!Others /\ UNCHANGED <<form, touched, loaded, applying, sending>>
        /\ workflows' = SubSeq(workflows, 1, i - 1) \o SubSeq(workflows, i + 1, Len(workflows))
    BY <1>5 DEF Forms!Delete
  <2>2. workflows' \in Seq(RowKind)
    BY <1>1, <2>1, TakenOut
  <2> QED  BY <1>2, <2>1, <2>2
<1> QED  BY <1>3, <1>4, <1>5

\* Every step of the form keeps the invariant.
LEMMA FormStep ==
  ASSUME FormInv, [Forms!FormNext]_Forms!formVars
  PROVE  FormInv'
<1>1. CASE UNCHANGED Forms!formVars
  BY <1>1 DEF Forms!formVars, FormInv
<1> QED
  BY <1>1, SourceEdited, StagesEdited, DestinationsEdited, TitleEdited, PresetStep, SendStep,
     OthersStep DEF Forms!FormNext

\* It holds at the beginning.
LEMMA FormBegins == Forms!FormInit => FormInv
<1> SUFFICES ASSUME Forms!FormInit PROVE FormInv
  OBVIOUS
<1>1. /\ form = Forms!FreshForm /\ touched = {} /\ loaded = {} /\ applying = "none"
      /\ sending = {} /\ acts = 0 /\ workflows = <<>>
  BY DEF Forms!FormInit
<1>2. Forms!FreshForm \in FormKind
  <2>1. <<>> \in Seq(Forms!Destination) /\ Len(<<>>) <= 3
    OBVIOUS
  <2> QED
    BY <2>1 DEF Forms!FreshForm, FormKind, Forms!FolderKinds, Forms!Retentions, Forms!Durations,
                Forms!Sizes, Forms!Titles
<1>3. TitleFits(form)
  BY <1>1 DEF TitleFits, Forms!FreshForm
<1>4. Fits(form, loaded, touched)
  BY <1>1, <1>3 DEF Fits
<1>5. <<>> \in Seq(RowKind) /\ 0 \in 0..ActBound
  BY FormsAssumption
<1> QED  BY <1>1, <1>2, <1>4, <1>5 DEF FormInv

\* A draft that was sent as it came is the route it was drafted with.
LEMMA DraftSent ==
  ASSUME NEW o, NEW id \in Forms!Presets, NEW f \in FormKind, Same(f, Forms!FormOf(Forms!Draft(o, id)))
  PROVE  /\ Forms!Submitted(f).definition = Forms!Draft(o, id).definition
         /\ Forms!Submitted(f).title = Forms!Draft(o, id).title
<1> DEFINE v == Forms!Draft(o, id)
           g == Forms!FormOf(v)
           src == Forms!SourceStep(DraftRemote(id), DraftKind(id))
           fit == Forms!TransformStep("vertical", TRUE, "crop")
           ds == Forms!PresetDestinations(o)
<1>0. /\ v.title = "source" /\ v.definition = {Forms!Fan(DraftChain(id), ds)}
      /\ g.kind = DraftKind(id) /\ g.remote = DraftRemote(id) /\ g.filtering = FALSE
      /\ g.transforming = TRUE /\ g.size = "vertical" /\ g.even = TRUE /\ g.fit = "crop"
      /\ g.scheduling = FALSE /\ g.title = "source" /\ g.destinations = ds
  BY DraftForm
<1> HIDE DEF v, g, ds
<1>1. /\ v.title = "source" /\ v.definition = {Forms!Fan(<<src, fit>>, ds)}
      /\ f.kind = DraftKind(id) /\ f.remote = DraftRemote(id) /\ f.filtering = FALSE
      /\ f.transforming = TRUE /\ f.size = "vertical" /\ f.even = TRUE /\ f.fit = "crop"
      /\ f.scheduling = FALSE /\ f.title = "source" /\ f.destinations = ds
  <2>1. Same(f, g)
    BY DEF g, v
  <2> QED  BY <1>0, <2>1 DEF Same, DraftChain
<1>2. SourceOf(f) = src
  <2>1. (IF f.remote THEN "standard" ELSE f.kind) = DraftKind(id)
    BY <1>1 DEF DraftKind
  <2> QED  BY <1>1, <2>1 DEF SourceOf
<1>3. FitOf(f) = fit
  BY <1>1 DEF FitOf
<1>4. ~Filters(f)
  BY <1>1 DEF Filters
<1> HIDE DEF src, fit
<1>5. ChainOf(f) = <<src, fit>>
  <2>1. ChainOf(f) = <<src>> \o <<>> \o <<fit>> \o <<>>
    BY <1>1, <1>2, <1>3, <1>4 DEF ChainOf
  <2>2. <<src>> \in Seq({src, fit}) /\ <<src, fit>> \in Seq({src, fit})
    OBVIOUS
  <2>3. <<src>> \o <<>> = <<src>>
    BY <2>2
  <2>5. <<src>> \o <<fit>> = <<src, fit>>
    <3>1. <<fit>> \in Seq({src, fit}) /\ Len(<<src>>) = 1 /\ Len(<<fit>>) = 1 /\ Len(<<src, fit>>) = 2
      OBVIOUS
    <3>2. /\ <<src>> \o <<fit>> \in Seq({src, fit}) /\ Len(<<src>> \o <<fit>>) = 2
          /\ \A i \in 1..2 : (<<src>> \o <<fit>>)[i] = IF i <= 1 THEN <<src>>[i] ELSE <<fit>>[i - 1]
      BY <2>2, <3>1, ConcatProperties
    <3>3. \A i \in 1..2 : (<<src>> \o <<fit>>)[i] = <<src, fit>>[i]
      <4>1. \A i \in 1..2 : i = 1 \/ i = 2
        OBVIOUS
      <4>2. /\ (<<src>> \o <<fit>>)[1] = src /\ (<<src>> \o <<fit>>)[2] = fit
            /\ <<src, fit>>[1] = src /\ <<src, fit>>[2] = fit
        BY <3>2
      <4> QED  BY <4>1, <4>2
    <3> QED  BY <2>2, <3>1, <3>2, <3>3, SeqEqual
  <2>4. <<src, fit>> \o <<>> = <<src, fit>>
    BY <2>2
  <2> QED  BY <2>1, <2>3, <2>4, <2>5
<1>6. Forms!Submitted(f).definition = {Sent(f)} /\ Forms!Submitted(f).title = f.title
  BY SubmittedFields
<1> QED  BY <1>1, <1>5, <1>6 DEF Sent, v

\* What was sent was accepted, stored and is read back as it was shown.
LEMMA FormHolds == FormInv => Forms!FormIsStored
<1> SUFFICES ASSUME FormInv PROVE Forms!FormIsStored
  OBVIOUS
<1>1. ASSUME NEW s \in sending
      PROVE  \E f \in FormKind :
               Forms!EditorAccepts(f) /\ Fits(f, s.loaded, s.touched) /\ s.value = Forms!Submitted(f)
  BY DEF FormInv
<1>2. \A i \in DOMAIN workflows : RowSound(workflows[i])
  BY RowsSound DEF FormInv
<1>3. Forms!EditorIsAccepted
  BY <1>1, SubmittedRefused DEF Forms!EditorIsAccepted
<1>4. Forms!StoredReadsBack
  BY <1>2 DEF RowSound, Told, Forms!StoredReadsBack
<1>5. Forms!AppliedAsShown
  BY <1>2 DEF RowSound, Forms!AppliedAsShown
<1>6. Forms!PresetUnchanged
  <2>1. ASSUME NEW s \in sending, NEW d \in s.loaded, s.touched \subseteq {"folder", "rights"}
        PROVE  s.value.definition = d.definition /\ s.value.title = d.title
    <3>1. PICK f \in FormKind : Fits(f, s.loaded, s.touched) /\ s.value = Forms!Submitted(f)
      BY <1>1
    <3>2. d \in DraftSet /\ Same(f, Forms!FormOf(d))
      BY <2>1, <3>1 DEF Fits
    <3>3. PICK o \in Offers, id \in Forms!Presets : d = Forms!Draft(o, id)
      BY <3>2 DEF DraftSet
    <3> QED  BY <3>1, <3>2, <3>3, DraftSent
  <2> QED  BY <2>1 DEF Forms!PresetUnchanged
<1>7. Forms!DefaultTitleRenders
  <2>1. ASSUME NEW s \in sending, "title" \notin s.touched, s.value.remote = {},
               s.value.title = "source", \A d \in s.loaded : d.remote = {},
               NEW d \in s.value.definition, NEW x \in Forms!StepsOf(d, "source")
        PROVE  x.folder # {}
    <3>1. PICK f \in FormKind : /\ Forms!EditorAccepts(f) /\ Fits(f, s.loaded, s.touched)
                                /\ s.value = Forms!Submitted(f)
      BY <1>1
    <3>2. TitleFits(f)
      BY <2>1, <3>1 DEF Fits
    <3>3. s.value.title = f.title /\ s.value.definition = {Sent(f)}
          /\ (f.remote => s.value.remote # {})
      <4> DEFINE v == Forms!Submitted(f)
      <4>1. /\ v.title = f.title /\ v.definition = {Sent(f)}
            /\ v.remote = IF ~f.remote THEN {}
                           ELSE {[retention |-> f.retention,
                                  duration |-> IF f.retention = "keep_for_duration"
                                               THEN f.duration ELSE "absent",
                                  filter |-> Filters(f), rights |-> IF f.rights THEN "yes" ELSE "no"]}
        BY SubmittedFields
      <4> HIDE DEF v
      <4> QED  BY <3>1, <4>1 DEF v
    <3>4. ~f.remote /\ f.kind # "standard"
      BY <2>1, <3>2, <3>3 DEF TitleFits
    <3>5. x = SourceOf(f)
      BY <2>1, <3>1, <3>3, SentSteps DEF Forms!EditorAccepts
    <3> QED  BY <3>4, <3>5 DEF SourceOf, Forms!SourceStep
  <2> QED  BY <2>1 DEF Forms!DefaultTitleRenders
<1> QED  BY <1>3, <1>4, <1>5, <1>6, <1>7 DEF Forms!FormIsStored

\* The invariant gives the variables their types.
LEMMA FormTypes == FormInv => Forms!FormTypeOK
<1> SUFFICES ASSUME FormInv PROVE Forms!FormTypeOK
  OBVIOUS
<1> DEFINE Lists == UNION {[1..n -> Forms!Destination] : n \in 0..3}
<1>1. ASSUME NEW ds \in Seq(Forms!Destination), Len(ds) <= 3 PROVE ds \in Lists
  <2>1. Len(ds) \in Nat /\ ds \in [1..Len(ds) -> Forms!Destination]
    BY LenProperties
  <2>2. Len(ds) \in 0..3
    BY <1>1, <2>1
  <2> QED  BY <2>1, <2>2
<1> HIDE DEF Lists
<1>2. form \in FormKind
  BY DEF FormInv
<1>3. form.destinations \in Lists
  BY <1>1, <1>2 DEF FormKind
<1>4. form \in [folder : BOOLEAN, kind : Forms!FolderKinds, remote : BOOLEAN,
                retention : Forms!Retentions, duration : Forms!Durations, rights : BOOLEAN,
                filtering : BOOLEAN, filter : BOOLEAN, transforming : BOOLEAN, size : Forms!Sizes,
                even : BOOLEAN, fit : {"crop", "stretch"}, scheduling : BOOLEAN, schedule : BOOLEAN,
                title : Forms!Titles, destinations : Lists]
  BY <1>2, <1>3 DEF FormKind
<1>5. DOMAIN form = FieldNames
  BY <1>2 DEF FormKind, FieldNames
<1>6. loaded \subseteq {Forms!Draft(o, id) : o \in Offers, id \in Forms!Presets}
  BY DEF FormInv, Fits, DraftSet
<1> QED  BY <1>4, <1>5, <1>6 DEF FormInv, Forms!FormTypeOK, Lists

-----------------------------------------------------------------------------
(* The components together.                                                *)

\* A step of the machine is a step of one component and leaves the variables
\* of the others as they are.
LEMMA MediaApart ==
  ASSUME [LocalNext]_localVars
  PROVE  /\ [Transforms!TransformNext]_Transforms!transformVars
         /\ [Captions!TranscriptionNext]_Captions!transcriptionVars
         /\ [Watching!WatchNext]_Watching!watchVars
         /\ [Lifetime!LifetimeNext]_Lifetime!lifetimeVars
         /\ [Obs!ObsNext]_Obs!obsVars
<1> USE DEF transformVars, transcriptionVars, watchVars, lifetimeVars, obsVars, mediaVars,
            Transforms!transformVars, Captions!transcriptionVars, Watching!watchVars,
            Lifetime!lifetimeVars, Obs!obsVars, Obs!scanVars
<1>1. CASE Media
  BY <1>1 DEF Media
<1>2. CASE UNCHANGED mediaVars
  BY <1>2
<1>3. Storage \/ Other \/ UNCHANGED localVars => UNCHANGED mediaVars
  BY DEF Storage, Other, localVars
<1> QED
  BY <1>1, <1>2, <1>3 DEF LocalNext

\* The same of the Whisper models and the Twitch clips.
LEMMA OtherApart ==
  ASSUME [LocalNext]_localVars
  PROVE  /\ UNCHANGED component
         /\ [Models!ModelNext]_Models!modelVars
         /\ [ClipSource!ClipNext]_ClipSource!clipVars
<1> USE DEF modelVars, clipVars, otherVars, Models!modelVars, ClipSource!clipVars
<1>1. CASE Other
  BY <1>1 DEF Other
<1>2. CASE UNCHANGED <<component, otherVars>>
  BY <1>2
<1>3. Media \/ Storage \/ UNCHANGED localVars => UNCHANGED <<component, otherVars>>
  BY DEF Media, Storage, localVars
<1> QED
  BY <1>1, <1>2, <1>3 DEF LocalNext

\* All components begin as they do alone.
LEMMA LocalBegins ==
  ASSUME LocalInit
  PROVE  /\ Transforms!TransformInit /\ Captions!TranscriptionInit /\ Watching!WatchInit
         /\ Lifetime!LifetimeInit /\ Obs!ObsInit
         /\ Models!ModelInit /\ ClipSource!ClipInit
BY DEF LocalInit

\* The components that make media, and those that look after them.
MediaInv ==
  TransformInv /\ TranscriptionInv /\ ImportInv /\ WatchInv /\ LifetimeInv /\ ObsInv
LEMMA MediaInvariant == LocalSpec => []MediaInv
<1>1. LocalInit => MediaInv
  BY LocalBegins, TransformBegins, TranscriptionBegins, ImportBegins, WatchBegins,
     LifetimeBegins, ObsBegins
  DEF MediaInv
<1>2. MediaInv /\ [LocalNext]_localVars => MediaInv'
  BY MediaApart, TransformStep, TranscriptionStep, ImportStep, WatchTypeStep, LifetimeStep, ObsStep
  DEF MediaInv
<1> QED
  BY <1>1, <1>2, PTL DEF LocalSpec

\* The Whisper models and the Twitch clips.
OtherInv == component \in Components /\ ModelInv /\ ClipInv /\ ClipSource!ClipTypeOK
LEMMA OtherInvariant == LocalSpec => []OtherInv
<1>1. LocalInit => OtherInv
  BY LocalBegins, ModelBegins, ClipBegins, ClipTypes DEF LocalInit, OtherInv
<1>2. OtherInv /\ [LocalNext]_localVars => OtherInv'
  BY OtherApart, ModelStep, ClipStep, ClipTypes DEF OtherInv
<1> QED
  BY <1>1, <1>2, PTL DEF LocalSpec

\* The same of what users define.
LEMMA DefinitionsApart ==
  ASSUME [LocalNext]_localVars
  PROVE  /\ UNCHANGED component
         /\ [Workflows!WorkflowNext]_Workflows!workflowVars
         /\ [Forms!FormNext]_Forms!formVars
         /\ [Recipes!PlanNext]_Recipes!planVars
<1> USE DEF workflowVars, formVars, recipeVars, otherVars, Workflows!workflowVars,
            Forms!formVars, Recipes!planVars
<1>1. CASE Other
  BY <1>1 DEF Other
<1>2. CASE UNCHANGED <<component, otherVars>>
  BY <1>2
<1>3. Media \/ Storage \/ UNCHANGED localVars => UNCHANGED <<component, otherVars>>
  BY DEF Media, Storage, localVars
<1> QED
  BY <1>1, <1>2, <1>3 DEF LocalNext

\* Only the component that goes on begins with any definition.
DefinitionsInv == (component = "workflow" => WorkflowInv) /\ FormInv /\ RecipeInv
LEMMA DefinitionsInvariant == LocalSpec => []DefinitionsInv
<1>1. LocalInit => DefinitionsInv
  BY WorkflowBegins, FormBegins, RecipeBegins DEF LocalInit, DefinitionsInv
<1>2. DefinitionsInv /\ [LocalNext]_localVars => DefinitionsInv'
  BY DefinitionsApart, WorkflowStep, FormStep, RecipeStep DEF DefinitionsInv
<1> QED
  BY <1>1, <1>2, PTL DEF LocalSpec

-----------------------------------------------------------------------------
(* What holds of the machine.                                              *)

\* What is said to be on the disk is there, whatever calls, claims, crashes and
\* deletions cross: the output of a succeeded derivative (TransformService), the
\* file of an installed model (WhisperModelManager), the build that current.json
\* names (LocalWhisperCppInstallationStore).
THEOREM FilesStayThere == LocalSpec => []FilesAreThere
<1>1. MediaInv /\ StorageInv /\ OtherInv => FilesAreThere
  BY InstallHolds DEF MediaInv, OtherInv, StorageInv, TransformInv, ModelInv, FilesAreThere
<1> QED
  BY <1>1, MediaInvariant, StorageInvariant, OtherInvariant, PTL

\* A transform job that succeeds while nobody else writes has left a finished
\* derivative with its file for the publish jobs it releases
\* (media/transform-runner.ts); a transcription that succeeded has created every
\* publish job of the execution it was made for, with captions rendered from cues
\* (resumeAfterTranscription).
THEOREM SuccessStaysEarned == LocalSpec => SuccessIsEarned
<1> DEFINE Left == transform.status = "running" /\ transform'.status = "succeeded" /\ works' = {}
                     => derivative' = "succeeded" /\ "final" \in files'
<1>1. MediaInv /\ [LocalNext]_localVars => [Left]_Transforms!transformVars
  BY MediaApart, ReleasedStep DEF MediaInv
<1>2. MediaInv => Captions!SuccessResumed
  BY DEF MediaInv, TranscriptionInv
<1> QED
  BY <1>1, <1>2, MediaInvariant, PTL
  DEF LocalSpec, SuccessIsEarned, Transforms!ReleasedWithOutput

\* Cues of an editor are replaced only by an editor who had them on the screen
\* (replaceUserEditedCues, replaceGenerated); a set or delete of a secret keeps
\* the others that were there when it read the vault (LocalSecretStore).
THEOREM NothingIsOverwritten == LocalSpec => NothingOverwritten
<1> DEFINE Edited == transcript.cues \in Editors /\ transcript'.cues # transcript.cues
              => \E e \in Editors : opened[e] = transcript.revision /\ transcript'.cues = e
           Stored == \A s \in VaultCalls :
              Vault!In(s, "write") /\ calls'[s] = Vault!NoCall /\ vault' # vault
                  /\ ~calls[s].stale /\ ~recovering
                => \A r \in References \ {calls[s].ref} : vault'.secrets[r] = vault.secrets[r]
<1>1. MediaInv /\ [LocalNext]_localVars => [Edited]_Captions!transcriptionVars
  BY MediaApart, EditsSurviveStep DEF MediaInv
<1>2. StorageInv /\ [LocalNext]_localVars => [Stored]_Vault!vaultVars
  BY StorageApart, SecretsKeptStep DEF StorageInv
<1> QED
  BY <1>1, <1>2, MediaInvariant, StorageInvariant, PTL
  DEF LocalSpec, NothingOverwritten, Captions!EditsSurvive, Vault!OtherSecretsKept

\* Polls of overlapping windows miss no clip that is listed in time, whatever
\* calls fail, as long as every window that was polled had no more clips than a
\* page takes, however many there are in all (TwitchSourceAdapter); one content in
\* a watched folder has one publish job per destination, unless an import by hand
\* crossed its scan (WatchedFolderRunner).
THEOREM IntakeStaysExact == LocalSpec => []IntakeIsExact
<1>1. MediaInv /\ OtherInv => IntakeIsExact
  BY ImportHolds DEF MediaInv, OtherInv, ClipInv, IntakeIsExact
<1> QED
  BY <1>1, MediaInvariant, OtherInvariant, PTL

\* A definition of whatever steps and edges is stored only if it is a route: what
\* is in it is reached from its source, and no edge leads back
\* (validateWorkflowDefinition).  Whatever a user edits, in whatever order, the
\* service accepts what the editor sends, but for a variable or a duration that
\* the user mistyped, and every row reads back as it was answered, also one that
\* a script sent or a migration wrote (workflow-editor.tsx, WorkflowService,
\* SqliteWorkflowRepository).
THEOREM DefinitionsStay == LocalSpec => []DefinitionsHold
<1>1. DefinitionsInv => DefinitionsHold
  BY WorkflowHolds, FormHolds DEF DefinitionsInv, DefinitionsHold
<1> QED
  BY <1>1, DefinitionsInvariant, PTL

\* A recipe of whatever steps compiles to a graph that FFmpeg takes, with the steps
\* in their order; only a changed sound that is not asked for is left unconnected
\* (compileTransformCommand).  What FFmpeg makes of it passes the handler's own
\* examination exactly when the trims leave something of the media, has even sides
\* when the last word is a fit's, and is no longer than the length from which
\* progress is counted (TransformJobHandler).
THEOREM RecipesStay == LocalSpec => []RecipesRender
<1>1. DefinitionsInv => RecipesRender
  BY RecipeRenders DEF DefinitionsInv, RecipesRender
<1> QED
  BY <1>1, DefinitionsInvariant, PTL

\* When close() has ended no handler, child or poll is left that would use the
\* database, whatever scans of the watched folders begin and end meanwhile, but
\* one of these may be left (apps/server/src/index.ts); and after stop() there is
\* no timer and no client of OBS (ObsWebSocketFolderScanTrigger).  These are the
\* parts of CloseIsClean that are safety.
THEOREM ClosedStaysQuiet == LocalSpec => [](ClosedIsQuiet /\ Obs!StoppedIsQuiet)
<1>1. MediaInv => ClosedIsQuiet /\ Obs!StoppedIsQuiet
  BY LifetimeHolds, ObsQuiet DEF MediaInv
<1> QED
  BY <1>1, MediaInvariant, PTL

\* Every variable of every component keeps its type: nothing leaves the range
\* that its schema, its enumeration or its bound gives it.
THEOREM LocalTyped == LocalSpec => []LocalTypeOK
<1>1. MediaInv => /\ Transforms!TransformTypeOK /\ Watching!WatchTypeOK
                  /\ Captions!TranscriptionTypeOK /\ Lifetime!LifetimeTypeOK
                  /\ Obs!ObsTypeOK
  BY WatchHolds DEF MediaInv, TransformInv, TranscriptionInv, LifetimeInv, ObsInv
<1>2. OtherInv => component \in Components /\ Models!ModelTypeOK /\ ClipSource!ClipTypeOK
  BY DEF OtherInv, ModelInv
<1>3. DefinitionsInv => /\ component = "workflow" => Workflows!WorkflowTypeOK
                        /\ Forms!FormTypeOK /\ Recipes!PlanTypeOK
  BY FormTypes, RecipeHolds DEF DefinitionsInv, WorkflowInv
<1>4. MediaInv /\ StorageInv /\ OtherInv /\ DefinitionsInv => LocalTypeOK
  BY <1>1, <1>2, <1>3, StorageTypes DEF LocalTypeOK
<1> QED
  BY <1>4, MediaInvariant, StorageInvariant, OtherInvariant, DefinitionsInvariant, PTL
=============================================================================
