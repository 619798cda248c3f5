----------------------------- MODULE Publication ----------------------------
(***************************************************************************)
(* What a publish job promises: its video is posted at most once, and the  *)
(* job succeeds only when it was.  It may fail, or be cancelled, with the  *)
(* video posted: the answer was lost.                                      *)
(***************************************************************************)
EXTENDS Naturals

VARIABLES posts, outcome

Init == posts = 0 /\ outcome = "open"

Post == posts = 0 /\ posts' = 1 /\ UNCHANGED outcome
Succeed == outcome = "open" /\ posts = 1 /\ outcome' = "succeeded" /\ UNCHANGED posts
GiveUp ==
  /\ outcome = "open" /\ outcome' \in {"failed", "cancelled"} /\ UNCHANGED posts
Reopen == outcome = "failed" /\ outcome' = "open" /\ UNCHANGED posts

Next == Post \/ Succeed \/ GiveUp \/ Reopen
Spec == Init /\ [][Next]_<<posts, outcome>>
=============================================================================
