------------------------- MODULE MCSourceExecution -------------------------
(***************************************************************************)
(* Small instances of SourceExecution for TLC.                             *)
(***************************************************************************)
EXTENDS SourceExecution

CONSTANTS a, b, d1, d2, original

\* One execution with both destinations.
FanOutOf == [d \in Destinations |-> a]
\* Two executions with one destination each.
OneEach == [d \in Destinations |-> IF d = d1 THEN a ELSE b]

DeleteAll == [e \in Executions |-> "delete_after_success"]
DeleteAndKeepLater ==
  [e \in Executions |-> IF e = a THEN "delete_after_success" ELSE "keep_for_duration"]
DeleteAndKeep ==
  [e \in Executions |-> IF e = a THEN "delete_after_success" ELSE "keep_forever"]

NoHints == [e \in Executions |-> {}]
\* Workflow b knows the local original of the item.
OriginalForB == [e \in Executions |-> IF e = b THEN {original} ELSE {}]
=============================================================================
