----------------------------- MODULE MCJobQueue -----------------------------
(***************************************************************************)
(* Small instances of JobQueue for TLC.                                    *)
(***************************************************************************)
EXTENDS JobQueue, TLC

CONSTANTS j1, j2, j3, youtube, channel

\* Two unscoped jobs, the second depends on the first (a publish job that
\* waits for its transform).
ChainPlatformOf == [j \in Jobs |-> None]
ChainAccountOf == [j \in Jobs |-> None]
ChainPrerequisiteOf == [j \in Jobs |-> IF j = j2 THEN j1 ELSE None]

\* No dependencies.
NoPrerequisite == [j \in Jobs |-> None]

\* j1 and j2 publish to the same account, j3 is local work.
PublishPlatformOf == [j \in Jobs |-> IF j \in {j1, j2} THEN youtube ELSE None]
PublishAccountOf == [j \in Jobs |-> IF j \in {j1, j2} THEN channel ELSE None]

\* Every job publishes to the same account.
OnePlatformOf == [j \in Jobs |-> youtube]
OneAccountOf == [j \in Jobs |-> channel]
\* Such jobs are interchangeable, and so are the runners.
Symmetry == Permutations(Jobs) \cup Permutations(Runners)

Transient == [retryable |-> TRUE, auth |-> FALSE, retryAfter |-> 0]
Permanent == [retryable |-> FALSE, auth |-> FALSE, retryAfter |-> 0]
RateLimited == [retryable |-> TRUE, auth |-> FALSE, retryAfter |-> 2]
Unauthorized == [retryable |-> TRUE, auth |-> TRUE, retryAfter |-> 0]

LocalFailures == {Transient, Permanent}
\* One failure that cools the scope down and counts against the account.
ScopedFailures == {[retryable |-> TRUE, auth |-> TRUE, retryAfter |-> 1]}
PlatformFailures == {RateLimited, Unauthorized}
=============================================================================
