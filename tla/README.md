# OpenRepurpose: a TLA+ model of the program

OpenRepurpose watches sources (YouTube, Twitch and Kick channels, folders),
resolves the media of new items, transforms or transcribes them, and publishes
them to other platforms. It is local-first: one Node.js server process with an
SQLite file, a vault file of secrets, media files, a web interface served by
the same process, and CLI and MCP processes that open the same files. All work
that may fail or take time is a row of the `jobs` table, and everything that must
survive a crash is a row or a file somewhere.

This directory holds specifications of its parts, TLC configurations that check
them on small instances, and TLAPS proofs of the most important results for
every instance. Paths below are relative to the repository root; `core` is
`packages/core/src/index.ts` and `db` is `packages/db/src/index.ts`.

## 1. Inventory

How the parts run: JavaScript is single-threaded, so inside one process another
callback can run only where the code awaits. SQLite calls are synchronous and
every `BEGIN IMMEDIATE` block is atomic against other processes. A second
process (CLI, MCP over stdio, a second server on the same data directory) may
commit between any two transactions of the first. A process may die anywhere;
memory is lost, committed rows and files stay.

| Component | State | Operations | Talks to | What is hard |
| --- | --- | --- | --- | --- |
| Job store (db 3418-4001) | `jobs`, `job_attempts`, `job_queue_control`, account and platform controls | enqueue, claimNext, heartbeat, complete, fail, cancelRunning, requestCancellation, retry, recoverExpiredLeases, mode and account control | every other part enqueues jobs | leases that expire under a live worker, two servers, cancellation racing settlement, dependants of failed jobs, limits over all processes |
| Job runner and commands (core 424-768) | the set of executions in flight, started / stopping, filling | start, poll, execute with heartbeat, drain, stop; JobService | job store, job handlers, `onJobSettled` | stalls, crash between claim and settle, snapshot of the claim used at settlement, drain across processes |
| Source workflow coordinator (core 2260-2475, db 2332-2632, migrations 0011 and 0013) | executions, destinations, item lifecycle | observe, run, cleanupExecution, recover, retryFailedDestinations; SQLite triggers copy job results | job queue, media resolution, workflow service | crash between any two statements, several workflows on one item, retry without publishing twice |
| Media resolution and cleanup (core 1641-1894, db 2042-2256, `packages/media/src/index.ts`) | resolution checkpoints, artifacts, managed files | resolve, markReady, markFailed, cleanupArtifact | resolvers, media library, coordinator | file and row change separately; a user's original must never be deleted |
| Source polling (core 1063-1343, db 1723-1985) | connections (status, cadence, cooldown, cursor), items | create, pause, resume, requestPoll, poll pass, recordPollSuccess / Failure | source adapters, jobs, schedules | rows read before an await and written after it, cursor against items |
| Schedules (`core/src/schedule.ts`, db 1590-1702) | schedules, occurrences | materialize, dispatch, markDispatched / Failed | source polling | crash between dispatch and mark, missed ticks |
| Webhooks (`core/src/webhooks.ts`, `apps/server/src/webhooks.ts`, db 3179-3338) | endpoints, signing keys, deliveries, attempts | reconcile, publish, recover, deliver, record | job queue, secrets | delivery, job and link are separate commits; answers arrive late; keys and rows change separately |
| API tokens and idempotency (`core/src/api-access.ts`, db 158-288, `api-v1.ts`) | tokens, idempotency records | begin, complete, release around every mutating request | all services | concurrent requests with one key, crash or failed write in between |
| Transform derivatives (core 2560-2690, `transform.ts`, `transform-runner.ts`, db 633-845) | derivative rows, output directories | prepare, execute, cache hit, recovery at start | job queue (prerequisite jobs), FFmpeg | overlapping executions of one row, cancellation against completion, output that is not what the recipe says |
| Transcription (`transcription.ts`, db 910-1095) | transcripts, cues, revisions | reserve, run, edit, resume workflow | job queue, workflow service, whisper.cpp | edits during inference, continuation after a crash |
| Whisper models and builds (`model-manager.ts`, `whisper-cpp.ts`) | model files and manifests, `current.json` | install, verify, delete, discover | transcription | concurrent calls, failure between file and manifest |
| Workflows, plans, templates (core 1936-2095, 2485-3200, `workflow-presets.ts`) | workflow rows | validate, build plan, draft a preset, execute | jobs, transforms, transcription | two validations that must agree, what a plan carries out |
| Watched folders, OBS (`packages/media/src/index.ts`, `obs-websocket.ts`) | cursors, media rows; connection, timers | scan, settle, import, dispatch; connect, reconnect, hint | media import, workflows | a file that still grows, crash before the cursor, callbacks of an old connection |
| Destination adapters (`integrations/*`) | `destination_job_records`, upload URLs | publish in resumable steps, poll status | job queue, remote services | crash between the remote effect and the checkpoint, lost answers |
| Source adapters (`integrations/*`) | cursors | fetch pages | source polling | watermarks across pages, listings without order |
| Accounts and OAuth (`integrations/*`, db 2713-3060) | one-time requests, verifiers, accounts, tokens, Meta targets | begin, complete, refresh, validate, remove, discover targets | secrets, providers | row and secret change separately, late answers, outages taken for refusals |
| Local secrets (`packages/local-secrets`) | vault file, key file, copy of an old vault | get, set, delete, initialize, recover | accounts, webhooks, adapters | read-modify-write by two callers, crash between files |
| Backup, restore, migrations (`backup.ts`, db 302-450) | snapshot files, database file and log, ledger | backup, restore, migrate | the database file | stop during restore, two processes migrating, log not in the copy |
| Server start and shutdown (`apps/server/src/index.ts`) | children, runners, listener | start, close | everything | order of the stops, work claimed meanwhile |
| Web interface (`apps/web`) | what a page holds of rows it read | edit a transcript, publish, watch jobs, edit a workflow | HTTP API | answers in any order, edits lost |
| HTTP API, MCP, CLI, SDK | none that outlives a request | routing, validation, presentation | all services | - |

For each component the properties that make it correct are:

- **Job queue**: a job runs in at most one place; every attempt is recorded and
  closed once; only the execution of an attempt settles it; attempts stay
  within their budget; limits hold over all processes; a cancellation is
  honoured; a dependant starts only after its prerequisite succeeded; every job
  settles in the end.
- **Source executions**: a destination row shows the status of its job; success
  is reported exactly when everything was published; media stays while it is
  needed and goes when the policy says so; originals are never deleted; the item
  is completed by the last execution; a crash at any point loses nothing.
- **Polling and schedules**: no item is lost by advancing the cursor; a connection
  is taken out of service only after enough failures; a request or an instant
  of a schedule leads to a poll; published items arrive.
- **Publishing**: a video is posted at most once, by a job that then says so; the
  checkpoint never claims more than the service has; the job settles.
- **Accounts**: a callback is used once, a connected account has its token, an
  outage does not disconnect anybody.
- **Webhooks**: every persisted event gets its delivery job; success means the
  endpoint accepted it; every destination that is sent to has a key.
- **Idempotency**: one key leads to one effect and one answer.
- **Derivatives, transcripts, models**: what a row names is a complete file; work
  that was begun settles; edits survive; a continuation runs once.
- **Intake**: recordings and clips are taken in once and all of them.
- **Files**: vault and database stay recoverable through any crash.
- **Definitions**: what the user composes is accepted, stored, read back and
  carried out as it was shown.
- **Shutdown**: it ends, and nothing uses the database afterwards.

## 2. Modules

| Module | What it holds |
| --- | --- |
| `JobQueue` | The job store, the runners of several processes and the commands |
| `JobLifecycle` | What the queue promises about one job; `JobQueue` has the refinement mapping |
| `JobQueueProofs` | Proofs about `JobQueue`: leases and history; scopes, prerequisites, refinement |
| `MCJobQueue` | Small instances of `JobQueue` |
| `SourceExecution`, `MCSourceExecution` | One source item with its executions, destinations, media and jobs |
| `SourceExecutionProofs` | Proofs about `SourceExecution` |
| `SourcePolling` | One source connection, its items, and the runners that poll it |
| `Scheduler`, `SchedulerProofs` | Schedules composed with `SourcePolling`; proofs about both |
| `DestinationPublish` | What the four publish handlers share: job, checkpoint, remote service |
| `YouTubePublish`, `TikTokPublish`, `InstagramPublish`, `FacebookPublish` | The four handlers |
| `Publishing`, `Publication` | The handlers side by side; what a publish job promises (abstract) |
| `PublishingProofs` | Proofs about the four handlers |
| `AccountConnection` | OAuth requests, accounts and tokens; how the five services differ |
| `MetaTargets` | Pages and Instagram accounts a Meta connection may publish to |
| `WebhookDelivery` | Allowlist, outbox, delivery jobs |
| `ConnectionsProofs` | Proofs about accounts, Meta targets and webhooks, as `MCServices` composes them |
| `ApiRequests` | Tokens and idempotency records of `/api/v1` |
| `TranscriptWorkspace`, `JobsPanel` | The media page and the jobs page of the web interface |
| `RequestsProofs` | Proofs about API requests and both pages, and the types of all of `MCServices` |
| `TransformCache`, `TransformPlan` | The life of a derivative; the compilation of a recipe to FFmpeg |
| `Transcription` | A transcript, its job, its editors and the executions that wait for it |
| `WatchedFolder`, `ObsTrigger`, `ClipPolling` | Intake from a folder, its trigger, and Twitch clips |
| `ModelManager`, `WhisperInstallation` | Model files; whisper.cpp builds |
| `WorkflowInput` | Validation of a workflow; requests to the service and the rows they become |
| `WorkflowPlan`, `WorkflowForm` | The plan and what each destination gets; the editor |
| `SecretVault` | Vault, key and migration of the secret store |
| `SchemaUpgrade`, `DatabaseRestore` | Migrations with their backup; portable backup and restore |
| `ServerLifetime` | Children, runners and the close of the server |
| `StorageProofs` | Proofs about the components of `MCLocal` that keep files: vault, upgrades, restores, whisper.cpp builds |
| `LocalProofs` | Proofs about the other components of `MCLocal`, and about all of them together |
| `MCServices`, `MCLocal` | Small instances of all modules from `DestinationPublish` on |

Composition: `Scheduler` extends `SourcePolling`; the publish modules extend
`DestinationPublish` and `Publishing` joins them; `WorkflowForm` and `WorkflowPlan`
rest on `WorkflowInput`. Every other module describes jobs only as far as
`JobLifecycle` promises. `MCServices` and `MCLocal` put components side by side that
share no state: the variable `component` is chosen in the initial state and never
changes, the one it names takes the steps, the others stay as they begin. So each
behaviour is one of that component, the state count is the sum and not the
product, and one conjunct of a property speaks of one component.

### JobQueue

One variable per table: `jobs`, `attempts`, `mode` (`job_queue_control`),
`accounts` and `platformCooldown`; and per process: `runner` (off, up, stopping,
gone), `filling` (a claiming pass is under way), `executions`
(handlers in flight with the job snapshot of their claim) and `drains`.

Every store method is one transaction and therefore one action. `Poll` recovers
expired leases and begins a claiming pass, `Claim` is one `claimNext` including
its dependency cascade, `FillEnds` the `claimNext` that finds nothing. `Heartbeat`,
`HandlerReturns` and the settlement actions `Complete`, `Fail`, `CancelRunning`
are the parts of `JobRunner.execute`; between a handler's return and its
settlement no other callback of that process runs (`Busy`), but other processes
do. Deadlines are kept as the time left to them, and `Tick` moves all of them;
one tick is a heartbeat interval, so a lease is `LeaseTicks` ticks. With
`TimelyHeartbeats` a tick waits until every live runner has renewed the leases
that would run out; without it an event loop may stall for longer than a lease.

`JobLifecycle` describes one job as its users see it: submitted, started at most
as often as its budget allows, finished once, reopened only by a manual retry
of a failure. `Lifecycle` in `JobQueue` maps the tables to it.

### SourceExecution

One item of a source; the executions of the workflows that match it; their
destinations, resolution checkpoints, artifacts and files; and the jobs that
work on them. Jobs move the way `JobLifecycle` promises (claim, settle, lost
lease, retry, cancellation); a handler in flight holds its job. A handler is a
sequence of phases in `handler`: every statement or transaction is an action, so
a `Crash` may fall between any two. The phases of `Awaiting` are the awaits;
another handler takes its turn only then (`Turn`). `JobUpdate` is an UPDATE of a
job row with the triggers of migrations 0011 and 0013 that it fires:
destination, then execution, artifact and item. The triggers of 0011 that only
reject updates (success is terminal, cleanup requires success) are not in the
actions; the properties show that no step would meet them. `RowsAccepted` covers
the two constraints a run can meet.

### SourcePolling and Scheduler

One connection (`connection`, the row), the items it has stored (`observed`) and
handed over to a job (`handedOff`), and per process its state (`server`) and the
`pollConnection` call in flight (`poll`) with the row it read. The await of the
adapter is between `StartPoll` or `NextPage` and `Page`; what follows a page is
synchronous (`Synchronous`) but commits statement by statement: `Store`, `Handoff`
and at the end `PollSucceeds` or `PageLimitReached`. `PollFails` is an adapter that
throws. Items are numbered as the channel publishes them, and a poll reads pages
from the newest down, as YouTube uploads and Twitch archives are listed.
`Watermarked` tells the two adapters apart: YouTube skips what its watermark has
passed, Twitch does not. Dates are the ticks left to them.

`Scheduler` EXTENDS it with the schedules of the connection, their open occurrences
and the `runOnce` of each server (`turn`): `Materialize` for each due schedule, then
`Request` and `MarkDispatched` for each open occurrence, each a transaction, with
a `Fault` possible between any two. Steps of one server do not interleave
(`Polling` needs an idle turn, `StartTurn` a poll that is not in its synchronous part);
other processes (`Elsewhere`, `Create`) commit at any time.

### Publishing

A publish job has a row in `destination_job_records` (the checkpoint), perhaps an
upload URL in the secret store, and a service. A request is two steps: the
service acts, or not, and an answer is chosen; then the handler reads the answer
and runs to its next await, its saves included. `Crash` may fall between, so that
the service has acted and nobody knows. `DestinationPublish` holds the job and the
service; each handler is one module with an action for each state it is in
(session or container, chunks, finish, status). `Publication` is the promise:
posted at most once, succeeded only if posted. `Publishing` maps to it.

### Accounts

`AccountConnection` follows the operations of an OAuth service from await to
await: begin, callback (consume, verifier, exchange, account row, token,
cleanup), refresh, validate, creator information, remove, replacement of the
client, and a crash of the process. Its first part says for each of the five
integrations what it makes of each answer, as the tables of their error handling.
`MetaTargets` holds the targets discovered through a Meta account and the switch the
operator has. A discovery stores a row, then asks for its token to be written and
waits: the secret store does one write after the other (`writes`), the write may
fail, Meta may have sent no token, and the server may die between the two; another
discovery takes its turn only at such an await (`Idle`).

### Webhooks and API requests

`WebhookDelivery`: a start reconciles the configured allowlist with rows and keys,
then recovers deliveries without a job; `publish` writes a delivery, its job and
the link for one destination after the other, each its own commit; the handler
reads the key, sends, and records the answer, possibly after its lease is over; such
a late answer settles whatever attempt is running by then, since all executions are
of one worker and the store compares the worker only (`SettledJob`).
`ApiRequests`: a request is authorized, takes its key, runs, completes or releases
the key and answers, with concurrent requests of the same key, writes that fail
(of `complete` and of `release`) and a crash; its two kinds of keys are those whose
work has an idempotency key of its own (`PublishKeys`) and those whose work would be
done again (`CreateKeys`). The key of a publish job is that of the request and the
platform, so a body that names another platform, or an import of another file, is
other work (`WorkOf`).

### Pages

`TranscriptWorkspace` and `JobsPanel` keep what the React components keep in state
and in refs, and the requests under way. What is done with an answer is what the
closure that sent the request captured. Requests may be answered in any order.

### Derivatives, transcripts and models

`TransformCache`: the row, the job, the directory with partial, final and sidecar
file, and the executions of the handler (`works`), more than one after a lost
lease. `TransformPlan`: `Compiled` is the argument list as a filter graph,
`Passed` the filters a label went through (traced back from chain to chain), `Rendered`
what FFmpeg makes of them, `Accepted` the examination of the handler.
`Transcription`: the reserved transcript with its revision, the job with the one
continuation it holds, inference, editors, captions. `ModelManager` and
`WhisperInstallation` take each stretch between awaits on files as an action.

### Intake

`WatchedFolder` scans file by file (stat, inspect, probe, dispatch, cursor), beside
manual imports, writes to the folder and crashes. `ObsTrigger` has one client for
each connection; callbacks of clients that were given up come late.
`ClipPolling` lists the first page of a window of clips, overlapping with the window
before; when there are more, the page is any of them.

### Definitions

`WorkflowInput` is the validation of steps and edges, that of a request around
them, and the rows the service writes and reads; `WorkflowPlan` what is executed of
a stored definition; `WorkflowForm` the editor: fields touched, a preset drafted,
the request sent, the answer.

### Files and processes

`SecretVault` takes every file-system call of the secret store as an action;
`exclusive` serialises writers of the server, CLI calls do not know of it.
`SchemaUpgrade` has two processes that migrate one database file with a log.
`DatabaseRestore` has the database file and its log at the path, displaced or gone,
a server that keeps what it opened, and the two commands; the copy of the file takes
time, and a server that writes its log into the file meanwhile tears it. `ServerLifetime`
has the children with their signals, the job runner, the polls, the scans of watched
folders, which nobody waits for, and the order of `close`.

## 3. Runs

| Run | Instance | What it shows |
| --- | --- | --- |
| `job_queue_leases` | two jobs, the second depends on the first; two servers; CLI cancellations; a crash | types, attempt history, lease ownership, prerequisites, and refinement of `JobLifecycle` (budget, final outcomes, one reopening by manual retry) |
| `job_queue_scopes` | three jobs of one account with two slots, two servers, rate limits and authentication failures | handlers in flight stay within the limits over all processes; the circuit agrees with the failure count |
| `job_queue_liveness` | two jobs, fair scheduling, restarts, commands from the server itself | jobs settle, cancellations end runs, drain returns, and only when nothing is in flight |
| `source_fan_out` | one execution, two destinations, a crash, cancellations, retries, fair scheduling | destinations mirror jobs, success means published, media stays available; executions end, files go |
| `source_shared_item` | two executions with one destination each, one downloads and one uses an original, a crash | media stays available, cleanup is due, the item is completed last |
| `polling_and_schedules` | one connection of three items, pages of one, two pages a poll; one server, one schedule of either kind, operators, two faults | nothing published is lost, pauses are earned; requests and instants of the schedule lead to polls, items arrive |
| `services` | seven components of `MCServices` | see below |
| `local_components` | fourteen components of `MCLocal` | see below |

What `services` checks, by property:

| Property | Of | It says |
| --- | --- | --- |
| `ServicesTypeOK` | all | the variables have their types |
| `CheckpointIsTrue` | publishing | a checkpoint never claims more than the service has, and one that says published names a posted video |
| `ImplementsPublication` | publishing | every step of the handlers is one of `Publication`, or none: posted at most once, succeeded only if posted |
| `NoSecondUpload` | publishing | no session or container is created after the service has the file |
| `PublishJobSettles` | publishing | a job settles, through crashes and lost answers |
| `ConnectionsHold` | accounts, targets | one callback for each request; live requests have their verifier; connected accounts their token; outages of a token endpoint disconnect nobody; publishable targets have their token unless none came or none was written; what was switched off stays off |
| `WebhookTablesHold` | webhooks | success of a delivery or its job was accepted, late answers included; keys match the allowlist |
| `RequestsHold` | api, page, jobs | work is done once for each key and answered with its own; a save stores what was edited; edits are guarded; the details shown are those selected |
| `NothingForgotten` | webhooks, page, jobs | a persisted delivery gets its job; edits vanish only after a warning or when stored; a transform that ended comes to be shown so |

What `local_components` checks, by property:

| Property | Of | It says |
| --- | --- | --- |
| `LocalTypeOK` | all | the variables have their types |
| `FilesAreThere` | transform, models, whisper | what a row or manifest names is on the disk and whole |
| `SuccessIsEarned` | transform, transcription | a transform job that succeeds leaves a finished derivative of a file that is there; a transcription that succeeded has resumed its workflow |
| `NothingOverwritten` | transcription, vault | cues and secrets are replaced only by somebody who has seen them |
| `WorkGoesOn` | transform, watch, transcription, obs | derivatives settle, recordings are dispatched, continuations resume, the trigger comes back and its hints are followed by scans |
| `IntakeIsExact` | watch, clips | recordings are dispatched once, no clip of a window that fits in a page is missed |
| `CloseIsClean` | lifetime, obs | close ends and leaves no handler, child or poll behind that uses the database |
| `DataIsRecoverable` | vault, upgrade, restore | vault and database can be read, or recovered from what is on the disk, at every moment, but for a copy that a server tore |
| `DefinitionsHold` | workflow, form | what is stored is a route; what the editor sends is accepted, and every row reads back as it was answered |
| `RecipesRender` | recipe | a recipe renders its steps in their order, and what is rendered passes examination exactly when its trims leave something |

Four runs are expected to find a violation; each is a finding:

| Run | Property | What the code does |
| --- | --- | --- |
| `stalled_runner` | `SettledByOwnExecution` | a server that stalls past a lease recovers the job and claims it again under the same worker id; the execution of the first attempt then settles the second |
| `late_second_execution` | `RowsAccepted` | an execution created after its item was completed can never begin |
| `youtube_second_page` | `NothingLost` | the second page of YouTube uploads is compared with the watermark the first page advanced: its items are dropped, and the success makes it final |
| `transcription_waiters` | `EveryWaiterResumes` | a second execution that waits for a transcript is never resumed: the job holds only the continuation of the first |

Bounds, and why they are enough. Queue: two jobs are enough for a dependency and
for two servers to collide, three for a limit; `MaxAttempts` is 2, the least with
both a retry and an exhausted budget; leases last two ticks, the least in which a
heartbeat may come late and still in time; `AttemptBound` caps manual retries,
`AgeBound` the remembered age of an overdue job, `MaxServers` the servers alive at
a time. Sources: two destinations and two executions are the least with a partial
failure and a shared item; `CrashBound` the crashes of the server. Polling: three
items with one a page and two pages a poll are the least with a next page and a
page limit; `FaultBound` is 2, enough for the threshold of two failures and for a
crash after a failure; `OccurrenceBound` open occurrences are told apart, and
failures are counted up to `FailureBound`. The kind of the schedule is chosen when it
is created: a recurring one of period 1 is the hardest for the polling, a one-time
schedule has no later instant to hide an occurrence that was lost. The stall needs one
job, one server, and a tick more than a lease.

Publishing: a file of two chunks (`Size`) has a first, a last and a middle offset; two
attempts, three with a manual retry (`RetryBound`); two sessions or containers
(`RemoteBound`), so that a second one could be created; one crash. Accounts: two
operations at a time (`Slots`), two authorization requests (`RequestBound`), three
account rows (`IdBound`), each provider alone and two that differ together. Targets: two
of them, two discoveries, a write that fails, a token that is not sent and a crash
anywhere. Webhooks: two destinations, two attempts, two starts. API: two requests at a
time, one key of each kind, three bodies of which two name one platform or file, one
fault, and a failed release after a failed record. Pages: two requests under way, four
clicks (`ClickBound`), two transcripts; two jobs of which one is a transform, two clicks
and one failure (`PanelClicks`, `PanelFaults`). Derivatives: two attempts, three claims,
two crashes, which is enough for two executions of one row. Folders: two files, one
content, two writes, one fault, one manual import. Transcripts: two executions, two
editors, three revisions (`EditBound`), two faults. Vault: three calls at a time, two of
them in the server, so that two changes of one process overlap, and one in a CLI; two
operations asked for in all (`CallBound`; a recovery is one more), two references, two
keys, one crash. Upgrade: two processes, three migrations, one crash. Restore: three
commits, two restores, two crashes or failing file operations. Shutdown: a job of each
kind, two attempts, two closings. Workflows: every set of up to four edges over four
steps with a diamond, up to three over other lists. Form: three acts beyond a preset.
Recipes: three steps. Clips: two clips and a page of one, so that a window may fit in a
page or not, four ticks (`Horizon`), an overlap of two, one tick each for a listing and
for a request. OBS: three faults, three hints. Models: three calls, two faults; builds:
two installers, two versions, two faults.

Symmetry: `job_queue_scopes` declares one, where all jobs are of one account and
nothing tells two of them, or the two runners, apart; the run checks no liveness.
`SecretVault` takes a call's slot, and the first reference, in a fixed order, and
`JobsPanel` the first free slot of a request; slots are interchangeable there.

The runs of `SourceExecution`, `MCServices` and `MCLocal` set `CHECK_DEADLOCK FALSE`
because the system may stop: every job settled and no command given. In `JobQueue`
and `Scheduler` time always passes.

## 4. Where the code does not do what one might expect

Some results hold only under a constant of their run or a condition that the
property names; the list says what happens without it, and what else the models
show or leave out on purpose:

- `ExecutionHoldsLease` and the budget of attempts need `TimelyHeartbeats`: a runner that
  stalls past its lease reclaims its own job, and the old execution completes the
  new attempt (the run `stalled_runner`), or fails it with its old attempt number,
  so that one attempt too many is started.
- With `CliCommands = TRUE` or two servers a cancellation that commits between the
  check and `fail` leaves a waiting job that no claim takes.
- `OutcomesHold` with `Overlap = TRUE`: a publish job that another process cancels
  or settles before it is attached leaves its destination with the old status.
- `RowsAccepted` with hints at a shared original: two executions match the same
  original and the second `markReady` violates a unique constraint.
- `MediaAvailable`: a fingerprint hint may match the managed copy of another
  execution, which deletes it.
- `NothingLost` holds of YouTube too while everything new fits on one page
  (`Watermarked = TRUE`, `PageSize = 3`).
- `AuthorizationPauseEarned` needs a single server: with two, one polls with an old
  failure count while the other succeeds and resets it. A poll that began before
  its connection got a schedule writes the interval date, and the schedule's
  requests are refused until then.
- A second schedule of a connection (`Create`) clears the request that the
  first one left (`enableScheduleCadence`): its occurrence is dispatched and polled
  no more. The run of `SchedulesPoll` has one schedule.
- `ItemsArrive` speaks of items that are within the pages of one poll: a poll that
  reaches the page limit stores no cursor and starts over.
- A manual retry extends the budget to at least one more attempt; after a
  permanent failure all attempts that were left come with it (`Retry`).
- `NoSecondUpload` of YouTube needs a service that remembers a session that took
  the file (`ForgetsInserted = FALSE`); otherwise the handler replaces the session
  and uploads again.
- `ConnectedHasToken` speaks of services whose refresh does not write the row back,
  and of no crash between grant and store: a refresh of TikTok, Twitch or Meta
  brings an account that was removed meanwhile back without a token.
- `TokenOutageKeepsAccount` speaks of the token endpoint and leaves Meta out, which
  takes every refusal for a revoked token. Twitch has the new token validated and
  takes any answer but a good one for a revoked token, also an outage (`InvalidMarks`).
- `PublishableHasToken` allows for targets that Meta sent no token for, whose token
  could not be written, and those between whose row and token the server died
  (`tokenless`). A blocked target can be enabled, and stays enabled when discovery
  finds it blocked.
- A webhook job is settled by status and worker, not by the number of its attempt:
  after a stall past the lease the late answer of the old attempt settles the new one
  (`SettledJob`). `SucceededWasAccepted` holds all the same, since that answer
  was of the same delivery.
- `DoneOnce` and `AnswerIsOwn` allow for a record that could not be completed: the work
  of a create request is then done again, that of a publish key for another platform
  or file, and the answer may be of the body sent before. `PendingIsUnderWay` allows
  for a crash and for a release that failed, after which a key answers "in progress"
  until it is cleaned up.
- `ReleasedWithOutput` allows for an execution that lost its lease and still
  writes; a lost lease aborts the handler, and the cancelled row is not retried.
- `OutputIsThere` allows for a file somebody removed: a cache hit does not look.
- `DispatchedOnce` allows for a manual import of the content a scan probes.
- `ClipsArrive` says nothing of windows over one page (`polled.whole`): what is on the
  next page is never asked for. Clips have to be listed within the overlap.
- `RestoreIsRecoverable` allows for a torn copy: when a server writes its log into the
  file while `copyFile` reads it, the copy is of no use, and the original, which is whole
  up to then, is deleted in the end.
- `EditsAreGuarded` and `EditsVanishAsked` allow for answers that cross: the late
  transcript of another media replaces the one being edited, an export answered
  during a save shows the older revision, an import answered during a publication
  opens the form again. Browser Back discards edits unasked.
- `DetailsAreChosen` allows for an answer that was due when another job was
  selected; and a cancellation moves the panel back to the job selected when it
  was asked for.
- `FormIsStored` names two requests of the editor that are refused or useless:
  fractional hours of retention, which only the service refuses, and a clip preset
  turned into a plain folder, whose title template renders nothing. A filter step
  of a definition sent by a script is stored and never applied.
- `PlanRenders` names recipes that are accepted and fail: filters on the sound
  with `audioCodec: 'none'`, and sizes that come out odd from a source or a limit.
  A recipe whose trims leave nothing of the media is accepted too, rendered to an
  empty file, and refused by the handler's examination (`Accepted`). A second
  burnt-in caption step of one transcript renders the first.
- The order of a plan's steps is that of their kinds, not of the edges; a workflow
  with two transforms is stored and every execution of it throws.
- `CloseIsClean` counts a transform stopped at shutdown as a failed attempt; a
  claim made during the stop of the children burns one more. And a scan of the watched
  folders goes on after `database.close()`, since `watchedFolderRunner.stop` only clears
  a timer: it fails at the closed database, with nobody to handle the rejection. What
  it leaves is what a crash leaves (`WatchedFolder!Die`).
- `restorePortableBackup` renames the current database away before the new one takes its
  place, not "atomically" (backup.ts:491): when it dies in between, the path has no
  database, the next start of a server makes an empty one there, and the old one stays
  under a name that nothing looks for. `RestoreIsRecoverable` counts it as recoverable.
- After a crash between moving `current.json` aside and replacing it, which happens
  only where a file in use cannot be replaced, no whisper.cpp build is found.

## 5. Fairness

`JobQueue!FairSpec`: a server is started again after it went away, its poll
timer fires, a claiming pass goes on to its end, handlers return (they get an
abort signal and every adapter call has a timeout), settlement is synchronous
code, time passes. Polls, drain turns and returning handlers wait while the
event loop is busy, so their fairness is strong. Heartbeats need none: with
`TimelyHeartbeats` time waits for them or for the handler to return. Nothing is
assumed of operators: no command is fair, `JobsSettle` assumes that the queue is
not paused for good and that paused accounts are resumed.
`SourceExecution!FairSpec` asks only that a server with something to do does
something; attempts and crashes are bounded, so this is enough.

`Scheduler!SchedulerFairSpec`: time passes, a server is started again, its timers
fire, synchronous code runs on, and the adapter answers or throws (it has
timeouts and an abort signal). Starting a poll and ending `stop` wait for the
turns of the scheduler, so their fairness is strong. Faults are bounded: the
properties say what happens after the last one. `ItemsArrive` assumes that the
connection stays active and polled by interval in the end.

`MCServices` and `MCLocal` conjoin the fairness of their components, each action
restricted to the component that goes on:

- publish handlers go on and a waiting job is claimed (the queue's promise;
  requests have timeouts);
- a server that died is started again and its start runs on; `publish()` of webhooks
  is synchronous once begun;
- the jobs page: the server answers or an answer is delivered or the timer fires;
- a transform handler's awaits end (FFmpeg has a stall and a total deadline),
  its heartbeat fires, a dead server is started;
- scans of a folder are started by a timer and end, and time passes;
- the transcription job is claimed, inference ends by its deadline, leases expire;
- shutdown: timers fire and a killed child is gone; nothing is assumed of a child
  that got SIGTERM;
- OBS: the reconnect timer fires, a connection is made or fails, scans end.

No user action is fair.

## 6. Proofs

`JobQueueProofs` proves, for every set of jobs, runners, platforms and accounts
and every limit that satisfies `ScopeAssumption` and `LimitAssumption`:

- `TypeCorrect`: `TypeOK` is invariant.
- `AttemptHistoryHolds`: the attempts of a job are numbered without gaps, all but
  the last are closed, and the last is open exactly while the job runs. It is
  inductive together with `TypeOK`; recovery, settlement and claim each have a
  lemma about the row and its history (`RecoverHistory`, `ClosedHistory`,
  `ClaimedHistory`).
- `LeaseHeld` and `AttemptsStayBounded`, under `TimelyHeartbeats`. Neither is
  inductive alone: a stale execution can only be excluded if all
  executions hold their lease, and a recovered job stays within its budget only
  if the execution that fails it knows the current attempt number. `LeaseInv`
  joins the two: every execution holds an unexpired lease and its snapshot
  equals the row, a job has at most one execution, and every row is within its
  budget, strictly so while it waits. Section 4 says what happens
  without the assumption.

The module goes on with what the queue lets happen to a row. All of it rests on
`RowsMove`: a step of the queue makes at most one row start an attempt
(`Starts`, which is a claim) and moves every other row by one of six moves
(`Moves`).

- `PrerequisitesHonoured`: `PrerequisiteHonoured`, with no assumption on heartbeats.
- `ScopesHeld`, under `TimelyHeartbeats`: `ScopesHold` is not inductive, since a claim
  counts the running jobs of a platform and of an account by their rows, and a
  count only bounds the next one if every running row is some live execution's.
  The lemmas about cardinality say what one more element does to a scope.
- `LifecycleImplemented`, under `TimelyHeartbeats`: `ImplementsLifecycle`, step by step;
  a stale execution would start an attempt over budget (section 4).
- `DrainReturnsQuietly`, under `TimelyHeartbeats`: the safety half of
  `CommandsTakeEffect`.

Two assumptions of `JobQueue` say what the code guarantees: `ScopeAssumption`, that
an account belongs to one platform, and `LimitAssumption`.

`SchedulerProofs` proves, for any servers, items, schedules and bounds:

- `SchedulerPolls`: every step of `Scheduler` is a step of `SourcePolling` or leaves it
  alone, so what is proved of polling holds under a scheduler.
- `SchedulerTypeCorrect`: `SchedulerTypeOK` is invariant.
- `SchedulerLosesNothing`: `NothingLost`, if the adapter has no watermark. The
  strengthening `Kept` follows the polls under way: what a poll has passed, from
  the newest item it has seen down to the page to come, is stored and handed over
  but for what is left of the page at hand. It holds for any number of
  servers; the run `youtube_second_page` shows why a watermark is excluded.
- `PausesAreEarned`: `AuthorizationPauseEarned`, if only one server polls, by the
  invariant that a poll under way knows the failure count of the row.

`SourceExecutionProofs` proves, for any executions, destinations, hints, policies,
attempts and crashes, about one item:

- `SourceInvHolds`: the inductive invariant `SourceInv`. The outcomes in the tables
  are not inductive by themselves: a trigger rewrites the row of an execution from
  those of its destinations, so the invariant relates destination to job, mirror
  to destination and artifact to resolution, and `RunFits` and `CleanupFits` say what
  a handler still relies on at each phase, that is, what no other handler may
  change while it waits there. A crash puts handlers back to `idle`, where they rely
  on nothing.
- `RowsAreTyped` (`TypeOK`) and `SuccessIsTrue` (`SuccessMeansPublished`) follow from it.
- `OutcomesTrue`: `OutcomesHold`, if `~Overlap`. The half about success needs no
  hypothesis.
- `MediaStays`: `MediaAvailable`, and `CompletedLast`: `ItemCompletedLast`, if
  `HintsAreOriginals`, that is, if no fingerprint hint matches the managed copy of
  another execution (section 4).
- `DeletedOnlyWhenDue`: `CleanupIsDue`, with no hypothesis; the lemma behind it names
  the only two actions that delete a file.

`NoneIsNoJob` tells the value for "no job" apart from the names of jobs.

`PublishingProofs` proves, for any size of a file, number of attempts, of uploads and
of crashes:

- `PublishInvHolds`: `PublishInv`, what the row, the answer under way and the objects
  at the service say of each other at each await (`Checked`, `AnswerInv`, `LeftInv`).
  `CheckpointIsTrue` alone is not kept: a handler that reads an answer relies on
  what the service had when it answered and can only have more of since.
- `CheckpointTrue`: `CheckpointIsTrue`, with no hypothesis.
- `NoUploadTwice`: `NoSecondUpload`, and `PublicationImplemented`: `ImplementsPublication`,
  if youtube is not among the platforms or does not forget a session that took the
  whole file (`ForgetsInserted`, section 4).

`PublishAssumption` says that the budget of attempts is within the bound on
attempts. A theorem about `Publishing` speaks of all four handlers: each step of
each has a lemma of its own.

`ConnectionsProofs` proves, for any providers among the five, any slots, ids, targets,
destinations, allowlists, restarts and attempts, about `ServicesSpec`:

- `ConnectionsInvariant`: `AccountInv /\ TargetsInv /\ WebhookInv`, inductive. For the
  accounts, that a live request has its verifier is not kept by itself: a callback
  deletes the verifier of the request it holds, so the invariant says that each request
  is open or held by one operation (`RequestInv`), that an account id belongs to one
  provider for ever (`IdInv`, or a late cleanup of one provider could take the token of
  another), and that a connected youtube account without a token is still in the hands
  of an operation (`TokenInv`). For the targets, that a write of a token belongs to a
  discovery that waits for it (`WritesInv`), and that a target one may publish to has
  its token when the writes asked for are done, but for those in `tokenless`
  (`TokensInv`). For the webhooks, that a destination one may send to has a key depends
  on how far the start has come: `WebhookKeys` follows it from reconciliation to `up`;
  `WebhookAnswers` carries what an endpoint accepted from the execution that knows of it
  to the row.
- `ConnectionsHeld`: `ConnectionsHold`; `WebhookTablesHeld`: `WebhookTablesHold`.

`RequestsProofs` proves, for any keys, bodies and requests under way, any jobs, and any
transcripts, cues, typed texts and posts:

- `RequestsInvariant`: `ApiInv /\ PanelInv /\ PageInv`, inductive. Of the API: a pending
  key is held by one request, but after a crash or a failed release (`KeysHeld`); while
  every record has been completed a key is reserved once something was done under it,
  which is one body, once; and whatever failed, a publish key has it done once for each
  platform or file (`KeySound`); and what a request is about to answer was done
  (`RequestSound`, `Told`). Of the jobs page: until a selection overtakes an answer,
  each request that will set the details is for the job chosen last. Of the media page:
  what a page shows, in whatever closure that page is captured, is the transcript at its
  revision (`Fair`), the draft is that of its cues but for the words a change of times
  has taken (`DraftFollows`), and a save under way asks for what was typed on the page
  that asks (`PostsSound`). `UncrossedGuarded` and `UncrossedAlone` hold until an answer
  comes to a page that has changed (section 4).
- `RequestsHeld`: `RequestsHold`.
- `EditsKept`: `EditsVanishAsked`, the half of `NothingForgotten` that is safety. `EditInv`
  adds what each request leaves of the page and that a page that waits for its last
  save has nothing typed but what it saves; it is proved beside `PageInv`.
- `ServicesTyped`: `ServicesTypeOK`, for all seven components.

Both speak of `ServicesSpec`: each step of the server is a step of a component or leaves
its variables alone, so an invariant of a component is one of the server. They
rest on the assumptions of `MCServices`, which TLC evaluates:

- `AccountAssumption`: a connection is of a provider the program has.
- `WebhookAssumption`: a delivery is attempted at all; bounds are numbers.
- `PanelAssumption`: jobs have ids, and the page's `null` is none of them.
- `PageAssumption`: a stored transcript is empty or passes the schema, which
  `replaceGeneratedCues` parses it with; what a user types is any text and number.
- `ApiAssumption`: a body names its platform or its file (`WorkOf`); a bound is a number.
- `TargetsAssumption`: a bound is a number.

`StorageProofs` and `LocalProofs` prove, for any numbers of jobs, executions, editors,
recordings, clips, calls, secrets, processes, failures and crashes and any definitions,
requests and recipes, about `LocalSpec`. Each component has an inductive invariant and a
lemma per action; `MediaApart`, `StorageApart`, `OtherApart` and `DefinitionsApart` say
that a step of the machine is a step of one component or leaves its variables alone.

- `FilesStayThere`: `FilesAreThere`. Of derivatives (`TransformInv`): who writes to the
  directory of a derivative does so alone, while the row is running or was cancelled
  under him, and a row that runs has such a writer while the server is up; otherwise an
  execution that lost its lease could delete the output of the next. Of models
  (`ModelInv`): between the start of a download and its answer there is one call, and
  whoever is about to remove the target found it bad. Of whisper.cpp (`InstallInv`): the
  version a call has moved aside is whole, and while none is named a call holds it.
- `SuccessStaysEarned`: `SuccessIsEarned`, the half of derivatives from the same invariant,
  that of transcripts by `TranscriptionInv`: a handler that resumes has cues, and an
  execution that has an output has its captions, also when the server died between
  the two.
- `NothingIsOverwritten`: `NothingOverwritten`, both action properties. That the cues of
  an editor are marked as edited is what keeps an inference from replacing them. For
  secrets see `VaultInv`.
- `DataStaysRecoverable`: `DataIsRecoverable`. `VaultInv` holds for any calls in two
  processes: what of it concerns one call (`CallFits`) and the queue (`QueueInv`: of two
  changes in a process one waits for the other) is always true; `OrderlyInv` holds until
  a recovery crosses another call: there is one key, a process initializes once and
  before it reads, and the document a change holds shows the vault as it is or is known
  to be old. Of upgrades (`UpgradeInv`): the ledger is that of a version, what a process
  has still to apply is what is missing from a version in between, and nobody gets past
  the copy without a copy of the database as it was found. Of restores (`FilesInv`,
  `CommandInv`): a log is lost only with its file or when it is empty, a database that is
  not at its path has a whole copy or a torn one, and what each phase of the command
  relies on.
- `IntakeStaysExact`: `IntakeIsExact`. `ClipInv` is about time: a clip is listed in
  time, a poll is answered in time, and the window that follows it reaches back so far
  that what it leaves out was listed when the poll asked (`Polled`), so that while
  windows fit in a page what was listed is seen or in the answer (`Arriving`).
  `ImportInv`: what is being probed is not registered yet, and not being probed by the
  other importer.
- `DefinitionsStay`: `DefinitionsHold`. For any steps and edges, `Valid` implies that
  all of a definition is reached from its source (`ValidIsRoute`) and that no edge leads
  back (`ValidIsAcyclic`: any steps have an earliest, which none of the others leads
  to). `WorkflowInv` adds that only a valid draft is stored and run. For the form,
  `SubmittedChain` and `FanValid` say that the editor builds an ordered chain that fans
  out to its destinations and that such a definition is valid, whatever the fields;
  `SubmittedRefused` compares what the editor checks with each reason of the service to
  refuse; `ReadsBack` and `RowsSound` say that rows, also those that a migration wrote,
  compile and read back as they were answered. `FormInv` keeps the form among those the
  fields can show (`FormKind`), what is sent among what such a form becomes, the rows
  among those that are made of what was accepted (`RowKind`), and, for the presets, what
  nobody touched as the draft has it (`Fits`).
- `RecipesStay`: `RecipesRender`, for any steps in any order and number, any outputs and
  media. Both sides are folds over the steps. `StepsCompile` follows the compiler: what
  the current label went through and the pending filters, one after the other, are the
  steps so far that the picture shows (`Picture`, `Visible`), each label is made once
  and is used but for the last (`Drawn`, `Wired`), and the sound has its own filters
  (`Audible`). `CommandIs` adds limits, the sound and what is mapped. `StepsFilter`
  follows the picture: after any steps it has the size of the last fit, an even one, and
  is not longer than expected; `LimitsFilter` says that limits are kept, and lengths
  with them; `RemainingBy`, that what is left of the media is what the trims leave,
  which is nothing exactly when the examination refuses. `RecipeInv` adds that every
  step of a plan has passed the schema.
- `ClosedStaysQuiet`: the part of `CloseIsClean` that is safety, with the scan that may
  be left. `ObsInv`: the client that was made last is the one that is awaited or in use.
- `LocalTyped`: `LocalTypeOK`, for all fourteen components. The types of watched folders
  and of the vault need more than the invariants above: that rows of media are numbered
  without gaps and a visit names one of them (`WatchInv`), and that a value or a key a
  file or a call holds was set or made (`VaultCounts`: values and sets under way together
  are at most one more than the calls asked, the one being the legacy value).

Which steps are reached, which destinations are among the steps and the loops of
the compiler are recursive functions. The lemmas about them (`WalkExists`, `ReachedByWalk`,
`PassExists`, `AmongByPass`, `LoopExists`) rest on
`SetInduction`: a set of numbers that has 0 and the successor of each of its own has all
of them, which follows from the order of the numbers being well founded.

They rest on assumptions of `MCLocal`, which TLC evaluates:

- `ClipsAssumption`: latency and one request fit in the overlap of the windows. What is
  listed later than the windows overlap, no poll asks for. How many clips there are is
  left open: the property itself speaks of windows that fit in a page.
- `LifetimeAssumption`, `UpgradeAssumption`: a job may be attempted at all; somebody opens
  the database and there is a migration to apply.
- `WhisperAssumption`, `CaptionsAssumption`: the names of versions and editors are not
  those that stand for a missing `current.json`, for missing and for generated cues.
- `RestoreAssumption`: the commits a database begins with are within the bound.
- `VaultAssumption`: the bound on keys leaves room for one.
- `WorkflowsAssumption`, `FormsAssumption`: the steps of a definition are of kinds that the
  schema knows, and a script posts destinations and a remote source that have passed it.
- `RecipesAssumption`: steps are of the kinds of the schema, with numbers where it wants
  numbers; a limit is at most one number; a picture has a size.
- `TransformsAssumption`, `ModelsAssumption`, `ObsAssumption`, `WatchingAssumption`: bounds
  are numbers.

TLC checks the same invariants first: `SourceInv` also with `Overlap`, cancellations and
hints of managed files; `PublishInv`, `ConnectionsInv`, `ApiInv`, `PanelInv` and
`EditInv` on the instance of `Services.cfg`; those of `StorageProofs` and `LocalProofs`
on that of `Local.cfg`. `PageInv` quantifies over all numbers of posts and all rows of
cues, `FormInv` over all forms; TLC checks what follows from them.

Model-checked only: liveness (`JobsSettle`, `SchedulesPoll`, `ItemsArrive`,
`ExecutionsProgress`, `PublishJobSettles`, `WorkGoesOn`, that cancelled runs, `close()`
and drains end, and the parts of `NothingForgotten` about deliveries and the jobs page),
which TLAPS cannot prove under fairness; and what the violation runs refute. Every
invariant that a run checks is stated by a theorem.

## 7. Plan

1. Done: the queue, its abstract specification and proofs of its lease and history
   invariants; polling and schedules with proofs; source executions.
2. Done: publishing with its abstract specification, accounts, webhooks,
   idempotency, derivatives, transcription, intake, definitions, secrets, database
   files, shutdown, and the pages that hold state.
3. Done: proofs of the limits, prerequisites and refinement of the queue, of source
   executions, of the publish handlers with their refinement, of accounts, targets,
   webhooks, API requests and both pages, and of what goes on on the machine.
4. Open: transcription steps within source executions, a queue whose publish jobs
   depend on a modelled derivative.

## 8. Not modelled

- The HTTP routes, sessions, MCP and CLI front ends: routing, validation and
  presentation; their commands are actions of the modules above.
- Remote protocols beyond what an answer means to a handler, cryptography, path
  containment, archive and media formats: data no property here depends on.
- Calendar arithmetic of schedules; plugin interfaces and configuration; pages
  of the web interface that only show what they read.
- Within the modelled parts: payloads, error texts, timestamps beyond their order,
  optional destinations (nothing creates one), edits of a workflow during an
  observation, more than one identity for each provider.
