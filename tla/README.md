# A TLA+ model of NiceAgent

NiceAgent is a remote agent platform in Go: a control plane that stores chats
and runs and serves the browser, agent runtimes that execute runs, a sandbox
executor, and a web frontend. This directory models what is hard to get right in
it: how a run is created, queued, claimed, executed, finished and reported while
users cancel it, workers crash and leases expire; how its events reach browsers;
how runs, tool calls and model calls are counted against limits; how invitations
are mailed; how the files a run leaves become artifacts and are cleaned up; and how
browsers, identities and memberships decide who may act.

Paths below are relative to `src/services/` unless they start with `docs/` or
`packages/`.

## 1. The system

| Component | State | Operations | Interacts with | What is hard | What makes it correct |
|---|---|---|---|---|---|
| Run rows (`control-plane/internal/repository`) | run status, active attempt, lease, attempt count, messages, events, usage, artifacts | AddUserMessage, ClaimRunAttempt, CheckRunAttempt, UpdateRunStatus, SaveRunUsage, AddEvent, AddArtifact | every handler; two implementations, memory and Postgres | the Postgres status update is two statements | a finished run stays finished; one attempt holds a run |
| Run handlers (`control-plane/internal/httpapi/server.go`, `app/runs.go`) | none besides the store | createMessage, cancel, internal claim, events, artifacts, complete, fail | store, dispatcher, runtimes | every handler is several store calls, all interleave, each may fail, the process may die | answer before success, status before terminal event, no writes by late or stale callers |
| Dispatchers (`control-plane/internal/dispatch`) | Redis stream or goroutines | Dispatch, Enqueue | runtimes, `RepositorySink` | an error does not mean that the run was not handed over | a run is handed over or failed |
| Run queue worker (`agent-runtime/internal/runqueue`) | consumer group, pending entries, dead letter stream | ProcessNext, autoClaimPending, executeQueuedRun, heartbeat | Redis, control plane, engine | at-least-once delivery, leases against reclaiming, crashes | nothing is lost, retried for ever, or executed by two attempts that cannot be told apart |
| Engine and sink (`agent-runtime/internal/engine`) | one execution | execute; Claim, Emit, Complete, Fail | control plane, models, tools | errors that are reported only in its result | every execution ends the run or leaves it retryable |
| Run quota (`control-plane/internal/quota`) | Redis counters, per-run markers | ReserveRun, Commit, Rollback, ReleaseRun | createMessage, UpdateRunStatus | crash between counter and marker; two finishers | each reservation is released once |
| Run events (`control-plane/internal/events`, `runEvents`) | event log, subscriber buffers, nudges | AddEvent, Subscribe, ListEvents | browser | full buffers, events published out of order | a reader sees each event once, in order |
| Invitation mail (`control-plane/internal/mailer`, the deliveries of the repository) | invitations, outbox rows, suppressed addresses, an in-memory queue | create, resend, accept; Enqueue, ClaimDue, MarkSent, MarkFailed; provider events | SMTP, webhooks | slow sending against lock expiry, requeues in mid-delivery, late complaints | bounded tries, no mail to suppressed addresses, every delivery ends |
| Sessions (`control-plane/internal/httpapi/oidc_browser.go`, `oidc.go`) | session rows, signed cookies, cached signing keys | login, callback, refresh, logout, the check of every request | identity provider | replayed cookies, failures between two writes, key rotation | one live session per login, none after a logout; the cache follows the provider |
| Identity and membership (`server.go`, `authz`) | identities, roles in organisation and project, invitations | bind, upsert, remove, invite, accept | every handler | roles are read before they are relied on | only the entitled change members; an administrator remains |
| Tool quota (`internalReserveToolQuota`) | run_usage, skill_invocations | reserve, record start and finish, settle at completion | runtimes | sum, compare and write are separate calls | the quota of a day holds, no invocation stays open |
| Tools (`agent-runtime/internal/tools`) | rate-limit windows in memory or Redis | InvokableRun, allow, dial, retry | skills' services, control plane | names that change their address, windows of many processes | only permitted addresses, bounded calls per minute |
| Model providers (`agent-runtime/internal/modelprovider`) | slots, windows, trackers, fallback state | Generate, Acquire, RoundTrip, fallback, probe | model services, engine | contended slots, retries, state shared by runs | limits hold, answers are counted once, no call hangs |
| Sandbox and artifacts (`packages/common/sandbox`, `RegisterArtifacts`, `internalCleanupExpiredArtifacts`) | files of the workspace, artifact rows with their expiry | Execute, scanOutput, RegisterArtifacts, DeleteExpiredArtifacts, deleteLocalArtifactFiles | tools, engine, stores, docker | two scans around a command while others write, registrations that fail or are repeated, rows and files apart | what a completed run left is registered; a file goes after its artifact has expired, and does go |

Skill manifest import, configuration, telemetry and the frontend's rendering keep
no state of their own that several actors share, or are pure text processing;
`PROJECT.json` lists them as not modelled.

## 2. Modules

| Module | Models | Composes |
|---|---|---|
| `RunStore` | one run row and the decisions on it: who may claim it, whose calls pass the fence, which status it accepts | |
| `ControlPlane` | the handlers, one step per store call, any number of them in flight | `RunStore`; refines `RunLifecycle` |
| `RunLifecycle` | what a client is promised: the status diagram and the order of answer, status and terminal event | |
| `RunWorker` | the Redis stream with its consumer group, the workers, their heartbeats, the engine's calls, time, faults and crashes | `RunStore` |
| `EventStream` | publication of a run's events, subscriber channels, nudges between replicas, the SSE handler, the browser's reconnections | |
| `RunQuota` | the limits on runs in Redis: reserving, committing, rolling back and releasing | |
| `InvitationMail` | invitations, the three mailers, the outbox rows of both stores, provider events | |
| `OIDCVerifier` | the cache of signing keys, refreshed without a lock while the provider rotates | |
| `BrowserSessions` | session rows and the handlers of login, refresh, logout and of every request | `OIDCVerifier` |
| `Access` | identities, roles, the action policy, and the handlers that change memberships | |
| `SkillRequests` | one outgoing request of a skill: address check, rate limit, dial, attempts, deadline | |
| `ToolCalls` | a tool call from its quota reservation to the row that records it | `SkillRequests` |
| `ModelCalls` | limiters, retries, fallback, probe and usage of model calls | |
| `Artifacts` | the commands of a run, the scans of `output/`, the registration of artifacts, their expiry and cleanup | |
| `ControlPlaneProofs`, `AccessProofs`, `ArtifactsProofs`, `InvitationMailProofs`, `EventStreamProofs`, `BrowserSessionsProofs` | theorems | the module they are named after |
| `AgentRuntimeProofs` | theorems | `RunWorker` and `ModelCalls` |
| `QuotaProofs` | theorems | `RunQuota` and `ToolCalls` with `SkillRequests` |
| `MC...` | instances for TLC: symmetry sets, scenarios, and constants that are functions | |

Definitions whose comment starts with "Faulty" are deliberate mistakes in one
definition; they show that the properties notice them and are used nowhere
else.

### RunStore

A row keeps the status, the active attempt, the lease (`none`, `live`,
`expired` in place of a time), the attempt count and whether `started_at` and
`finished_at` are set. `ClaimConflict` and `ClaimRunAttempt` are the two halves
of the store's `ClaimRunAttempt`; `CheckRunAttempt` is the fence, which does not
look at the lease; `UpdateRunStatus` is the memory store's decision and
assignment under one lock, `StatusRefused` and `WriteRunStatus` the `SELECT` and
the `UPDATE` of the Postgres store.

### ControlPlane

`Store` selects the store. A request sits in a slot of `req` with its kind, its
run, its attempt, the artifacts it still has to register and a `pc` that names
its next store call:

| Handler | Steps |
|---|---|
| `createMessage` | `ReceiveCreate`, `AddUserMessage`, `CommitQuota`, `QueuedEvent`, `Dispatch`, and on failure status update and `Announce` |
| `cancel` | `ReceiveCancel`, status update, `Announce` |
| `internalWriteRunEvent` | `ReceiveFromRuntime`, `CheckAttempt`, `WriteEvent`, status update for `run.started` and `approval.needed` |
| `internalRegisterRunArtifacts` | `ReceiveFromRuntime`, `CheckAttempt`, `RegisterArtifacts`, then `GetArtifact`, `AddArtifact`, `ArtifactEvent` for each |
| `internalCompleteRun` | `ReceiveFromRuntime`, `CheckAttempt`, `SaveUsage`, `SinkGetRun`, the artifact steps, `AddAssistantMessage`, status update, `Announce` |
| `internalFailRun`, `HTTPDispatcher` | `CheckAttempt` (runtimes only), `SinkGetRun`, status update, `Announce` |
| `internalClaimRun` | `ClaimRun`: one store call |

The status update is `MemoryUpdate`, or `PostgresRead` followed by
`PostgresWrite`. `StoreError` and `Crash` exist for Postgres only, since the
memory store never fails and dies with its process. `Dispatch` may report an
error although the message reached the queue. Message texts, titles, chats,
audit records and metrics are left out; an event is its type, an answer is the
attempt that wrote it.

### RunWorker

Each worker walks through `ProcessNext`: `ReadGroup` or `ReadEmpty` and
`AutoClaim`, `PendingRetryCount`, `DeadLetter`, `FetchExecutionContext`, `Claim`,
the engine's `EmitStarted`, `IsCanceled`, `Agent`, `Fail` or `Complete`, and
`Ack`. `Heartbeat` runs beside the engine. A call to the control plane is atomic
here (`ControlPlane` is about what happens inside), but it may fail before or
after it took effect. A timeout in `FetchExecutionContext` or `Claim` may end the
worker's loop (`LoopEnds`), because `Run` returns for every error that is
`context.DeadlineExceeded`, and `net/http` makes the timeout of a client one.
`Tick` moves the idle times of pending messages and the leases; it is never
held back, so a worker may be paused for as long as one likes. The attempt id of
a delivery is its delivery count, standing for the fresh random id.

Redis is modelled from how the code uses it: `XREADGROUP` hands each message out
once, `XAUTOCLAIM` takes the oldest pending message that is idle long enough,
resets its idle time and counts a delivery, `XACK` removes a message whoever
has it.

### EventStream

The events of one run are numbered, so the log is `1..seq`. A writer is a call of
`AddEvent`: `AddEvent` up to the unlock or commit, `Publish` (Postgres collects
the subscribers after the commit, the memory store under the same lock), one
`Send` per subscriber, which drops the event if the channel is full, and `Nudge`,
which reaches the subscriptions of all replicas. A reader is a browser tab with
the connection it has. `OpenEvents` and `Reconnect` differ in the sequence number
they ask for: the browser reconnects with the `?after` of the first connection,
which the server prefers to `Last-Event-ID`. The handler runs `Replay`,
`SubscribeLocal`, `SubscribeNudges`, `ReadLastSeq`, `Replay` again and then
`WriteLive`; beside it the goroutine of `FanoutRepository.Subscribe` takes
`FanoutLocal`, `FanoutNudge` and `ForwardEvent` steps. What a handler writes is
received at once, since data that is lost with its connection cannot be told
from data that was not written. A deployment, chosen at the start and then fixed,
says which store and fanout are used, which replicas write and are read from, how
large the channels are and what may fail: queries (`list`), commits that took
effect but were reported as failed (`commit`), and the nudges (`nudge`,
`subscribe`).

### RunQuota

This is `QUOTA_COUNTER_MODE=redis`. The run that a create makes has the name of
the create. `Receive`, `Check`,
`Reserve` (once per counter), `AddUserMessage`, `Commit`, `HandOver` and
`DispatchReturns` are `createMessage`; `Rollback` its deferred function. `Finish`
starts a complete or a cancel; `GetBefore`, `Update`, `ReadUsage`, `GetMarker`,
`DeleteMarker` and `Settle` are `ReleasingRepository.UpdateRunStatus`, which a
create goes through as well when it fails its run. `Redis` says how a call may
end: it returns, its reply is lost, or it does nothing. The concurrent runs, the
runs of the hour and the tokens of the day are one counter each, since a user's
keys in one project are independent of all others; the hour and the day do not
pass. `TokenReservation` is the fixed reservation; the dynamic one differs only in
its amount.

### InvitationMail

A deployment is a store and a way of sending. `CreateInvitation`,
`ResendInvitationEmail` and the steps behind them are the handlers;
`SendInline`, `SendToQueue`, `MemoryEnqueue` and `PostgresEnqueueCheck` with
`PostgresEnqueueInsert` are `SendInvitation` of the three mailers. A worker of the
queue runs `TakeFromQueue` and `DeliverFromQueue`, one of the outbox
`MemoryClaimDue` or `PostgresClaimDue`, `Deliver` and `Mark`. `RecordNext` is one
iteration of the webhook's loop over its items, of which each records an event and
may suppress the address. Times are reduced to the comparisons the code makes: a
row is due, its lock is held, an invitation has lapsed; `LockExpires`,
`RetryDelayPasses` and `Lapse` make them pass. History variables (`credit`,
`displaced`, `handedOver`, `refused`) only serve the properties.

### OIDCVerifier and BrowserSessions

A check of a token is `BeginCheck`, `KeyForToken`, and, when the cache does not
have the key, `FetchKeys`, `InstallKeys` and `RereadKey`: the answer of the
provider is taken in one step and installed in a later one, and other requests may
do the same in between. `ActorFromBearer` ends it. Signature and claims are an
outcome that the token carries.

`BrowserSessions` adds the handlers. `OidcCallback` and `OidcRefresh` lead to
`ExchangeOIDCToken`, the check of the ID token, `RevokeRefreshed` (refresh only)
and `SetOIDCSession`, one repository call each; `AuthLogout` to `RevokeLoggedOut`.
`ActorFromCookie` and `ActorFromToken` are how every other request is let in. A
browser may present any cookie that was ever issued. An answer may be lost, which
here is a session that is made but whose cookie is not issued.

### Access

`Receive` takes a request of a user for one of the handlers. `MemoryBind`, or
`PostgresBindSubject`, `PostgresBindUser` and `BindInsert`, bind the identity;
`ListPathRoles`, `ListProjectRoles`, `ProjectBelongs` and `ListOrganizationRoles`
are the calls of `loadPersistentActorRoles`, which decides on the first role it
finds; `Authorize` is the action policy. The writes act on what was read:
`UpsertOrganizationMember` and `UpsertProjectMember`, `MemoryRemoveOrganizationMember`
and `MemoryRemoveProjectMember`, their Postgres counterparts followed by
`DeleteMember`, `CreateInvitation` and `AcceptInvitation`.

### SkillRequests and ToolCalls

`SkillRequests` is one call of an HTTP or MCP skill: `CheckHost`, `LocalAllow` or
`RedisAllow`, `Dial` (which resolves the name again and filters the addresses),
`Answered`, `DialRefused`, `AttemptAgain` and `DeadlinePasses`. `ToolCalls` puts
the attempt of a run around it: `CallTool`, the reservation
(`ReserveCheckAttempt`, `SumRunUsageSince`, `ReserveDecide`, `GetRunUsage`,
`ReserveSave`), the events and the rows they leave (`RecordStart`,
`MemoryRecordFinish`, or `PostgresFindOpen` and `PostgresRecordFinish`), and after
`EndLoop` the complete as far as the usage goes: `CompleteCheckAttempt`,
`CompleteSaveUsage` (the attempt's own count replaces the row) and, several calls of the
store later, `CompleteFinish`. Each of the two may fail, and another attempt may take the
run over between them, with its usage replaced and its status still running. A run may
have two attempts at work, of which one is stale. Seconds in the sandbox are counted in halves, since the code rounds up.

### ModelCalls

A call is `AcquireSlot`, `ReserveRequest`, the steps of `RetryTransport` (`Succeed`,
`FailTransiently`, `FailForGood`, `AttemptAgain`, `AbortPause`, `ClientTimeout`) and
`Returns`, first against the primary and then, after `TryFallback`, against the
fallback. Contexts end while a call waits, pauses or is under way. The health probe
is a caller of its own. A message costs one token, so `tokens` is what the tracker
of a provider has counted.

### Artifacts

One run and its workspace. A command is `Execute`, the snapshot (`ScanOutput` file by
file), `StartCommand`, `CommandChangesFile`, `CommandEnds`, the second scan and
`CollectArtifacts`; it may fall back from the container to the local executor, its
result may be lost, and a container whose docker client was killed goes on
(`OrphanChangesFile`). Both may remove a file as well as write one: the executor lists it
in the diff of the result and nothing else comes of it, but a scan that has listed the
file fails when it gets there. The artifacts of a result go through `PostArtifacts` and `ReadSaved`
or `GiveUp` into what `CompleteWithUsage` sends again at the end. Both handlers share
`CheckRunAttempt`, `GetRun` and the loop of `RegisterArtifacts`: `GetArtifact`,
`AddArtifact`, `ArtifactEvent`. A cleanup is `MemoryDeleteExpired`, or
`PostgresSelectExpired` and `PostgresMarkDeleted`, and then, for one row after the other,
`DeleteFile` or, when the workspace, the path or the file cannot be had or the file cannot
be removed, `DeleteFileFails`, which leaves the file out for good. A file is its contents, an id the command that reported it and its
path; `expires_at` has passed or not. The quota, events and rows of tool calls are in
`ToolCalls`, the answer and the usage of a complete in `ControlPlane`.

## 3. Runs

The runs of `ControlPlane` and `RunWorker` use one run id: handlers and workers
touch one run at a time, and no operation modelled there relates two runs.
Concurrency is in the number of requests, attempts and workers.

| Run | Instance | Shows |
|---|---|---|
| `memory` | memory store, 3 requests, 2 attempts; create, cancel, dispatch failure, approval, complete, fail; fair handlers | `TerminalIsFinal`, `TerminalEventMeansTerminal`, `FinishIsReported`, the refinement `ImplementsLifecycle`, and `FinishersFinish`: whoever set out to finish a run leaves it finished |
| `postgres` | Postgres store with store errors and crashes, 3 requests, 2 attempts, 1 artifact; approval, register, complete | `SucceededIsSettled` and `AnswersWithinAttempts` survive all of it |
| `pg_overwrite` | Postgres store, 3 requests | violation of `TerminalIsFinal`: two finishers both read the active row, the second overwrites the first |
| `worker` | 2 workers, 6 attempts, 3 deliveries, reclaim after 1 tick and leases of 2, 1 fault, 1 crash; fair workers and clock | `DistinctAttempts`, `LeaseIsHonoured`, `DeliveriesBounded`, `UnclaimedIsKept`, and `MessageSettles`: while a worker's loop runs, every message leaves the group |
| `sse` | three deployments: one replica with the memory store; Postgres with nudges and 2 writers at another replica than the reader; the same with writers at both replicas, channels of 1 slot and failing queries; fair | `AppliedOnce`, `NoEventSkipped` where live events cannot overtake one another, `MissedEventsReplayed`, `CatchesUp` |
| `quota` | 3 creates, 1 finisher, 1 failed store or Redis call or crash | `LimitsHold`; `HeldIsCounted`: nothing is paid back twice; `SettledAtEnd`: the counters agree with the runs in the end |
| `mail` | outbox in both stores, inline and queued sending; 1 invitation, 2 workers, 2 requests at a time and 3 in all, 2 tries, 1 failed call or crash; fair workers and time | `TriesWithinBudget`, `OneWorkerPerLock`, `NoDeliveryAfterComplaint`, `DeliverySettles` |
| `sessions` | 1 login, 3 keys of which the second takes the first one's id, 1 rotation, 2 requests at a time and 3 in all, 1 failed fetch, 1 failed call or crash | `OneSessionPerLogin`, `ReplayRefused`, `PublishedKeyAccepted`, `WithdrawnKeyRefused` |
| `access` | both stores, 2 users, 2 subjects, 1 invitation, 2 concurrent requests, 4 initial memberships, 1 failed call | `IdentityKeepsUser`, `ChangedByEntitled`, `AdminRemains` |
| `tools` | 2 attempts of 1 or 2 runs, 5 skills, 10 scenarios, 3 calls against a quota of 2 | `QuotaKept`, `InvocationRowsClosed`, `OnlyAllowedDialed`, `AdmittedWithinLimit` |
| `models` | 2 runs and the probe, 1 slot and 2 attempts per provider, 4 scenarios; fair | `ProviderLimits`, `AnswersCountedOnce`, `CallsReturn` |
| `artifacts` | 6 deployments with 2 files and 2 contents; up to 2 attempts, 2 commands, 2 cleanups, 1 lost answer, failed call, file that is not removed, or crash | `OutputsRegistered`, `ArtifactKeepsFile`, `FilesReclaimed` |

Bounds. In `ControlPlane`, `Requests` bounds how many requests a run ever gets:
three are its create and two that race; claims, renewals and lease expiry come on
top of them and are not bounded by it. `MaxAttemptCount` 2 allows one takeover.
`MaxFaults` and `MaxCrashes` bound what the environment may do, not what the
workers may. `MaxDeliveries` is the code's own limit, set low. `Attempts` is as
large as the largest delivery count that `DeliveriesBounded` allows, so that it
never cuts a behaviour short.

In `EventStream` one reader stands for all, since readers share nothing; three
events let a second writer overtake the first after the handover from replay to
live, and two overflow a channel of one slot; two broken connections let the
browser reconnect with a `?after` that is older than what it has applied. With the
memory store the channel has a slot for each event, because that store promises
nothing to a reader that lags by more, and one writer, because two of them may
publish in the wrong order even there. In `RunQuota` a double release takes three
creates to show (one that releases, two that then share a slot); one slot and
three creates are the smallest instance of it. Five tokens with two reserved and
three used per run let two runs through and deny the third.

In `InvitationMail` three requests are a create, a resend and a provider's event,
two of which overlap; two workers are what an expired lock takes, and two tries let
one fail and another follow. In `BrowserSessions` one login with three requests is
the callback, a refresh and whatever replays the old cookie; the reused key id is
what makes a cached key wrong rather than absent. In `Access` two users suffice,
because a request only concerns its actor and its target, and the four starts are
two administrators, one of the organisation and one of the project in both orders,
and one that stands alone. In `ToolCalls` the third call is the one over the quota
and two attempts are what an overlap takes; each scenario spends its budget on one
thing, time, a moving address or a failure, and where two of them meet is not
explored. A minute has two ticks, so that a window may begin in the middle of
another, and likewise in `ModelCalls`, where one slot makes the callers contend.

In `Artifacts` two files let a scan miss what is written behind it, two contents of the
same size are an update that only the hash shows, two commands give two artifacts of one
path or a second attempt, and two cleanups take the same rows; the deployments share out
what would multiply, and the limit of the executor is reached by its second file.

Deadlock is not checked where the system may stop: wherever the requests are
bounded, once all have been served. It is checked in `RunWorker`.

Fairness. `ControlPlane`: weak fairness of each handler's next store call; a
handler is a goroutine that waits for nothing but its store. No fairness for
arrivals, claims, lease expiry, errors or crashes. `RunWorker`: weak fairness of
each worker's own goroutine, whose calls all have timeouts, and of the clock; no
fairness for the heartbeat, users, faults or crashes. `EventStream`: weak fairness
of each writer that has an event to publish, of each handler and of each
forwarding goroutine, none of which waits for anything but its channels; none for
browsers, connections or new events. `InvitationMail`: weak fairness of each worker,
which polls for ever, and of the passing of locks and retry delays; none for
handlers, webhooks or faults. `ModelCalls`: weak fairness of each call's own
steps, each of which ends by the client's timeout if by nothing else; strong
fairness of taking a slot, since the goroutines that wait at a Go channel are
served in turn; none for new calls, time or the end of contexts.

## 4. Where code and documents disagree

One run ends in a violation; `PROJECT.json` quotes the sentences under `findings`.

- `pg_overwrite`: the Postgres status update reads and writes in two statements,
  of which the second is unconditional, so a finished run changes its status.

The others are visible in the models but have no run of their own. The properties
are worded so that they do not hide them, and the entries under `hazards` say how:

- `Complete` checks status and attempt long before it writes its answer, so a
  complete that lost to a cancel or to another attempt still writes it (against
  `docs/plan/04-multi-instance-queue-events.md:152` and `docs/OPERATIONS.md:405`).
- A displaced worker acknowledges its successor's message, whose crash then
  strands the run (`worker.go:145`, against `docs/plan/04-...:12`).
- With the default timing (reclaim after 60 s, leases of 600 s, 5 deliveries) a
  crashed run is dead-lettered before its lease expires, and stays running
  (`worker.go:189`, against `docs/plan/00-...:60`).
- `executeQueuedRun` drops the engine's result, so an execution that failed
  without recording it is acknowledged (against `docs/OPERATIONS.md:403`).
- A timeout of `FetchExecutionContext` or `Claim` ends the worker's loop;
  `MessageSettles` promises nothing once every loop has ended.
- With writers at two replicas a local event overtakes the nudge for an earlier
  one, which the reader never gets (`eventbus.go:221`, against `docs/plan/04-...:150`).
- A failed query looks like an empty log: `MissedEventsReplayed` is checked
  without failing queries, and `CatchesUp` promises nothing after a fault.
- When the reply to the `SETNX` of `Commit` is lost, the create's rollback and the
  finisher both release the reservation, and the limit is exceeded afterwards
  (`redis_limiter.go:309`, against `docs/API.md:585`). The run `quota` and the
  theorems about `RunQuota` leave lost replies out; adding `"reply"` to `FaultKinds`
  shows it.
- A run that is canceled before its reservation is committed keeps its slot:
  `SettledAtEnd` counts the marker that is then written for a finished run.
- Two requests may both complete a run (`CheckRunAttempt` and the status are read before
  either writes). If the second saves its usage after the first has read the row to settle
  it, the counter of tokens keeps the usage of the first and the row has that of the second
  (`server.go:2263`, `releasing_repository.go:32`, against `docs/OPERATIONS.md:205`).
  `SettledAtEnd` speaks of the tokens only if every run was completed by one request at
  most. It also leaves out runs that were canceled or whose dispatch failed: their
  reservation is released with the usage of the row at that moment, to which a complete
  that was let in before may still add.
- A create whose run could not be marked failed leaves it queued and gives its
  slot back: `LimitsHold` does not count such a run.
- A Postgres delivery whose worker died on its last try, or whose invitation is no
  longer open, is never claimed again and stays `sending` or `pending` (against
  `docs/OPERATIONS.md:152`); `PassedOver` names those rows.
- A logout whose session query fails answers `logged_out` and revokes nothing
  (`oidc_browser.go:191`); it does not count as confirmed. Two requests that work on one
  login at the same time may leave two sessions.
- An actor that is no administrator of the organisation any more may still remove its
  last one with the roles its request has read; `AdminRemains` is about actors that are.
- A tool call that the risk policy denies is neither reserved nor made, and the usage that
  a complete reports counts it as a call (`tool_bridge.go:201`, `eino_engine.go:227`).
  `cli.exec` reserves the seconds of
  `timeout_seconds` but runs with a fixed ten.
- `SumRunUsageSince` and the quota policy of Postgres fail open. Overlapping
  reservations may pass the last unit together, which `docs/API.md:827` admits.
- A complete replaces the usage before it ends the run (`server.go:2273`). When it fails in
  between, the run goes on with the usage of an attempt that is over, and the complete of
  its successor replaces that in turn, so the calls of the first count no longer.
  `QuotaKept` counts what is lost that way as free again, and says nothing of the usage of
  a run once a complete has replaced it.
- Two ends of tool calls at the same time on Postgres may close one row of
  `skill_invocations` and leave the other open.
- An error by which the model client times out is replaced by `redactError`, so it has no
  class, is not retried and does not lead to the fallback (against
  `docs/OPERATIONS.md:278`).
- An artifact whose row was written and whose event was not stays unannounced, since
  the complete that repeats it finds the row; and a registration that outlasts its
  client and the complete that overlaps it, or one whose lookup fails, announce an
  artifact twice (`runs.go:24`, both against `docs/API.md:873`).
- `buildRunUsage` reports the tracker of a provider, which counts the messages of all
  runs of the process, as the usage of one run (`eino_engine.go:189`, against
  `docs/OPERATIONS.md:272`). `ModelCalls` has the tracker, and not what runs report.
- The cleanup of an artifact removes the file of a newer one with the same path, and a
  command may remove the file of an artifact: the executor computes the deleted paths
  (`executor.go:294`) and nobody updates the rows. `ArtifactKeepsFile` is about files of
  which no artifact has expired yet and that no command has removed since they were written.
- A cleanup marks the rows before it removes the files. What it cannot remove, or has still
  before it when the control plane stops, stays for good, since no later cleanup gets the
  rows again; `FilesReclaimed` leaves those files out. A path that cannot be resolved
  for any reason counts as a file that is not there and is not among the `file_errors`
  (`server.go:2334` and `:3025`, against `docs/API.md:930`).

## 5. Proofs

`ControlPlaneProofs` proves, for all sets of runs, requests, attempts and
artifacts and every bound:

| Theorem | Store | Statement |
|---|---|---|
| `TypeCorrect` | both | `Spec => []TypeOK` |
| `Settled` | both | `Spec => []SucceededIsSettled` |
| `Final` | memory | `Spec => TerminalIsFinal` |
| `Reported` | memory | `Spec => []TerminalEventMeansTerminal` |
| `FinishReported` | memory | `Spec => []FinishIsReported` |
| `AnswersBounded` | both | `Spec => []AnswersWithinAttempts` |
| `Refinement` | memory | `Spec => ImplementsLifecycle` |

They rest on the named assumptions of `RunStore` and `ControlPlane`
(`NoAttempt` is no attempt, there is a run, the store is one of the two, and so
on), which TLC evaluates in every run.

The argument. `SucceededIsSettled` is not inductive: the step that writes
`succeeded` must know that its request has written the answer and the usage. So
`SettledInv` says, for each `pc` of a complete, what it has written by then;
`PhaseInv` says which kinds of request can be at which `pc`, so that only a
complete ever asks for `succeeded`; `CreationInv` says that a run id without a
row is known only to the request that creates it, so that inserting the row
cannot take a succeeded run back. `IndInv` is their conjunction with `TypeOK`,
and `Inductive` proves it from `Init` and one step per action. With the memory
store, decision and write are one step, so the status of a finished run does not
change (`FinalStep`); hence a request that has reached `announce` has a finished
run, which is `ReportInv`. The refinement maps each store call to a step of
`RunLifecycle` or to a stutter: only `AddAssistantMessage` changes `answered`,
only `Announce` changes `reported`, and `StatusStep` classifies the steps that
change a status as `Queue`, `Move` or `Finish`. `FinishReported` adds `FinishInv`: a
finished run has its event in the log, or the request that finished it is at `announce`
and will write it. `AnswersBounded` counts attempts: `HeldInv` says that those that have
answered, those whose complete has passed the fence, and the one that holds the run are
together no more than `attemptCount`, which a claim raises with the attempt it lets in.

The first part of `AgentRuntimeProofs` proves about `RunWorker`, for all sets of runs, workers and attempts, all timings
and any number of faults and crashes:

| Theorem | Statement |
|---|---|
| `WorkerTypeCorrect` | `Spec => []TypeOK` |
| `AttemptsDistinct` | `Spec => []DistinctAttempts` |
| `NothingDropped` | `Spec => []UnclaimedIsKept` |
| `LeaseHonoured` | `Spec => LeaseIsHonoured` |
| `DeliveriesWithinBound` | `Spec => []DeliveriesBounded` |

`DistinctAttempts` rests on delivery counts: `WorkerInv` says that a worker has a
message that was delivered, and with an attempt no larger than its count, so a
reclaiming worker, whose attempt is the count it has just raised, has one that
nobody else has. `UnclaimedIsKept` needs where a message can be: `StreamInv`
says that it was added once and is new until it is delivered, and `AckInv` that
a worker is about to acknowledge only what was claimed, has ended or is in the dead
letter stream. `LeaseHonoured` follows from the claim's guard step by step,
with `LeaseInv`, by which only a lease that has run out is seen as expired, and
`ClaimedInv`, by which a row with an attempt has been claimed. `DeliveriesBounded` needs
to know why a message is delivered once more: `DeliveryInv` says that every late delivery is
being dead-lettered or was cut off by a fault or a crash (`Covered`), and that beyond these
one delivery short of the limit, and the one whose attempt holds the run and refuses the
others, is still being tended or was cut off too (`Tended`). It needs a limit of at least two
and finitely many workers, which `RunWorker` assumes.

The second part proves about `ModelCalls`, for any finite set of runs, any number of
slots and attempts and any requests per minute:

| Theorem | Statement |
|---|---|
| `ModelTypeCorrect` | `ModelSpec => []ModelTypeOK` |
| `LimitsKept` | `ModelSpec => []ProviderLimits` |
| `AnswersCounted` | `ModelSpec => []AnswersCountedOnce` |

`SlotsInv` says that the limiter's channel has as many slots taken as there are calls past
`wait` that have not returned, which is why nothing may be given back twice or kept. The
rate is bounded by `WindowOK`: what the present window has not counted was admitted before
it began, and all but the last window of that a minute before, so that a call is admitted a
minute after the one two windows of calls before it (`WindowAdmits`). `PauseInv`, that a call
pauses only with an attempt left, is what keeps `attempt` in its range.

`QuotaProofs` proves, for all finite sets of creates, all finishers, policies and
amounts and any number of faults:

| Theorem | Statement |
|---|---|
| `LimitsAlwaysHold` | `"reply" \notin FaultKinds` implies `Spec => []LimitsHold` |
| `HeldAlwaysCounted` | `"reply" \notin FaultKinds` implies `Spec => []HeldIsCounted` |
| `SettledWhenAnswered` | `Spec => []SettledAtEnd` |

The hypothesis of the first two is that no reply of Redis is lost; section 4 says what
happens otherwise.

None is inductive. A counter bounds what is held only if nobody pays back
twice, so the invariant says who owns a reservation at any time. `MarkerInv`: the
marker is written once and then stands for what was reserved; when it is gone, the
run has finished, or its create has ended or is paying back. `OwedInv`: whoever owes a
slot has removed the marker, or is the create that never wrote one, and no two
handlers owe the slot of one run. `ReservedInv`: whoever is past a check has reserved for
it. With these, each step that takes one off a counter takes one create out of the
set that the counter bounds, and each create that passes a check is in that set, so
the check bounds `Running` and the accepted creates (`PastIsHolding`). The lemmas
`MoveGood` and `MoveKept` cover the many steps that only let a handler go on;
`ReserveAdds`, `CommitGood`, `RollbackPays`, `PaysMarker` and `SettleGood` the ones
that move a reservation.

`SettledWhenAnswered` is about behaviours in which nothing has failed yet, and is proved
with an invariant that holds as long as `faults = 0`. There the bound of `CountInv` is an
equation (`ExactInv`): the counter of concurrent runs is the number of runs in
`Holding("active")`, and that of the tokens is the reservations in `Holding("tokens")` plus
the usage rows of the runs that have paid (`Paid`). The second half also needs `Tame`, which
is what `Plain` says at the end, stated so that a step cannot make it true: no run failed or
was canceled so far, and no two requests set out to complete one. `LogicInv` says what
the equations rest on: nobody else owes what one handler owes (`ShareInv`), what a create
has reserved, committed and handed over at each step (`CreatesInv`), that a finisher has
finished its run before it pays (`FinishersInv`), and that whoever completed a run is still
to release it while its marker is there (`ReleaseInv`). `QuietGood` covers the steps that
neither reserve nor pay; the others have a lemma each, which moves one run into or out of
what is held. When all have answered, what is held is in the markers (`HeldByMarkers`),
and with `LogicInv` those are the markers that `SettledAtEnd` names.

The sum over the usage rows is a recursive function that the community module picks by
`CHOOSE`. That it exists (`AddsUpDefined`), that it depends on nothing but its terms
(`TotalSame`) and that one more run adds its own usage, in whatever order the runs are taken
(`TotalAdds`), is proved from a smallest counterexample (`SmallestSet`), since the library's
induction theorems cannot be used.

Its second part is about tool calls, for all finite sets of attempts and runs, all skills,
rates, lengths of a minute, quotas and budgets of faults:

| Theorem | Statement |
|---|---|
| `ToolTypeCorrect` | `ToolSpec => []ToolTypeOK` |
| `DialsAllowed` | `ToolSpec => []OnlyAllowedDialed` |
| `RatesKept` | `ToolSpec => []AdmittedWithinLimit` |
| `ToolQuotaKept` | `ToolSpec => []QuotaKept` |
| `RowsClosed` | `ToolSpec => []InvocationRowsClosed` |

`ToolInv` joins three arguments. `RateInv` relates the ticks at which calls were admitted to
the limiter's window: what the local window has not counted was admitted before it began,
and all but the last window of that a minute before (`LocalOK`); for Redis the same is said
of the number of the minute (`RedisOK`), and a minute later means two numbers on
(`MinutesApart`), which is where twice the limit comes from. `QuotaInv` says that a
reservation decided on a sum nobody has written to since still has room for its call, and
has read the row as it is (`DecidedInv`); so what was granted is in the usage or was taken
out of it by a complete (`GrantedInv`), whether the complete went on to end the run or not. `RowsInv` counts, for a run and a skill, the open rows
against the calls that keep one and the ends that went unrecorded (`KeptInv`). A call does
not keep its row when it has found none open and will add a closed one
(`KeepersOf`), and a row found in Postgres stays open until it is closed
(`TargetInv`); both fail once two updates have found one row, which `overlapped` records.
`Balanced` lists the ways in which a step may change the three numbers.

`AccessProofs` proves, for both stores, all users, subjects, policies and numbers of
requests:

| Theorem | Statement |
|---|---|
| `AccessTypeCorrect` | `Spec => []TypeOK` |
| `IdentityKept` | `Spec => IdentityKeepsUser` |
| `ChangesEntitled` | `Spec => ChangedByEntitled` |
| `AdminStays` | `Spec => AdminRemains` |

`HeldCurrent` says that an actor's present roles are among those it has held since its
request came in, `Entitled` that a request about to write was allowed by one of those,
and `OneSubjectEach` that bindings are one to one, which the look-then-insert of
Postgres keeps by the unique index that `BindInsert` meets.

`ArtifactsProofs` proves, for all deployments, any number of attempts, commands, files
and cleanups, all limits and any faults:

| Theorem | Statement |
|---|---|
| `ArtifactsTypeCorrect` | `Spec => []TypeOK` |
| `FileKept` | `Spec => []ArtifactKeepsFile` |
| `AllRegistered` | `Spec => []OutputsRegistered` |
| `FilesGone` | `Spec => []FilesReclaimed` |

`FileKept` needs to know where the row came from: `KeepInv` says of each place an
artifact passes through (the scan, the report, what the attempt has got, the request of
a handler, the row) that its file is there, or was removed by a command, or has had an
artifact that expired, and that a cleanup has only artifacts that expired. `AllRegistered` follows a file along the
same way. `AttemptInv` says that what a scan has found without being disturbed is what
there is, and that an attempt has got or is reporting all it
owes; `CompleteInv` that a complete still has it to do or has registered it, and that
nobody waits for its answer, so that it can only succeed with nothing left;
`AnnounceInv` that the artifact a handler announces, and then drops, has its row. `FirstIn`
gives the handlers their next artifact, by the well-founded order of the natural
numbers. `Inv` is the conjunction with `TypeOK`. The lemmas `BecomeInv`,
`FilesChangeInv`, `HandlerGoesInv` and `QuietInv` each cover the steps of one kind (an
attempt goes on, a file changes, a handler goes on, only rows change), and every
action has a lemma that shows it to be of its kind. `FilesGone` adds `ReclaimInv`: if the
file of an artifact that a cleanup has to remove is still there, the cleanup is removing
files and has that artifact before it.

`InvitationMailProofs` proves, for every deployment, all invitations, addresses and requests,
finitely many workers and any number of faults:

| Theorem | Statement |
|---|---|
| `MailTypeCorrect` | `Spec => []TypeOK` |
| `TriesKept` | `Spec => []TriesWithinBudget` |
| `OneWorker` | `Spec => []OneWorkerPerLock` |
| `NoMailAfterComplaint` | `Spec => NoDeliveryAfterComplaint` |

`TriesWithinBudget` says that `credit`, which a handed-over mail uses up, stays positive;
the invariant says what it still has to pay for. `OutboxBudget`: the tries that a row has
left and the workers that are sending it. `QueueBudget`: a full set of tries for every place
of the invitation in the channel, and what the sending workers have left. `LockInv`: of the
workers that have a row, one at most is not displaced, and its row is locked; a worker is
displaced when the lock expires or the row is requeued, so `OneWorkerPerLock` follows.
`RefusedInv` keeps the history of refusals within the suppressed addresses, which a claim
skips. The events of a webhook are a filtered sequence; what the filter returns for each
length is found from a smallest counterexample (`Collects`).

`EventStreamProofs` proves, for every deployment, all replicas, writers and readers, any
number of events, connections and faults:

| Theorem | Statement |
|---|---|
| `StreamTypeCorrect` | `Spec => []TypeOK` |
| `EventsAppliedOnce` | `Spec => []AppliedOnce` |
| `MissedEventsWritten` | `Spec => []MissedEventsReplayed` |
| `NoEventIsSkipped` | `Spec => []NoEventSkipped` |

The invariant is about one writer (`WriterOK`) and one reader (`ReaderOK`) at a time, since
readers share only the log. `Increasing` is `AppliedOnce`: the browser drops what is not
newer than the last event it applied, so it holds in every deployment. `DueOK` follows the
events that were missed from the query of the first replay to the browser; it fails with a
query that comes back short, and the property excludes those. `NoEventSkipped` is about the
deployments of `InOrder`: Redis fanout where no replica is both written at and read from, or
one writer at one replica with a channel for every event and no commit reported as failed.
There `PlaceOK` says that the browser has a prefix of the log and asks for nothing beyond
it, `ForwardOK` that what the fanout goroutine has read and put out is consecutive and
follows on what was written, and `ChannelOK` that the channel holds the events just before
the one that is `Coming`, without a gap to what was forwarded or written. `Stays`,
`Replays`, `Takes` and the others of their kind describe what a step does to one reader, and
a lemma each shows that it keeps `ReaderOK`.

`BrowserSessionsProofs` proves, for any number of logins, requests, keys, rotations and
faults:

| Theorem | Statement |
|---|---|
| `SessionTypeCorrect` | `Spec => []TypeOK` |
| `OneSessionKept` | `Spec => []OneSessionPerLogin` |
| `DroppedStaysOut` | `Spec => ReplayRefused` |
| `PublishedKeyPasses` | `Spec => []PublishedKeyAccepted` |
| `WithdrawnKeyRejected` | `Spec => []WithdrawnKeyRefused` |

`VerifierInv` is about the cache and is kept by the steps of `OIDCVerifier` however the
handlers use them: `KeysInv` says that a key that was withdrawn before the cache last grew
stale is in no answer that is still to be installed, nor in a fresh cache; `ExcuseInv` that a
request whose verification nothing disturbed finds its key in every set it may still get it
from, so that the one retry is enough. `SessionInv` is about the rows: `LoginInv` says that a
login on which no two requests worked at once has one live session or one request about to
make it, whose old session is revoked by then; `RowsInv` that what was dropped is revoked,
which no step takes back; `CountInv` that each request makes one session at most.
The type invariants `TypeOK` of these modules are proved and not among the properties
of the runs.

All of these rest on the named assumptions about constants in the modules they are
about (`RequestsAssumption` and the like), which TLC evaluates in every run.

Only model-checked: everything under fairness (`FinishersFinish`, `MessageSettles`,
`CatchesUp`, `DeliverySettles`, `CallsReturn`), which is out of the prover's reach; and that
`TerminalIsFinal` and the refinement hold for the memory store alone is shown by
`pg_overwrite`. Induction over data is done where a proof needs
it, by a smallest counterexample.

## 6. Not modelled

See the components in `PROJECT.json`. Of the modelled parts:

- decoding in front of the handlers, message contents, audit events and metrics;
- `LocalDispatcher` and the in-memory queue; stream trimming at
  `RUN_QUEUE_MAX_LEN` (`queue.go:145`); messages that do not decode; the inside of
  the agent loop, which is one nondeterministic step;
- the keepalive pings of the event stream;
- the passing of hours and days and the expiry of Redis keys under the run quota
  (`redis_limiter.go:20`), and its default mode, which counts rows before the run is
  inserted, so that two messages at once can both pass the last slot
  (`server.go:2552`);
- the text of a mail and the signature of a webhook; signatures and claims of tokens;
- creating users, organisations and projects;
- request templates, schemas, secrets and redaction of skills, and what the builtin
  skills do in other services;
- streaming model calls, which the engine does not make, health reports and prices;
- which commands the sandbox allows, symbolic links, the layout of a workspace, and
  reading, downloading and previewing artifacts.

Skill manifests and the platform packages are left out: the first is string processing
without state, the second changes nothing the properties are about.

## 7. What is left

1. An abstract specification of a delivery (promised, tried, ended) that
   `InvitationMail` implements, in the way `ControlPlane` implements `RunLifecycle`.
2. The run quota that counts rows, composed with the store of `ControlPlane`.
3. `LocalDispatcher` and the in-memory queue; the frontend's reducer of run events.
