# A TLA+ model of Streaming Tree for OBS

Streaming Tree receives one RTMP stream from OBS through a local MediaMTX server
and forwards it to several destinations, one FFmpeg process each.  Around that it
collects chat and supporter events from the providers and turns them into alerts,
overlays, goals and automated chat.  This directory models the parts in which
goroutines, child processes and shared records meet, model-checks them with TLC and
proves theorems about them with TLAPS.

All paths below are relative to `src/apps/server/internal` unless they begin with
`docs` or `cmd`.

## 1. Inventory

### The streaming path

| component | state it keeps | operations | hard behaviour |
|---|---|---|---|
| branch manager, `runtime/branch` | one record per platform: state, desire to run, stop request, generation, process, delay, restarts in the window | StartBranch, StopBranch, RestartBranch, StartEnabled, StopAll, Forget, Shutdown; the supervision chain of each start; the reconciler | the mutex is released during every spawn, stop, repository read and settle window; retries and resumes race with requests |
| MediaMTX supervisor, `runtime/mediamtx/supervisor.go` | one record: state, current process, stop request, installing, generation, delay, restarts, ingest | RequestStart, RequestStop, RequestRestart, RequestInstall, Shutdown; launch, watchExit, pollIngest, scheduleRestart, runInstall | stop and start overlap; late poll answers; pending restarts; installation next to everything else |
| installer and resolver, `runtime/mediamtx` | the executable on disk | Install (download, verify, publish by two renames), Resolve (stat, run `--version`) | a failing or cancelled installation; probing while it is replaced |
| FFmpeg resolver, `runtime/ffmpeg` | a cached resolution | Resolve | none of its own |
| stream sessions, `domain/streamsession` | the open session and its destinations, in memory and in the database | a poll every 5 s; recovery at start | grace window, crash between two writes |

The branch manager reads snapshots of the supervisor (`Ingest.Snapshot`) to decide
whether a destination may start, whether FFmpeg died because the input went away, and
whether a waiting destination can be resumed.  Sessions poll both.  `cmd/server/main.go`
starts the supervisor before HTTP, drains HTTP before it shuts anything down, and shuts
the branch manager down before the supervisor.

What makes them correct: a counter ("generation") that lets at most one chain of
goroutines act on a record; a stop that is final and reaches the process; a desire to
run that always has somebody working for it; a restart policy that cannot loop quickly;
no process without an owner; states "in progress" that come to an end.

### The engagement path

| component | state it keeps | operations | hard behaviour |
|---|---|---|---|
| event bus, `engagement` | ring of events, deduplication set, subscriptions (bounded channels), sequence | Publish, Subscribe, Cancel, Shutdown | channels are sent to and closed outside the mutex |
| SSE handler, `httpapi/engagement.go` | a subscription per client | subscribe after Last-Event-ID, read, end | the reason of the end, gaps |
| connectors, `runtime/*engagement` | connection and retry state | connect, read, publish | redelivery, reconnection |
| operator chat, `operatorchat` | a ring of revisions, an index of the messages | consume, resubscribe, delete, clear | a replay of what was handled already, older events behind newer ones |
| chat overlay, goals, supporter widgets, `chatoverlay`, `goals`, `supporterwidgets` | projections of the events | consume, snapshot, subscribe | the consumer's loop of operator chat |
| alerts, `alerts` | per profile a bounded queue by priority, the alert shown, the replay | match, test, tick, interrupt, skip, replay, pause, clear, disable | two calls to the audio runtime in one handler; an alert held for its sound |
| audio, `audio` | a bounded queue, the current item, the renderer's session | ask, approve, promote, synthesise, acknowledge, skip, clear; enqueue and cancel for alerts | syntheses that end late; a renderer that comes and goes; profiles that share it |
| chat automation, `chatautomation` | timers, cooldowns | tick, command, send | timers against the dispatcher |
| outbound chat, `outboundchat` | a bounded queue and a worker per account | Send, Shutdown | cancelled callers, pacing, retries after a refusal, shutdown |

What makes them correct: an event reaches each subscriber at most once and a loss is
announced; what was moderated stays hidden; a message is sent once at most, and not too
soon; a sound belongs to the alert that is on the screen; nothing waits for ever for
something that may not come.

### Accounts

`domain/account` keeps the row of a connected account in the database and its token bundle
in the credential store.  Requests (`WithFreshToken`), the hourly validation,
`FinalizeConnection` and `Disconnect` run concurrently; only refreshes are serialised, per
account.  Hard are the two stores, which no transaction spans, and the refresh token, which
the provider accepts once: a crash, a failed write or a race in the wrong place costs the
user the connection.

### The rest

Authorisation (`runtime/deviceflow`, `runtime/youtubeauth`), credentials and login, backup,
updater, stream setup and preflight, repositories (`storage`, `domain`), HTTP,
configuration, desktop integration and the web interface.  Most of it is sequential, or
input and output.  PROJECT.json lists every component with its status and the reason for it.

PROJECT.json also lists the hazards: the places where this code is hard to test, each
at its line, with the properties that watch it.

## 2. Modules

    IngestSource            what the supervisor promises the branch manager
      ^ implemented by MediaMTXSupervisor (MediaSafety.cfg)
      ^ instantiated by BranchManager: its three ingest actions are this module's
    BranchManager           the branch manager, its processes and the reconciler
      MCBranchManager       TLC instances
      BranchManagerProofs   theorems, as in every module named ...Proofs
    MediaMTXSupervisor      the supervisor, its processes and the installer
      MCMediaMTXSupervisor, MediaMTXSupervisorProofs
    EngagementBus           the bus and the readers of its subscriptions
      MCEngagementBus, EngagementBusProofs
    StreamSession           the session history and its manager
      MCStreamSession, StreamSessionProofs
    OperatorChat            the chat projection, a consumer of the bus
      MCOperatorChat, OperatorChatProofs
    AudioManager            the audio runtime
      ^ extended by
    AlertPlayback           the alerts and the audio runtime they drive
      MCAlertPlayback, AlertPlaybackProofs
    OutboundDispatcher      the callers, the queue and the worker of one account
      MCOutboundDispatcher, OutboundDispatcherProofs
    AccountTokens           accounts, their tokens, the provider as they see it
      MCAccountTokens, AccountTokensProofs

In all of them an action is one critical section of the component's mutex, or one
unlocked operation between two of them (a spawn, a probe, the end of a wait, a channel
send); in StreamSession it is one access to the database, in AccountTokens one access to the
database, the credential store or the provider.  This is what Go guarantees and no more, so
every interleaving the code allows between two lock acquisitions is a behaviour of the model.

### BranchManager

`branches[p]` is `branchState`; an absent map entry is the state "untracked".  A
*worker* is the chain of goroutines that one `generation++` begins: `launch`,
`watchExit`, the settle window, `scheduleRestart`, `retryAfterBackoff` and `launch`
again.  The code hands the generation from one goroutine to the next, so the chain is one
worker with a program counter, and it names the at most one process it has at a time.
`calls[c]` is a request in progress, `reconciler` the `reconcileLoop` goroutine.

| actions | code |
|---|---|
| GetPlatform, CheckConflict, ComputeBlockers, StartRefused / StartAccepted, LaunchReturns | StartBranch, one per unlock |
| StopRefused, StopWithoutProcess, StopProcess, StopReturns | StopBranch |
| NextPlatform, FinishLoop, AfterStart, AfterStop | the loops and continuations of RestartBranch, StartEnabled, StopAll, Forget |
| Untrack, RemovePlatform | Forget and the delete handler that calls it |
| RetrieveKey, Spawn, Attach, Discard, LaunchFails | launch, failStart |
| WatchExit, Settle, Park, ScheduleRestart, AbandonRestart | watchExit, scheduleRestart |
| RetryAfterBackoff, EvaluateRetry, Retry | retryAfterBackoff |
| Reconcile, TakeProcess, KillProcess, KillReturns, EvaluateResume, Resume, ResumeRefused, ResumeReturns | reconcileOnce, attemptResume |
| Progress, SpontaneousExit, TerminatedExit | FFmpeg, process.go |
| BeginShutdown, CancelLifecycle, Drain | Shutdown |

Data kept: the blocker list only as "none", "only the ingest's" or "others", which is all
the code asks of it; the restart times as the number still inside the window, of which any
number may have expired whenever the code prunes it; the time since going live as a choice
wherever the code compares it.  `Forget` deletes a record that goroutines still point to:
the field `detached` and the reconciler's "kill" step stand for those pointers.

### MediaMTXSupervisor

`sup` is the Supervisor record, with `known` for what the last resolution said about the
executable; `binary` is what is on disk.  Workers are again chains: launch, watch, crash,
backoff, refresh, start; or install, publish, resolve, autostart.  The poller of a chain
(`polling`, with its unanswered request in `answer`) runs beside its watcher, as in the
code, and may outlive it.  Two servers cannot hold the same ports: `CheckPorts` fails while
one is listening, and a Control API ping is answered by whichever server is alive.
`Resolve` reports an executable as incompatible when the probe fails or its context is
cancelled.  The end of RequestStop, a failed installation and a finished one write the
record without asking whether a start came meanwhile: the history `past.overtaken` keeps the
generations of the starts they may have overtaken (`Overtake`).  An executable given by STREAMING_TREE_MEDIAMTX_PATH resolves with the same
three outcomes and is not modelled separately.

### IngestSource

The snapshots the supervisor publishes, as the branch manager reads them: "absent",
"receiving", or "stopping" (MediaMTX is no longer ready but the last ingest snapshot still
says receiving, because RequestStop clears it only at its end).  MediaSafety checks that
every step of the supervisor is a step of this machine or a stutter, and BranchManager takes
its three environment actions from it, so what was checked about the supervisor is what
was assumed by the branch manager.

### EngagementBus

An event is its sequence number, and `log` has the deduplication key of each.  A Publish is
numbered in one critical section and then sends to its subscribers one at a time, in any
order (the code ranges over a map), dropping one whose channel is full by `Remove` and the
two steps of `close`.  Subscribe registers in one critical section and replays outside it.
A reader is the SSE handler's loop.  A send on a closed channel ends the program
(`panicked`): no publisher recovers.  An error of newEventID cannot occur with the Go
version of go.mod, whose rand.Read never fails, and is left out.

### StreamSession

`sessions` and `rows` are the two tables, `manager` the copies the Manager keeps in memory,
`tick` the poll, or the recovery, in progress.  Each read or write of the database is an
action, so the process can end between any two of them, and the handler that clears the
history, the deletion of a platform and the world outside come in between.  A close and a
reconciliation visit a map, hence any order.

| actions | code |
|---|---|
| Observe, ObserveBranches | tick up to the lock, and its choice between the branches |
| OpenSession, Heartbeat | openSessionLocked; the update in tick |
| EndParticipation, BeginSecondLoop, SkipParticipation, BeginParticipation, ReconcileEnds | reconcileDestinationsLocked |
| CloseRow, CloseSession | closeSessionLocked |
| Prune | pruneIfDueLocked; the hour between sweeps is a choice |
| Recover, RecoverRow, RecoverSession | recoverOpenSession |
| ClearHistory, DeletePlatform | the HTTP handlers; the cascades of the schema |
| Crash, Restart | the end of the process, by Shutdown too, and Start |

Time is a clock of a few units read once per tick, as in the code.  It does not go back,
which a wall clock may do between two processes.

### OperatorChat

The bus as its one subscriber sees it (EngagementBus models the bus itself): `log` is what
was published, the channel holds positions of it, `replay` is what `Subscribe` has still to
push.  Resubscribe, PushReplay, HandleEvent and AppendRevision are `run` and `handleEvent`;
the revisions of one event are appended in the order the index, a map, is ranged over, and
the item of the event itself last.  A replay is pushed by the goroutine that would read it,
so a replay longer than the channel drops the consumer again.  Two histories say how far the
consumer has got: `newest`, and `inOrder`, which an event from further on does not move and
one from further back takes back.  Subscribers of the projection
itself are served by the primitive EngagementBus models, and left out.

### AlertPlayback and AudioManager

`profile[p]` is `profileRuntime`; its field `calls` is what a handler of the profile, which
holds the profile's mutex, has still to ask of the audio runtime, whose own mutex other
profiles and the renderer take in between.

| actions | code |
|---|---|
| Match, TestRule, EnqueueTest | handleEvent, TestRule and enqueueTest |
| Elapse, Tick, Call | the poll: time, promotion, completion, the hold for audio |
| Pause, Skip, Replay, Clear, Disable, Enable | the operator's commands, applyProfile |
| Ask, Decide, ClearAudio, SkipAudio | the pipeline, Test Speak, Approve and Reject, ClearQueue, Skip |
| AudioTick, SynthesisEnds | tick and the goroutine of a synthesis |
| Connect, Disconnect, Ack | the renderer's session |
| EnqueueAlertAudio, CancelAlertAudio | what the alerts call |

Time is what it makes of the alert shown: its duration is over, and so is the time it may
be held.  An item is its ID: the alert it was made for, for which of its showings, and how many
pieces of the chain follow it.  `syntheses` has the items whose goroutine has not come back
yet, that of the current item and of any number that were skipped, cancelled or interrupted;
it comes back with its own item, which `Discarded` compares with the current one, as
manager.go:505 does.  A late one also forgets the cancel function of the newer synthesis
(manager.go:503), which then cannot be cut short: its result is discarded all the same.
Left out: grouping, deleting a profile, the revisions the
overlays are sent, cooldowns, eligibility, volumes.

### OutboundDispatcher

`call[j]` is a goroutine in `Send`, `answer[j]` its job's buffered channel, `worker` the
goroutine of the account.  Instants are ages, so that time may pass for ever in a finite
model; `delivered` counts the copies of a message the chat may have got: a call that times
out or fails on its way may have left one.

| actions | code |
|---|---|
| Send, Enqueue, Return, CallerLeaves | Send, dispatcherFor, enqueueAndWait |
| TakeJob, Wait, Poll, PollCancelled, Start, WorkerStop | run, process, nextAllowedStart, recordStart |
| AccountRefuses, ProviderAnswers, ProviderRateLimits, ProviderUnauthorized, RefreshEnds | sendOnce, WithFreshToken, recordOutcome |
| CloseManager, CancelDispatcher, ShutdownReturns | Shutdown |

### AccountTokens

A bundle is a number, the n-th the provider has issued, and `parent[n]` the one whose
refresh token was spent for it.  `proc[p]` is a request or the validation worker inside one
call, with the token bundle it holds; `flight[id]` is the entry of `refreshInFlight`.  The
history `replayed` has the bundles whose refresh token was presented after it was spent.

| actions | code |
|---|---|
| BeginCall, BeginValidate, Load, Use, UseAgain, Mark | WithFreshToken, validateAccount, markConnected, markReconnectRequired |
| Refresh, Reload, Present, StoreFresh, Publish, Leave | singleFlightRefresh, doRefresh |
| BeginConnect, StoreConnected, WriteRow, Undo | FinalizeConnection |
| BeginDisconnect, LoadOld, Revoke, DeleteBundle, DropRow | Disconnect |
| Crash | the end of the process |

A request to the provider that fails may have reached it.  The accounts are those of one
user of one provider, which the database keeps unique.

## 3. Runs

Sizes are those of TLC with two workers.

### BranchManager

| run | shows | instance |
|---|---|---|
| BranchSafety | TypeOK, StateAgreesWithDesire, GenerationIsExclusive, DesiredIsSupervised, StopRequestIsNotStale | 1 platform, 3 workers, 2 clients, 3 calls, 1 crash, 1 ingest loss, every fault but a repository's; 2.4 M states |
| BranchBulk | StopAllReachesAll, with deletions and repository errors | 2 platforms, 2 workers, 1 client; 4.5 M states |
| BranchLiveness | WaitingIsResumed, RestartingEnds | 2 workers, 1 client, 2 losses, fairness; 96 k states |
| BranchStopDuringLaunch | violates StopTerminatesProcess | finding |

### MediaMTXSupervisor

| run | shows | instance |
|---|---|---|
| MediaSafety | TypeOK, GenerationIsExclusive, NoOrphanProcess, ImplementsIngestSource (refinement) | 3 workers, 2 clients, 2 calls, 2 crashes, the restart policy on, failing installations, probes, ports, readiness and stops; 3.2 M states |
| MediaSerial | ProgressStatesEnd when requests do not overlap and the policy is off | 2 workers, 1 client, 4 calls, fairness; 0.3 M states |

### EngagementBus

| run | shows | instance |
|---|---|---|
| BusDelivery | TypeOK, RedeliveryIsDropped, NothingLostOrTwice, GapIsHonest, ShutdownClosesAll | 2 publishers, 1 subscription, 3 events, ring and set of 2, fairness; 0.5 M states |

### StreamSession

| run | shows | instance |
|---|---|---|
| SessionHistory | TypeOK with the foreign key, HistoryIsSequential, EndedIsComplete, MemoryMatchesStorage, SplitOnlyAfterGrace, HistoryFollowsIngest | 1 platform, clock of 5, grace window of 2, retention of 1 or 2, 4 changes around the manager, 1 failed read or write, 1 crash, 1 clearing, fairness; 0.35 M states |

### The others

| run | shows | instance |
|---|---|---|
| ChatModeration | TypeOK, ModerationSticks, NewestRevisionIsCurrent, NeverStopsUpdating | 2 accounts, 2 users, 4 events, ring, channel and bus of 2, fairness; 2.5 M states |
| AlertAudio | TypeOK, AudioFollowsAlert, CurrentIsServed, AlertsEnd | 2 profiles, 3 alerts (one a test, one that interrupts, one of the other profile), 1 utterance, queues of 1, 2 commands, 2 showings of an alert, fairness; 1.5 M states |
| OutboundDispatch | TypeOK, SentAtMostOnce, StartsArePaced, EverySendReturns | 3 callers, queue of 1, 2 starts in a window of 3, fairness; 0.7 M states |
| AccountTokens | TypeOK, RefreshTokenSpentOnce, RowHasBundle, StatusSettles | 2 ids, 2 callers and the worker, 3 requests, 3 bundles, 1 failure or crash, fairness; 1.0 M states |

What to read in them:

- GenerationIsExclusive of the supervisor leaves out generation 0: an installation has none.
- ModerationSticks compares the index with what the whole log says of each message, once the
  consumer has been handed the log in its order, from as far back as its last replay took it
  (`inOrder`); for any number of drops and replays.
- NoOrphanProcess asks of every overlap of starts, stops, installations and restarts that each
  running server stay in somebody's hands.  The only exception is a start that the end of a
  stop or of an installation has overtaken, which the code does lose (Findings).
- AudioFollowsAlert is about two mutexes; CurrentIsServed about goroutines that are not waited
  for: comparing the alert instead of the item breaks it when an alert is cancelled during its
  synthesis and shown again.  AlertsEnd holds with a renderer that never comes and a synthesis that never
  ends.
- SentAtMostOnce counts a delivery nobody knows of as one.
- RefreshTokenSpentOnce: a refresh token is presented a second time only when the bundle it
  was spent for never reached the credential store.  The crash and the failed write in that
  place are part of the model, and the reason for the condition.
- StatusSettles: calls write "connected" and "reconnect_required" late, over each other's
  results; the validation repairs it in the end.

`CHECK_DEADLOCK FALSE` is set everywhere: with the inputs bounded and the program shut down
these systems stop.

### The bounds

MaxCalls, MaxCrashes, MaxLosses and MaxEvents bound what the environment does, Workers how
many chains can be alive at once; a start that finds no free worker waits.  Three workers
are enough for two superseded chains next to a current one, two clients for a call inside
another one's unlocked window, and the calls suffice for start, stop, start.  A delay of 1
that doubles once and a window of one restart reach the cap and the restart limit.  The
destinations share nothing but the mutex and the loops of the bulk operations and the
reconciler, so one platform is checked deeply and two only for the bulk operations.  A ring
of two wraps within three events, and its channels and deduplication set overflow.
Subscriptions do not interact but through the map that is ranged over, so one is enough for
what is said of each.  Workers and clients are symmetric in BranchSafety and MediaSafety.
A session needs four changes to begin, end and begin again, or for a
destination to join and leave it; a clock of 5 has room for a grace window between two
sessions and for one of them to be pruned.  Three session ids and four row ids are never
used up there.

A ring, a channel and a bus of two are full after two of four events, so a consumer is
dropped, given the rest again, and may be dropped during the replay.  Three alerts of
different priorities are enough to interrupt, to evict from a queue of one and to have the
other profile hold the runtime.  In OutboundDispatch there are always a job in progress, one
in the queue and one refused; two starts in a window of three make the third wait for each
of the three limits.  An alert may have its sound asked for
twice (MaxShowings), so that a synthesis of its first showing ends during the second.
Two callers and the worker find a token expired together; three
bundles are one connected, one refreshed, and one more of either kind.  Account ids are used
up after the second connection, as if a third were refused.  MaxFaults bounds the failing
accesses and the crashes together: with one, a failure and a crash in the same behaviour are
left to the theorems, which hold for every MaxFaults.

### Fairness

Weak fairness for every goroutine that is inside an operation, and for the exit of a
process that was told to stop (`stop` escalates to a kill).  Strong fairness for the
reconciler's visit of each platform: its ticker goes on and every pass lists every platform,
but a pass over one keeps the others waiting.  Nothing is assumed of clients, of FFmpeg or
MediaMTX while they run, of the publisher of the stream, or of readers of a subscription.
Of the session manager, its loop, its recovery and the clock go on; a process that ended need
not be started again, which is why SessionEnds and ReceivingIsRecorded speak of runs in which
one is.
In AlertPlayback one fairness condition stands for the one poll loop: time passes and ticks
come, but no profile is favoured.  In OutboundDispatcher it is one per caller, one for the
worker with its provider calls, which have a timeout, one for time and one for Shutdown; the
caller need not leave.  In AccountTokens each call goes on, and the worker begins again; in
OperatorChat the consumer runs.

RestartingEnds holds only while repositories answer: retryAfterBackoff returns on a
repository error and leaves the state "restarting" with nobody to retry it.

### Findings

One statement of the documents is kept as a run that violates it, BranchStopDuringLaunch;
PROJECT.json has the sentence, the line and what the run shows.

- A stop during a launch (manager.go:752): there is no process to stop yet, the generation
  stays, and the launch attaches its process to a destination that is not desired.

Others were met while modelling.  The models contain them as behaviours, and the properties
above are worded around them, but no run is spent on each:

- A start while the previous process is stopping (manager.go:424): two
  processes of one destination, of which `docs/project-overview.md:419` says there is one.
- The supervisor's pending restart (supervisor.go:460) starts MediaMTX after a stop,
  against `docs/connecting-platforms.md:161`.
- A channel used outside the lock that decides whether it is open (bus.go:172): a panic,
  where bus.go:75 says that every method is safe for concurrent use.
- Clearing the history during a session (streamsession/manager.go:260): the update of the
  deleted row fails in every tick, before anything else is done, and the session in memory
  is never given up, so nothing is recorded until the program is started again
  (`docs/stream-session-history.md:37`).
- The operator chat's replay is as long as the ring of the bus (100 to 10000), its channel no
  longer than 2048 (engagement/bus.go:47): with a larger ring the consumer can be dropped in
  every replay and reads nothing again (projection.go:184 against the comment at 164).
  ChatModeration takes a channel as long as the ring, with which NeverStopsUpdating holds; the
  panic of bus.go:172 ends the program there too.
- A message can be sent although its caller was told "cancelled" (dispatcher.go:302), which
  errors.go:53 calls "before it started"; and the second call after a refresh is not paced.
- Disabling a profile (playback.go:267) and deleting it (alerts/manager.go:353) leave the
  sound of its alert alone; `docs/alert-audio.md`, section 9, says that linked audio can never
  outlive the alert.  A replay keeps the alert's identity (playback.go:626), where the same
  section says that each instance has a new one.
- A refresh that fails because its caller has gone marks the account reconnect_required, for
  those who waited for it too; service.go:38 says that local state is then left untouched.
- The validation worker's first pass comes after an interval; `twitch.md:89` says when it
  starts.
- A Disconnect beside a refresh or a reconnection, or a crash after DeleteBundle, leaves a
  bundle without a row or a row without a bundle.  RowHasBundle and StatusSettles except
  the latter.

The same patterns have further consequences, which the models contain as behaviours and
which the properties above are therefore worded around:

- Park (manager.go:591) sets waiting_for_ingest on a branch stopped during the settle
  window, so StateAgreesWithDesire says nothing of that state.  CanResume asks for the
  desire, so the branch is not started again.
- Forget (manager.go:879) deletes the counter; a start that had looked the platform up
  creates the entry again and counts from 0, and a chain of the deleted entry can share
  its generation.  GenerationIsExclusive is checked, and proved, without deletions.
- The launch of a pending retry can attach its process after Shutdown stopped its
  destination (manager.go:910); Shutdown then waits until its context runs out.
- The end of RequestStop (supervisor.go:568) clears a record that a start accepted in the
  state "stopping" has taken over: the new server is ready with no current process.
  NoOrphanProcess excepts the starts that were overtaken like this, or by the end of an
  installation, and NoOrphan proves that no other process is lost.
- The supervisor's Shutdown (supervisor.go:743) does not wait for a launch in progress.
- A failed installation turns "incompatible" into "error" (supervisor.go:655), which a
  later start does not refuse.
- Subscribe registers before it replays (bus.go:215), so a new event can come before the
  replayed ones: NothingLostOrTwice speaks of sets, not of order.
- closeSessionLocked writes the end into the session in memory before a write that may fail
  (streamsession/manager.go:332).  If the ingest comes back before the next attempt, the
  heartbeats that follow store a session that has ended and goes on, which retention may
  delete; after a crash it is not recovered.  Most of what is said of StreamSession is
  therefore said as long as no read or write has failed.
- close closes the events before it sends the reason (subscription.go:56), so a reader can
  find the end without it.

## 4. Theorems

Every safety property the runs check is proved.  A theorem holds for every value of the
constants that satisfies the named assumption of its module (identifiers distinct, bounds in
order), and no step is left without a proof.  Three theorems assume more, each about what the
system is asked or what fails around it; the runs have the same limits, and the
findings of section 3 describe what happens without them:

| theorem | assumes | otherwise |
|---|---|---|
| GenerationExclusion of BranchManagerProofs | nothing is ever forgotten | Forget drops the counter with the record, and a later record of the same id counts from 0 again |
| BranchSupervision | nothing is forgotten, repositories answer | the same; and retryAfterBackoff returns on a repository error and leaves a desired branch "restarting" with nobody |
| StopAllIsComplete | one client | a start that overlaps StopAll may come after the list has been made |

The proofs have one form.  An invariant of named parts is stated, and proved of the initial
states and of a step.  Where several parts need the same of an action, each action is first
shown to have one of a few *effects*: what it changes, at which places, and what of the old
state it goes by.  The parts of the invariant are then proved of the effects.

### BranchManagerProofs

Assumed: identifiers distinct, 0 < MinBackoff <= MaxBackoff, the scopes subsets of what
there is.

| theorem | states | argument |
|---|---|---|
| TypeCorrect | []TypeOK | one lemma per kind of actor; what each critical section makes of a record (BranchUpdates) and of the delay (PolicyType) is proved once |
| StateAgreement | []StateAgreesWithDesire | RecordsAgree: both facts are properties of a single record and are proved of each value an action can write (AgreesUpdates), then of each action |
| StopRequestFreshness | []StopRequestIsNotStale | the same invariant |
| GenerationExclusion | []GenerationIsExclusive, if nothing is ever forgotten | see below |
| BranchSupervision | []DesiredIsSupervised, if besides repositories answer | DesiredIsSupervised itself, with RecordsAgree, NoForgetting, NothingRemoved, and what a shutdown has still to do (CallsAtShutdown, DesireAtShutdown) |
| StopAllIsComplete | StopAllReachesAll, an action property | StopAllInv: what is desired is still on the list of the StopAll in progress |

GenerationIsExclusive is not inductive: a worker with a generation the record has not
reached yet would become current by the next start.  The invariant proved is
NoForgetting /\ LaunchedByRecord /\ GenerationIsExclusive, where LaunchedByRecord says that
every active worker's record exists and has at least the worker's generation.  ShapeStep
shows that every step either keeps the generations (and may end workers) or launches one
worker on the next generation of one record; ExclusiveStep shows that both preserve the
invariant.  NoForgetting is needed: Forget drops the counter with the record, and a later
record of the same id counts from 0 again.  The findings above describe that case.

DesiredIsSupervised would be lost by a retry or a launch that gives up because the program is
shutting down.  DesireAtShutdown says that nothing is desired when that context is cancelled,
and that until then Shutdown has on its list whatever is.
StoppingProceeds, shared with StopAllIsComplete, is the loop of both: a destination leaves the
list only to be stopped, and the loop ends only when none on the list is desired.

### MediaMTXSupervisorProofs

| theorem | states | argument |
|---|---|---|
| TypeCorrect | []TypeOK | SupUpdates: what each critical section makes of a record, once; then one lemma per kind of actor |
| GenerationExclusion | []GenerationIsExclusive | GenerationInv: what still runs has at most the record's generation, and at most one has it |
| SuppliesIngest | ImplementsIngestSource | the refinement MediaSafety checks, for every number of workers and clients |
| NoOrphan | []NoOrphanProcess | OrphanInv, with GenerationInv |

A step of the supervisor *retires* what runs (the generation goes up), *launches* a worker
on a generation nobody had, or *installs*; the exclusion is proved of these three shapes, and
each action is shown to have one of them.  For the refinement, the one fact that is not
immediate is that a step can report a publisher only while the supervisor is ready
(IngestReported).

NoOrphanProcess speaks of processes nobody has.  OrphanInv says who has each one that runs
(Held): the launch that is about to attach it, the record, in its own generation, or the
shutdown that took it over; or its start was overtaken.  A process could be lost by a start that
replaces it, and by a resolution that makes such a start possible, so the invariant also says
what the state tells of the latest start (StateTells): while it is launched the state is
"starting" and once it is watched "ready", which a start refuses and a resolution leaves
alone, unless it was overtaken.  RunsInStage keeps the process to the stages that look after it,
Numbered tells the chains of starts from those of installations, and OneShutdown makes the
shutdown the last to take anything over.  WorkersHeld, StartsHeld and CallsHeld prove it of a
step of a worker, of a start and of the other steps of a call.

### EngagementBusProofs

| theorem | states | argument |
|---|---|---|
| RedeliveriesDropped | []RedeliveryIsDropped | DedupeInv: the table holds the newest events, and one that has left it is too old or has its capacity of events behind it |
| GapsAreHonest | []GapIsHonest | RingInv: the ring holds the newest events, as many as fit, the oldest at `start`; GapInv relates what each subscription was told to it |
| BusTypeCorrect | []TypeOK | BusTypes: with the bounds of the channels (Windows), and what a Publish in progress carries (CallsInv) |
| NoneLostNorTwice | []NothingLostOrTwice | DeliveryInv, see below |

RingInv is the arithmetic of `buffer.go`: PushKeepsNewest proves, for every capacity, that
overwriting the slot at `(start + count) % capacity` and moving `start` keeps the order.

DeliveryInv says of every open subscription that what was sent to it, what its replay has
still to push and what the publishers still carry for it are, together and each once, the
events after the one it begins with.  For the replay, AfterEvent shows that what Subscribe
takes from the ring is exactly the retained events after the position asked for, each once.

### OperatorChatProofs

| theorem | states | argument |
|---|---|---|
| TypeCorrect | []TypeOK | strengthened by OnTheWay: the channel and the replay hold positions of the log |
| IndexFollowsRevisions | []NewestRevisionIsCurrent | what each of the three kinds of revision does to the index and to the ring |
| ModerationIsKept | []ModerationSticks | ToldInv: for every message, the index with the revisions still to be appended says what the events handled in order say of it |

The proof is why the property has its present form.  It used to be said of a consumer that had
handled every event, the last one last.  That is not enough, as TLC shows with six events: two
replays, of which the second is cut off, can hand over a message again without the deletion
that comes after it.  `inOrder` is what the consumer must have reached.

### OutboundDispatcherProofs

| theorem | states | argument |
|---|---|---|
| TypeCorrect | []TypeOK | BoundsInv, with the two invariants below |
| AtMostOnce | []SentAtMostOnce | SendInv: a job is in one place, with its caller, once in the queue or with the worker (OnePlace), and nothing was sent for it before the worker lets go of it |
| PacedStarts | StartsArePaced | PaceInv: the worker's list of recent starts agrees with what really started as far as the window reaches (Remembered), oldest first |

### AccountTokensProofs

| theorem | states | argument |
|---|---|---|
| SpentOnce | []RefreshTokenSpentOnce | OneLeader and RotationInv, see below |
| AccountTypeCorrect | []TypeOK | BoundInv: every bundle in a call or an answer has been issued, within the bounds (Counted, Carried), and a refresh in the table is made by a call (Led) |
| RowsHaveBundles | []RowHasBundle | RowInv: an account that is being connected has an id no other call and no row has, and its bundle is stored before the row is written |

The property speaks of tokens that were replayed and bundles that were stored; to be
inductive it must speak of what is on its way between the two.  OneLeader says that at most
one call refreshes an account, and that the table has its entry.  RotationInv says that
a bundle in use has been stored and one about to be stored has not (Known); that a bundle is
of one account (OneAccount); that once the successor of a bundle is stored, the bundle is
nowhere (Rotated); that until then only the account of its leader has it, and nobody presents
it (Rotating); and that what was presented twice has no successor stored or about to be
(Lost, which implies the property).  Most steps only take bundles away (CalmKeeps); the steps
that issue, store or reload one are IssueKeeps, StoreKeeps and ReloadKeeps.  OneAccount is
what a Disconnect or reconnection in the middle of a refresh could break, OneLeader what a
leader that leaves too early could.

### StreamSessionProofs

| theorem | states | argument |
|---|---|---|
| TypeCorrect | []TypeOK | Shape and ForeignKey: the types, and what each program counter leaves in the tick |
| SequentialHistory | []HistoryIsSequential | Times, Recovery, Sequence: a session that has not ended is the latest, and the one in memory |
| CompleteEnds | []EndedIsComplete | Kept: the copy in memory of a session that is stored says what is stored, and every row is within its session |
| MemoryIsStorage | []MemoryMatchesStorage | Copied: while no history was cleared, what is in memory is stored and open |
| NoEarlySplit | []SplitOnlyAfterGrace | Split: a session the ingest ended has been over for a grace window when the next one begins |

The invariant is these layers on top of one another.  StepEffect shows that each action looks,
opens, beats, lets a row join, leave or end, finishes, deletes, recovers or unlinks; each layer
is then a lemma about those effects and uses the layers below it only.  Kept, Copied and Split
hold while no read or write has failed, as the properties do: a failed close leaves a copy in
memory that has ended and goes on (see the findings).

### AlertPlaybackProofs

| theorem | states | argument |
|---|---|---|
| AlertTypeCorrect | []TypeOK | AudioOK, Handled, Recorded: types, lengths of the queues, and that a profile has alerts of its own only (Orderly) |
| SoundFollowsAlert | []AudioFollowsAlert | Sounds: a sound that is queued or played is that of the alert shown, or its cancellation is among the calls the handler has still to make |
| OwnAudioOnly | []CurrentIsServed | AudioOK with Apart, see below |

CurrentIsServed rests on the items being told apart.  Apart says that each item that exists was
made for a showing already counted in `made`, and that no two that are queued, nor one that is
queued and one that is current or was ever promoted and still synthesised, are of the same
showing.  What is promoted next is therefore a new item, for which no goroutine runs yet, and
a late synthesis is not taken for its own.

A handler may show, end, replace and show again several alerts before its calls reach the
audio runtime.  Covers says of a handler that it forgets no sound: what was shown or about to
be cancelled is so still.  It is proved of each step a handler is made of and composed
(CoversChain).  The order of a queue is a recursive function over a finite set; that it lists
what it should is shown by the least place at which it would not (LeastNat), since induction
is not available.

### What is only model-checked

- Liveness, which is out of the prover's reach: WaitingIsResumed, RestartingEnds,
  ProgressStatesEnd, ShutdownClosesAll, HistoryFollowsIngest, EverySendReturns,
  NeverStopsUpdating, AlertsEnd, StatusSettles.
- StopTerminatesProcess, which does not hold (BranchStopDuringLaunch).

## 5. Plan

Done: both supervisors with the interface between them, the event bus, the session history,
the outbound dispatcher, the operator chat, alerts with their audio, accounts with their
tokens; a theorem for each of their safety properties.

Left, in the order of what it would add:

1. An abstract destination (off, wanted, live) that BranchManager implements, with the
   refinement proved.
2. Theorems with weaker assumptions: what remains of DesiredIsSupervised when repositories
   fail, and of GenerationIsExclusive between deletions.
3. Chat automation: timers and cooldowns in front of OutboundDispatcher, which has an action
   for each answer to a Send.
4. The grouping of alerts and the deletion of a profile in AlertPlayback.
5. The device and browser authorisations that end in FinalizeConnection.

## 6. Not modelled

Time is abstracted to the order of events: delays, grace periods and windows elapse at any
moment.  The timeout of the HTTP drain is not modelled: Shutdown begins when no call is in
progress.  The contents of configurations, progress reports, logs and
events are left out, as are redaction and the command line of FFmpeg.  Processes are the
external part of the model: they run, exit, or exit after a signal.  The operating system's
child-process safety net (`runtime/procutil`) is left out: on the systems that have it, it
removes the process the shutdown left behind.  EventsAfter, both Snapshot operations and
EvaluateReadiness only read.  The components without a module are listed with their reasons
in PROJECT.json.

Most of the source has no behaviour of the kind a state machine says something about:
generated protocol code, handlers that decode a request and map an error, configuration,
SQL, the desktop's system calls, the web interface.  The modules cover the parts in which
several actors change the same state, and a smaller part of the lines.

Properties that restate a guard of the code, or that follow from the shape of a module, are
not kept: a state name that implies a field, a bound that one action enforces alone.
