# Formal model of remote-llm-cli

TLA+ modules, TLC runs and TLAPS proofs about the server of this repository
(`src/server`, Go) and the web client that talks to it (`src/web`, React).
The Go server runs `codex` and file synchronisation on remote hosts over SSH,
keeps everything it knows in one JSON file, and streams session events to
browsers. What is hard about the server is not any single handler but how goroutines,
locks, channels, the file and remote processes meet. What is hard about the
browser is that every handler waits for answers while events, other answers and
the user go on, that React shows and stores an older state than the one already
queued, and that the page is reloaded at any time. Both are modelled.

The properties aim at what the repository's own tests can hardly reach:
interleavings of goroutines, lost connections, restarts and failed saves
between two steps, full channels. PROJECT.json lists these hazards line by line
and names the properties that would catch them going wrong.

Line numbers below are those of the commit the model was written from.

## The system

| Part | State it keeps | Operations | Hard behaviour |
|---|---|---|---|
| Store, `internal/store/store.go` | hosts, projects, sessions, keys, run jobs, session events and counters; one JSON file, rewritten by every operation | upsert, delete, append, list, retention (`capTail`), load | memory changes before the save, and the save can fail; a restart returns to the last successful save |
| Session streams, `internal/api/server.go` 1189-1313, 1716-1802, `codex_v2_stream.go` | subscriber channels per session; per stream a replay position `lastSeq` | subscribe, replay, live loop, publish, close | append and publish are two critical sections; backpressure closes a subscriber; replay overlaps the subscription |
| Job queue and workers, `server.go` 994-1107, 1350-1391, 1538-1600, 1834-2096 | job records (stored), a bounded channel of ids, `cancels`, `cancelRq`, the session's last run | enqueue, execute, cancel, recover | cancel races with a worker; a restart between two steps; full queue; failed saves |
| Fan-out and retries, `server.go` 3252-3330, 3630-3681 | results per host, a semaphore of width `fanout` | run on each host, retry, time out | a cancelled run must still report every host once |
| Codex bridge, `internal/codexrpc/bridge.go` | the codex app-server process, connection id, pending calls, subscribers | connect, initialise, call, respond, reconnect, close | process drops at any point, concurrent callers, answers of an old connection |
| Codex notifications and requests, `internal/api/codex_v2.go` 1240-1362, 1364-1470, 1742-1777 | dedupe table with TTL, pending server requests with TTL | persist, list, resolve, prune | two channels consumed independently, dedupe before a write that may fail |
| Session records of codex turns, `codex_v2.go` 647-753, 1205-1229, 1579-1598 | status and last run of each session | start turn, terminal notification, rename, archive | read-modify-write of a whole record around a remote call |
| Project terminals, `internal/api/project_terminal.go`, `internal/executor/terminal.go`, `ssh.go` | process, ring of output frames, subscribers | open, write, resize, replay, close | replay and subscription are separate; send and close race |
| Project git, `internal/api/project_git.go` | none (runs commands over SSH) | status, branches, checkout | none kept between calls |
| Access keys and audit, `internal/accesskey`, `server.go` 271-296, 3731-3790 | keys, audit queue and batch | authenticate, audit | a bounded queue that drops, a batch lost at a crash |
| Runtimes, `internal/runtime` | none (build command lines) | | pure |
| Web: reader of events, `src/web/src/api.ts` 1585-1689 | a line and a frame that have begun | read a chunk, end | chunks end anywhere |
| Web: session tree, `domains/session.ts`, `project-sync.ts` | projects, sessions, timelines; queued, rendered and stored | create, bind, archive, fork, merge the server's lists, reload | updates computed from an older render, lists that land late |
| Web: runs, `session-stream-controller.ts`, `session-run-events.ts`, `use-session-job-polling.ts`, `session-submit-action.ts` and around | stream, cursor, the run that is read, runs that are done, alerts, polls, submission | connect, handle a frame, submit, review, poll, reload, log out | the answer of a turn, its events and polls of it in any order; replays |
| Web: output, `codex-parsing.ts`, `session-run-events.ts` | joined output, reading offset, cards | append, cut, read lines, make cards | pieces of any size, a front that is cut off |
| Web: pending requests, `use-codex-pending-requests.ts`, `SessionPendingRequests.tsx` | lists per session, drafts of answers | poll, type, answer | lists and answers in any order |
| Web: project terminal, `use-project-terminal-session.ts`, `LiveTerminalSurface.tsx` | socket, output, cursor, surface | open, switch, reconnect, type, clear | frames of an old socket, input before the socket is open |
| Web: review, `SessionReviewPane.tsx`, `use-project-review-git.ts` | selection, dismissed notes, git status | select, dismiss, stage, revert, commit | calls that meet, notes that grow |
| Web: operations page, `host-actions.ts`, `project-actions.ts` and around | hosts, targets, form, job | save, delete, poll, log in | stale closures between several requests |
| Web: scrolling, `use-timeline-scroll.ts` | stick, force, count | effect, scroll, jump | a render, an effect and a frame of the browser between two actions of the user |
| Web: shell (palette, shortcuts, composer, layout) | one flag or field each | | none of its own |
| Terminal UI, CLI, admin, soak tool (`internal/tuiapp`, `cmd`) | a view of the server's state | polling | bound to one event loop |

Calls go from the clients to the HTTP handlers; handlers call the store under
its mutex and the server's maps under `s.mu`, never both at once; workers,
notification loops and fan-out hosts are goroutines that append events; the
store is the only state that survives a restart.

Correctness, part by part:

- streams: a client sees the events of a session in order, once, without a gap;
- jobs: a job starts at most once, whatever fails; every job gets a final
  status; a job reported canceled does not run; the session record agrees with
  its last job;
- fan-out: one result per host, at most `fanout` at once, bounded attempts;
- bridge: a call gets the answer to its own request or an error and always
  returns, at most one app-server runs, a lost connection is replaced;
- codex requests: one subscription per host, no message handled twice, a
  request shown as pending is one codex still waits for;
- turn state: a session is not "running" after its turn ended;
- terminals: one shell of a project runs, a client gets its frames once and in order;
- web client: nothing the user saw or typed is lost, a reply is shown once and
  complete, what is shown is of the session, project or file it stands beside,
  the user is told once of the end of a run, and the server receives only what
  the user meant.

## Modules

| Module | What it is |
|---|---|
| `SessionStream` | event log, publication, stream handlers, reconnecting clients |
| `EventFeed` | the abstract feed a client is promised; `SessionStream` implements it |
| `SessionStreamProofs` | type correctness, order of the log and on the wire; that a cursor skips nothing; that the streams implement the feed |
| `JobQueue` | requests, queue, workers, cancellation, recovery of asynchronous jobs |
| `JobLife` | the abstract life of a job record; `JobQueue` implements it |
| `JobQueueProofs` | type correctness; that a job starts at most once and is not orphaned; that sessions agree with their runs; that the records implement `JobLife` |
| `CodexBridge` | the connection to one host's app-server and the calls over it |
| `CodexBridgeProofs` | type correctness; who waits for an answer is known, nobody is forgotten, one process at a time |
| `CodexSession` | what the server keeps of one codex session, fed by the bridge's channels |
| `CodexSessionProofs` | type correctness; one subscription, each message once, pending requests and turn state agree with codex |
| `ProjectTerminal` | one project's shells on the server, their frames, and the handlers of its connections |
| `ProjectTerminalProofs` | type correctness; that a running shell is the one connections are given, that clients get its frames in order and whole |
| `Fanout` | a run on several hosts: the caller, the workers, the retries |
| `Audit` | the queue, the batches and the store of audit events |
| `ServerProofs` | that every host of a run is reported, once and truly; that the audit is in order and counts what it lost |
| `Timeline` | the entries of a session: adding, writing into the running reply, ending it |
| `ProjectSync` | the merge of the server's lists into the tree |
| `SessionTree` | the tree of projects and sessions, queued, rendered and stored |
| `RunPage` | what an event or a poll does to one session of the page |
| `WebRuns` | one session of the server with its runs, and the page: stream, submission, polls, reload, logout |
| `EventStream` | the reader of server-sent events |
| `CodexParsing` | the card a line of output makes, and the command it is part of |
| `RunOutput` | joining, cutting and reading the output of a run |
| `WebRequests` | the pending requests and the user's answers |
| `WebTerminal` | socket, output and surface of a project's terminal |
| `WebReview` | the review pane and the git state |
| `WebOps` | the operations page with the server's records |
| `TimelineScroll` | whether the timeline follows what is added |
| `WebProjectProofs` | that input keeps its order, that output and surface show the shell, that the pane shows what is staged and each note once, that each line of a run's output is read once, that targets are listed and sessions keep their project |
| `WebProofs` | the status of runs, the news of their ends and their replies in the timeline, the frames of the event stream, the lists and answers of requests, the timeline's counter |
| `MC...` | constants of the instances that TLC checks; `MCParts` puts the parts of the web client and the small parts of the server side by side in one run |

`WebRuns` extends `RunPage`, which extends `Timeline`; `SessionTree` extends
`ProjectSync` and `Timeline`; `RunOutput` extends `CodexParsing`.
`WebRuns` and `SessionStream` share the stream of a session: `SessionStream` has
the server's goroutines and takes the client for its cursor, `WebRuns` has the
page and takes the server for a log. `WebTerminal` and `ProjectTerminal` share a
project's terminal in the same way: the first has the drawer and a server that
may skip frames, the second says when the server skips them and takes the drawer
for its cursor. Both together in one state space are beyond TLC.

Conventions. An action is a step between two points where another goroutine can
run: a critical section of a lock, a store operation, a channel operation, a
remote call. Local computation is part of the step before it. A write of the
store and its save are one step with two outcomes, because the store holds its
lock over both. Faults are bounded by a constant that gives a budget to each
kind, so that one instance mixes them and a property can say, by the counters,
under which faults it holds. Operators introduced by a comment that begins with
"Mutation:" are wrong variants of the operator below them; no action uses them,
and each shows, put in the place of the right one, that a property notices.

### SessionStream (`store.go`, `server.go`, `codex_v2_stream.go`, web `features/session`)

State. `sessions`, `log`, `seqOf` are `state.Sessions`, `state.SessionEvents`
and the sequence counters of the store, `disk` what the last successful save
wrote. `pending[a]` is the event a goroutine has appended and not yet published.
`sub`, `buf` are a stream's entry and channel in `sessionSubs`; `phase`, `batch`,
`lastSeq` the local state of its handler; `net` the frames in flight; `cursor`
the client's persisted cursor; `rendered` what it has shown; `closing` the
deletions whose streams are still to be closed. `id` in an event and `lastID`
are ghosts: the order of appending.

| Action | Code |
|---|---|
| `AppendEvent` | `store.AppendSessionEvent` with `capTail` and the save |
| `PublishEvent` | `publishSessionEvent`, closing whoever has no room |
| `Connect`, `ReplayRead`, `ReplayWrite`, `Ready`, `LiveWrite`, `Reset` | the SSE and WebSocket handlers |
| `Drop` | a lost connection: the handler unsubscribes, frames are lost |
| `Receive` | `handleSessionStreamFrame` and the cursor store |
| `DeleteSession`, `CloseStreams` | `handleDeleteSession` |
| `Restart` | the end of the process and `load` |

Abstractions: an event is its session and number; one log query and one written
frame are a step each; the SSE and the WebSocket handler differ in framing only
(and in a check of the session record the client works around); heartbeats and
their timeouts are lost connections at any time; a client handles a frame and
stores its cursor in one step (the reload between the two is a hazard of its
own, planned with `WebStream`).

### JobQueue (`server.go`, `session_binding.go`, `store.go`)

State. `mem` and `disk` are the store in memory and in its file: the status of
each record (`none` when there is none), the session's last run, the final
events told. `queue` is the channel of ids, `worker` the place of each worker
goroutine in `executeQueuedRunJob` or `executeQueuedSyncJob`, `enq` and
`canceler` the places of the HTTP handlers, `registered`, `cancelRq`, `ctxDone`
the server's maps of cancel functions, and `recovery` what `recoverRunJobs` has
still to treat. `added`, `starts`, `answers`, `faults` are ghosts.

Requests: `BindSession`, `AddRunJob`, `EnqueueStoredJob`, `FailFullRecord`,
`FailFullSession`. Workers: `Fetch`, `StartRecord`, `StartSession`, `Register`,
`PrepareFails`, `Complete`, `AnnounceFinal`, `SettleRecord`, `SettleSession`,
`AnnounceUnprepared`, in the order of the code, which differs between a run that
completed and one that could not be prepared. Cancellation: `CancelRead`,
`CancelRecord`, `CancelSession`, `CancelAnswer`, `CancelRequest`. Restart:
`Restart`, `RecoverNext`, `RecoverRecord`, `RecoverSession`, `RecoverEvent`.
`OtherSave` is any other write of the store, which saves what an earlier failed
save left in memory.

Abstractions: what the hosts do is one step with any result; only final events
are kept; the in-memory job event buffer and the metrics are left out.

### CodexBridge (`codexrpc/bridge.go`)

State. `conn` is `connID` with `proc` (0: none), `lastConn` is `nextConnID`,
`closed`, `connecting`, `reconnecting` the flags, `pending` the map of pending
calls, `channel` what is in each call's channel, `thread` the place of each
goroutine in `Call`, `Notify` or `reconnectLoop`, `process`, `inbox`, `outbox` the
app-servers and the lines on their pipes, `drop` what `handleProcessDrop` or
`Close` has still to do outside the lock.

A goroutine's `job` says what it is sending: its request, its notification, or
one of the two messages of `bootstrap`. `ensureConnected` is `EnsureConnected`,
`StartProcess`, `StartFails`, `Install`; `callConnected` and `notifyConnected` are
`Register`, `Write`, `WriteFails`, `Receive`, `TimeOut`; `handleProcessDrop` is
`HandleProcessDrop` (its critical section), `Kill`, `Tell`, `EndDrop`;
`reconnectLoop` is `Check`, `BackedOff`, `Leave`. `waitLoop` and the two loops that
read are `WaitLoop`, `ReadFails` and `Dispatch`. The app-server (`Answer`, `Exit`)
is external: it answers what it has read in any order, with a result or an
error, and may end at any time.

### CodexSession (`codex_v2.go`, publication of `bridge.go`)

State. `entry` says whether `codexBridgeSub` has an entry for the host, `chan` is
the pair of channels of each subscription made, `worker` the goroutine behind
each channel, `once` the `restartOnce` they share, `pending` and `seen` the maps
`codexPending` and `codexNotifSeen`, `record` the run state of the session record,
`handler` the HTTP handlers. `app` is the app-server: the turn it executes, the
requests it waits for, what it has sent.

`Publish` is the non-blocking send that closes a full channel. `TakeRequest`,
`TakeNote`, `Mark`, `AppendEvent`, `ReadRecord`, `WriteRecord`, `Settle` are
`persistCodexServerRequest` and `persistCodexNotification` step by step;
`EndLoop`, `DeleteEntry`, `Resubscribe` are `restart`. `Open`, `AcceptTurn`,
`WriteTurn`, `WriteName`, `CallFails` are the turn/start and rename handlers,
`ResolveRead`, `Respond`, `RespondSubscribes`, `RespondFails`, `ResolveDelete` the
answer to a request. `Expire` and `Forget` are the two ages.

Abstractions: one session; a message is its kind and the turn or request it is
about, so two messages with the same content are one (see the observations);
`stopAll` closes both channels in one step; a turn that fails or is canceled is
one that ended; connections of the bridge are left to `CodexBridge` (an exit
loses the turn and its requests, the next call finds a new process); a new name
is not recorded, only that the older copy of the record is written back.

### SessionTree, ProjectSync, Timeline (`domains/session.ts`, `project-sync.ts`)

State. `cur` is the tree with every queued update, `seen` the tree of the last
render, `stored` the local storage. An operation reads `seen` (its closure, or
`workspacesRef`) and queues either a function of what is queued or a whole tree;
`Render` brings them together, `Reload` starts from `stored`. `held` is what a
handler that waits for the server has in its closure. One action per function of
`useSessionDomain`; `Archive`, `Archived`, `ArchiveDraft`, `Submit`, `BindThreadID`,
`RequestFails` are the handlers of `session-control-actions.ts` and
`session-submit-action.ts` around them. The ghost `said` is what the tree must
still contain.

`Thread` is the first session with an id, `LastThread` the last, as the code that
looks for it does; no session is in two workspaces here.

Seen while modelling: binding the active draft does not always leave the new
session active, although `src/web/e2e/session-ux.spec.ts:3275` expects it (it
stays active when no other update is queued); `activateThread` after a fork
works on the tree of before it (`session-secondary-actions.ts:134`).

### WebRuns, RunPage (`features/session`)

State. `log` and `runs` are the server; `page` the browser with every queued update,
`seen` what is rendered and stored; `cursor`, `stream`, `health` the stream; `submit`
and `polls` the handlers in progress; `place` where the user looks; `cutoff` and
`known` what the last load of the workspace set. The server's side (`Start`,
`Emit`, `End`, `Settle`, `Recover`) appends events; `OpenSocket`, `OpenEvents`,
`FallBack`, `Deliver`, `Ready`, `Close`, `Reset`, `Idle`, `Reconnect` are the stream;
`SendPrompt`, `Regenerate`, `EditAndResend`, `StartReview`, `Accept`, `TurnAccepted`,
`ReviewAccepted`, `TurnRefused`, `ReviewRefused`, `Stop` the submission; `Poll`,
`PollAnswered`, `PollLands` the polling; `Render`, `Leave`, `Relist`, `Look`,
`ClearAlerts`, `Refresh`, `Reload`, `Logout`, `Login` the page around it.

`TimelineFaithful` and `StatusSettles` hold when the stream has caught up, unless
one of these came between (`exact`, `settled`): a reload in the middle of a reply,
or before the last update was rendered (the cursor is stored when it moves, the
timeline when it is rendered); a session that is listed again or replayed after
its runs were marked as done, since `run.completed` then returns early and
leaves it running; an answer of a turn that comes after events of its end, or
before those of the run before; an answer after a logout, which starts a stream
while the page is locked; a lost answer of a turn that runs; a poll that lands (a
second reply is added after the stream completed one, overlapping polls append
the same output twice, a finished job without text is shown as running again, a
failed poll shows a job as failed that runs, and the record of an ended job sets
the status although the page has heard of a newer run, or not yet of this one); a
refresh with an old status; a job
one of whose targets failed is failed on the page and succeeded in the record.
`ToldOnce` holds from login to logout.

Also seen: `run.failed` and `run.canceled` do not ask whether the run is done, so
their entry is added again by a repetition; `session.reset` with an older cursor
does not move the cursor back; reconnecting a local draft starts a stream for it.
`docs/codex-native-ux-contract-v1.md:82` ("Refresh/replay must not emit old
completion bursts.") is what `ToldOnce` is about.

Abstractions: one session; one submission at a time; loading a workspace is one
step; a line of output without text is the first of a run (`thread.started`), which
marks the stream as seen, and other lines without text are not among the events; server and browser agree on the time; the prompt of a submission, its
images and its options, and the modes of a review are left out, and with them the
refusals that only add an entry (they are `Notice`); the creation of a session for a
draft is in `SessionTree`.

### EventStream (`api.ts` 1585-1689)

`sent` is what the server wrote, `wire` what is on its way, `reader` the local
variables of the loop, `phase` the connection. `Write` is external
(`writeSSEEvent`), `Read` one round of the loop, `Finish` and `Break` its two ends.

### RunOutput, CodexParsing (`session-run-events.ts`, `codex-parsing.ts`, `App.tsx`)

The output is a sequence of tokens: a head, a tail and a break for each line.
`Receive` is a piece of output, `Notified` an event of the app-server, `Ready` the end
of the replay, `ClearTerminal` the button. `CodexParsing` has the card of a line
and the pane of commands as folds.

Seen: a piece that is nothing but a line break is dropped
(`session-run-events.ts:286`), which joins two lines (the ghost `whole`); deltas that
are blank are dropped; a reply, diff or delta that comes again with equal text is
taken for a repetition (`codex-parsing.ts:227`, 547, 576); native items whose kind
is in camel case make no card; an event without a run counts for the session's
active run.

### WebRequests (`use-codex-pending-requests.ts`, `SessionPendingRequests.tsx`)

`Ask` and `Withdraw` are the server's; `Refresh`, `ListAnswered`, `ListLands`,
`ListFails` the polling; `Show` the change of session; the actions of `UserNext` the
form; `Accept`, `Resolved`, `ResolveFails` the answer. The lists are sets: their order
is left out, and so is what the page shows of a request's state. The ghosts are
`left`, the requests that were in the list of their session and are no longer, and
`answered`, those that left because they were answered here. `RequestsStayGone` says
that a request that left comes back in one case only: the answer removes it
without a new number of `requestSeqRef` (lines 90-95), so the list asked for last,
when it was computed before the answer, brings it back until the next poll. That
is the code's behaviour and the only one found; the run reaches it. Seen besides:
`resolvingRequestID` is one value, so answering a second request frees the buttons
of the first; drafts are kept by the request's id; a form that could not be sent
shows the message for bad JSON.

### Fanout (`runFanout`, `executeWithRetry`)

`Schedule` is the handing over of a host on the unbuffered channel, `CloseJobs` and
`Return` the rest of the caller; a worker runs (`AttemptSucceeds`, `AttemptFails`),
backs off (`Retry`, `GiveUp`), reports, and goes on or leaves (`Continue`, `Leave`).
`ContextEnds` is the time limit or the cancellation of the job. The module details
the step in which a worker of `JobQueue` executes a run; there the outcome is any.
The ghosts `made` and `last` are what really happened at a host, `late` how many
hosts a worker took after the context was over. Seen: because `select` takes any
case that is ready, a host may still be begun after a cancellation, at most one
per worker; hosts that were not executed are in the response but not in the
progress of the job.

### Audit (`enqueueAuditEvent`, `startAuditWriter`, `AddAuditEvents`)

`EnqueueAuditEvent` ends a request, `Take` and `Tick` are the writer, each with the
save that may fail, `OtherSave` is any other operation of the store, which writes
the same file, `Restart` loses what is only in memory. Seen: nothing closes the
queue, so that an orderly stop loses its events like a crash; the count of
dropped events starts again with the server.

### ProjectTerminal (`internal/api/project_terminal.go`)

A handler goes through `EnsureProjectTerminal`, `StartTerminal` (the process, outside
the lock) and `InstallTerminal` to `Upgrade`, then `Replay`, `ReplayFrame`, `Replayed`
(the first snapshot), `Ready` (the second), `Subscribe`, and from there `StreamFrame`
until it `Return`s. A shell is a record of `shells`, a session and its process
together; `ReadOutput` is `pipeProjectTerminalOutput`, `Exits` and `AppendExit` are
`waitProjectTerminal`. `appendFrame` is in two parts: the frame is numbered and the
subscribers are copied under the lock (`Sending`), and then sent to one by one
(`Send`), in any order with the sends of the other goroutine. `Panic` is a send to a
channel that was closed meanwhile, after which the server is started again with
no shell. `Connect` and `Leave` are the browser's. The ghost `got` is what each client
received, `missed` the clients for whom a frame was passed over. Seen: a client
that leaves while a frame is being sent to it, or whose buffer is full for the
frames of both goroutines, brings the server down; a frame appended between the
replay and the subscription is lost to that client; the exit frame may come
before the last output, which is then dropped or, when it comes later, shows the
drawer as live again; a new shell counts its frames from 1 while the client asks
for those after the last of the old one.

### WebTerminal (`use-project-terminal-session.ts`, `LiveTerminalSurface.tsx`)

`Open`, `SwitchProject`, `Reconnect`, `Clear`, `SendInput` are the user's; `Connected`,
`Frame`, `Ready`, `SocketFails`, `SocketCloses`, `OldSocketFails` the socket's; `Load` is
the library of the surface; `Emit` is external. The ghost `same` turns when the
server skips frames: between replay and subscription, and after a shell has
exited, when a connection starts a new shell whose frames count from 1 while the
browser asks for those after its old cursor. Seen: `socket.onerror` does not ask
whether its socket was closed, so a socket closed while connecting shows an error
for the new project; output that comes before the surface is loaded is not drawn
until the next output; what is typed while the socket is closed is lost. What is
typed on an open socket reaches the shell at once: `InputOrdered` is about the queue
of the page, and the order in which the network brings what an old and a new
socket of one shell carried is not modelled.

### WebReview (`SessionReviewPane.tsx`, `use-project-review-git.ts`, `App.tsx`)

`Arrive`, `Grow`, `RunStarts`, `RunEnds` change the session; `Serve` and `Answer` are a
call of git and its answer; the rest is the user. The ghost `crossed` turns when an
answer is for the project shown before, when a commit is sent while the status
is being read, and when a call was done but its answer lost: the hook numbers no
calls. Seen: lines before the first hunk have its keys, so a note is shown twice;
a dismissed note comes back when the reply it is part of grows; a failed commit
clears its message; nothing refreshes the status after a run.

### WebOps (`host-actions.ts`, `project-actions.ts`, `workspace-auth-actions.ts` and others)

Each handler in progress is a task with the step it waits at and what its closure
holds; `TaskNext` lets it go on, `HostNext`, `ProjectNext`, `UserNext` start one,
`HostLeaves` and `JobRuns` are other clients. `ListsLand` sets hosts, jobs and targets,
`SourcesLand` the projects after a further call, and the active job with them.
On the server `starting` are the sessions that codex has begun and the store does
not have yet; `writing` are those whose record a handler holds (`SessionRead`) until
it writes it back (`SessionWritten`): the start of a turn, a new name, a notification
(`codex_v2.go` 658 and 743, 407 and 424, 1588). `UpsertSession` appends a record that
is no longer there, so a session that was archived meanwhile returns, into a
project that may be deleted by then. One handler at a time holds the record of a
session here; a second could only write back what the first did. The ghost `raced`
is the projects that were deleted between the two steps of such a handler, and
not made again: `SessionsHaveProject` is kept by the store in every other case, with
whatever count of sessions the page had. Seen besides: the form of a host that
another handler deletes stays open, and saving it makes the host again; a reload
that fails after a deletion is reported as a failed deletion; every load selects
the local host again; overlapping loads land in any order.

### TimelineScroll (`use-timeline-scroll.ts`, `SessionTimeline.tsx`)

`Arrive`, `SwitchThread`, `SwitchMode` render, `Effect` is the hook's effect, and
`BrowserFrame` a frame of the browser, which reports scrolling first and runs the
scroll that was asked for. The ghost `away` turns when the user comes back from
the operations page: the timeline is mounted again at its top with nothing counted.
It turns back when the end is on the screen, unless the session was changed on
the operations page: the hook did not run there and holds the former session
until it sees another change.

## What is checked

All runs finish; sizes are distinct states.

| Run | Instance | Shows |
|---|---|---|
| `stream_faults` | 2 sessions, 1 stream, 2 appenders, 4 events, retention 2, channel 1, batch 1; two of: a failed save, a restart, a lost connection, an overtaking publication; 2.3 million | `TypeOK`, `LogOrdered`, `WireOrdered` always; `ReplaySafe` |
| `stream_feed` | 1 session, 1 appender, 4 events, channel 1, batch 2; one restart, one lost connection | the client's view refines `EventFeed` with its fairness: each event once, in order, eventually |
| `stream_overtaken` (violation) | 2 appenders, one overtaking publication | `NothingSkipped` fails |
| `jobs_faults` | 2 jobs (run, sync), 2 workers, a cancel request, queue 1; a failed save and a restart; 0.3 million | `TypeOK`, `StartedOnce`, `NoOrphan` |
| `jobs_life` | 3 jobs, 2 workers, queue 1, retention 2; a restart | records refine `JobLife` with its fairness; `SessionsAgree` |
| `jobs_canceled_runs` (violation) | 1 job, 1 worker, 1 cancel request, no fault | `CanceledNeverRuns` fails |
| `bridge_faults` | a caller and the reconnecting goroutine, 3 processes, 2 exits or read failures, an error answer, Close; 1.8 million | `TypeOK`, `PendingCurrent`, `NobodyForgotten`, `OneAtATime` (`OneProcess` and `OneLoop`) |
| `bridge_returns` | a call and a notification, one failed start, one timeout | `CallsReturn` |
| `bridge_lost_drop` (violation) | 2 exits | `Reconnecting` fails |
| `codex_session` | 2 turns, 1 server request, 1 client, 1 resolver, channels of 1; one fault of any one of six kinds; 0.5 million | `TypeOK`, `OneSubscriber`, `NoEventTwice`, `PendingAgrees`, `StatusSettles`, `Resubscribed` |
| `codex_status` (violation) | 1 turn, no fault | `EndedNotRunning` fails |
| `parts` | the parts of the web client side by side (`MCParts`), each a state machine of its own with the bounds below, and `ProjectTerminal`, `Fanout` and `Audit` beside them; 1.7 million | `PartsTypeOK`, with `OneShell` of `ProjectTerminal`; `TreeFaithful` (`NothingLost` and `OneRunningReply`), `FramesWhole`, `ToldOnce`, `TimelineFaithful`, `StatusSettles`, `EveryLineRead`, `CommandShown`, `CompleteAnswers`, `RequestsStayGone`, `TerminalFaithful` (`OutputFaithful` and `ScreenFaithful`), `InputOrdered`, `NoteOnce`, `StagedShown`, `SessionsHaveProject`, `SeenOrCounted` of the web client; `FramesFaithful`, `FanoutFaithful` (`AttemptsBounded`, `ResultsFaithful`, `EndsSoon`, `NeverStuck`), `AuditFaithful` of the server |

Why the bounds are enough. Each is the smallest at which the case a property is
about happens and at which the broken variant of the code is found: a channel
of 1 overflows at the second event, so backpressure, reset and replay all occur
with 4 events; retention of 2 evicts events a client has yet to replay; batches
of 1 and of 2 cover the full, the short and the empty answer of a replay query;
a queue of 1 is full at the second job; 3 connections let one be lost, its
successor be lost while the first is still being cleaned up, and a third be
made. One fault of a kind usually suffices, since the state after it is again one
where no fault has happened; two exits are allowed where the second meets the
clean-up of the first. Faults of different kinds meet in pairs in `stream_faults`
(`MaxKinds` = 2); in `codex_session` a behaviour has one kind of fault
(`MaxKinds` = 1), which keeps two turns within reach together with liveness.

In `parts` the parts share no state, so a behaviour belongs to one part and
the state space is their sum. The tree has two hosts, two sessions of the server
and a stored tree with a reply that was being written, 3 operations: enough for
a list asked for before a draft is bound and landing after, and for a reload
between. The runs of a session are two turns after each other, a job, or one turn
with more going on, two pieces of output each, one or two faults or actions of
the user (a reload, a logout, a broken connection, a poll, ...) at any point. The
output is three scripts whose lines are cut into pieces of up to 4 tokens, of which
6 are kept, so that the front is cut while a line is unread. Four requests cover
every kind of form, with 2 lists on their way and 5 steps. Two projects and
shells of 2 frames let a frame, a change of project and a new shell meet in 3
steps. The review has patches with and without lines before the first hunk and
notes that name one file, two or none; two projects and 5 steps let two calls of
git cross a change of project. The operations page has 2 handlers in progress.
Three frames in chunks of up to 5 pieces end a chunk at every place of a line and
of a frame. The terminal of the server has one client that connects, leaves and
connects again while the handlers of its former connections go on, a backlog and
a buffer of one frame, and shells of one output frame and the exit: enough for
two handlers that start a shell at once, for a shell that replaces another, for
each of the ways to miss a frame and for a send to a closed channel. The fan-out
has three hosts, two workers and one retry, so that a host waits for a worker; the
audit a queue, batches and a retention of 2 with 6 events, one failed save and
one restart, so that each of them is at its limit. The timeline has 2 changes and
4 moves of the user: to the operations page, to another session, back to the
page and to the former session, after which the hook takes the session for the one
it saw last.

`CHECK_DEADLOCK FALSE` everywhere: when every bounded event, job or turn has
happened the system rightly has nothing left to do.

Conditions in properties. `ReplaySafe`, `NoOrphan`, `SessionsAgree`, `NoEventTwice`,
`PendingAgrees` and `StatusSettles` name, by the fault counters, the disorder
under which the code does not keep them; the runs contain that disorder, so the
conditions are the ones found necessary and not more. The web modules name such
disorder by ghosts that turn as soon as it happens (`exact` and `settled` in
`WebRuns`, `same` in `WebTerminal`, `missed` in `ProjectTerminal`, `crossed` in `WebReview`, `raced` in `WebOps`,
`away` in `TimelineScroll`, `whole` in `RunOutput`, `late` in `SessionTree`); each
is explained with its module.

### Fairness

Weak fairness of every goroutine that can run (publishers, stream handlers,
workers, recovery, the loops of the bridge and the goroutines of a
subscription): the Go scheduler provides it, and every wait in these goroutines
is on a lock, a channel or a condition that the model has explicitly. The client
reconnects (`stream-loop.ts` retries for as long as it runs) and receives what a
live connection carries. A running app-server answers what it has read; what it
does not answer in time is a `TimeOut`, which is a bounded fault and needs no
fairness. The web modules state safety only: what must eventually happen there
depends on answers of the server and on the user. Nobody is obliged to append an event, submit or cancel a job, start a
turn, call, close or delete.

## What is proved

For every value of the constants that satisfies the named assumptions
(`StreamAssumption`, `JobAssumption`, `BridgeAssumption`, `SessionAssumption`; the
other components assume nothing but what the table says): any number of sessions,
streams, appenders, jobs, workers, cancel requests, callers, processes, requests,
clients, any capacities, any fault budgets. Each inductive invariant was also
model-checked on an instance of its component.

| Theorem | Property | Hypotheses |
|---|---|---|
| `TypeCorrect`, `LogStaysOrdered`, `WireStaysOrdered` | `TypeOK`, `LogOrdered`, `WireOrdered` of `SessionStream` | |
| `NothingIsSkipped` | `ReplaySafe` | |
| `StreamsImplementFeed` | the safety of `EventFeed` (`ImplementsFeed`) | nothing deleted, no failed save, no overtaking publication, no eviction |
| `JobTypeCorrect`, `JobStartsOnce` | `TypeOK`, `StartedOnce` of `JobQueue` | |
| `NoRecordOrphaned` | `NoOrphan` | `RunJobsMax <= RecoverMax` |
| `SessionsShowTheirRun` | `SessionsAgree` | |
| `RecordsImplementJobLife` | the safety of `JobLife` (`Life!Spec`) | no failed save, no cancel request |
| `BridgeTypeCorrect`, `PendingIsCurrent`, `NobodyIsForgotten`, `OneProcessAtATime` | `TypeOK`, `PendingCurrent`, `NobodyForgotten`, `OneAtATime` of `CodexBridge` | |
| `SessionTypeCorrect`, `OneSubscriberAtATime`, `EventsAreStoredOnce`, `PendingRequestsAgree`, `StatusFollowsTurns` | `TypeOK`, `OneSubscriber`, `NoEventTwice`, `PendingAgrees`, `StatusSettles` of `CodexSession` | |
| `RunningShellIsKnown` | `OneShell` of `ProjectTerminal` | |
| `TerminalTypeCorrect`, `FramesReachClients` | `TypeOK`, `FramesFaithful` of `ProjectTerminal` | sizes are natural numbers |
| `EveryHostReported` | `AttemptsBounded`, `ResultsFaithful`, `EndsSoon` of `Fanout` | hosts and retries are counted by natural numbers |
| `AuditIsInOrder` | `TypeOK`, `AuditFaithful` of `Audit` | sizes are natural numbers, a batch holds an event |
| `InputKeepsOrder`, `TerminalShowsItsShell` | `InputOrdered`; `OutputFaithful`, `ScreenFaithful` of `WebTerminal` | |
| `StagedIsShown` | `StagedShown` of `WebReview` | |
| `NotesShownOnce` | `NoteOnce` of `WebReview` | parts, changes and diffs are lists; the number of entries with notes is natural |
| `ReviewTypeCorrect` | `TypeOK` of `WebReview` | the same lists; changed paths are paths |
| `GoneRequestsStayGone` | `RequestsStayGone` of `WebRequests` | requests have ids of their own, and each is of a session |
| `SessionsKeepProject` | `SessionsHaveProject` of `WebOps` | |
| `TargetsAreListed` | `TypeOK`, `TargetsListed` of `WebOps` | sizes are natural numbers |
| `AnswersAreComplete` | `CompleteAnswers` of `WebRequests` | requests, and the questions or fields of one, have names of their own; no text is `__other__` |
| `StatusIsSettled` | `StatusSettles` of `WebRuns` | runs are positive numbers |
| `EndsToldOnce` | `ToldOnce` of `WebRuns` | the same; the page remembers as many ended runs as there are |
| `TimelineIsFaithful` | `TimelineFaithful` of `WebRuns` | the same numbers; a run is a turn, a job or neither; an entry without a text has the empty sequence; how many ended runs are remembered is natural |
| `FramesArriveWhole` | `FramesWhole` of `EventStream` | |
| `LinesReadOnce` | `EveryLineRead` of `RunOutput` | sizes are natural numbers; no event names the job as its run |
| `DrawerTypeCorrect` | `TypeOK` of `WebTerminal` | sizes are natural numbers |
| `NothingPassesUnseen` | `SeenOrCounted` of `TimelineScroll` | the cap of the counter is not 0 |
| `ScrollTypeCorrect` | `TypeOK` of `TimelineScroll` | the same; moves are counted by natural numbers |

With the type invariants, these are all the invariants that the runs of the four
large server components check, and the safety of the small ones.

Four hypotheses exclude something the code allows, because the property fails there:

- `NoRecordOrphaned`. Recovery looks at the 1000 newest records (`server.go:1550`).
  Retention keeps 1000 by default (`store.go:21`) but may be configured up to 50000;
  with `RecoverMax` = 1 and `RunJobsMax` = 2 TLC finds a record that recovery
  never reaches.
- `RecordsImplementJobLife`. A cancel request that meets a worker which has
  fetched the job makes a canceled record run (`jobs_canceled_runs`), and a failed
  save lets a restart take a record back to an earlier status.
- `StreamsImplementFeed`. The contract counts 1, 2, 3, ...; the code does not
  make up for what was evicted, deleted, lost with a failed save or published out
  of order (`stream_overtaken`). Restarts, lost connections, full channels and
  resets are all in.
- `EndsToldOnce`. The page keeps the last MaxDone runs that ended; an end it no
  longer remembers is told again when the log is replayed.

### The arguments

**SessionStream** (SessionStreamProofs). `IInv` is `TypeOK`, `LogOrdered`, `WireOrdered`
with `IDsBounded` (no event is newer than the last one appended) and
`BatchConnected` (a handler with a batch left is in its replay). `TypeOK` alone is
not inductive: that the rebuilt counters exist after a restart needs the bound of
the saved events by the saved counters, which is `LogOrdered`. A restart is the
interesting case of the log (`LoadedSeqIsSaved`: raising a saved counter to its
newest event never changes it), the write of an event above `lastSeq` that of the wire.
`SafeInv` adds `Path`: an event of the log that the client has not seen is on
the wire, or the handler's `lastSeq` is below it and it is still in the batch,
still to be queried, in the channel or yet to be published (`Covers`), and
events are published in the order of their numbers (`OneOrder`). That a query
of the oldest events above a cursor leaves out no older one rests on the least
element of a set of numbers (`Smallest`). `FeedInv` adds that the log holds 1..n
(`LogWhole`), that a frame carries the number of its event (`FramesHonest`) and
that a client has rendered 1..cursor (`InStep`); a step of the system is then a
step of the feed or a stutter.

**JobQueue** (JobQueueProofs). `OnceInv` says that before it executes a job is in one
place only: with the request that creates it, once in the queue, with one
worker, or ahead of recovery (`NoRepeat`, `OneHolder`, `OnePlace`); that it has not
started while it is in one of them (`NotStarted`); that no record in memory or
in the file is pending once a worker has stored it as running (`NotPending`, which
is why the worker must give up when that save fails); and that a request still
to come has no record (`NewUnwritten`). Most steps only remove a job from places;
`NarrowsOnce` treats them at once. `OrphanInv` says that while saves succeed the file
is the memory, every record that is not final is pursued by a request, the
queue, a worker or recovery (`Pursued`), and that no record in the store has
`RunJobsMax` newer ones, so that recovery sees all of them. `AgreeInv` follows a run
through the three writes that end it: at each place of a worker it says what
record, session and events show (`WorkersAgree`), and beside them that the last
run of a session nobody is at is settled (`LastAgrees`, `ToldAgrees`). `LifeInv` adds
that a job that was fetched is pending and that one which recovery treats is
nowhere else; each step then moves one record along its life or none.

**CodexBridge** (CodexBridgeProofs). `BridgeInv` says that one goroutine connects
(`ConnectingAlone`), that a connection that may still be used has not been dropped
(`DropFresh`), that a reconnecting loop is started once and by one dropped
connection (`LoopOnce`), and that a process that runs and is not about to be
killed is the bridge's or in the hands of the goroutine that started it
(`ProcessKnown`): `OneAtATime` follows. For the requests it says that a pending one
belongs to a goroutine that waits on the present connection or is about to stop
waiting (`PendingOK`), that identifiers not yet sent have never been used, so that
no answer to an earlier one is taken for a later one's (`Fresh`), and that a
goroutine that will wait has its request in the map, its channel filled, or its
drop under way (`Reached`).

**CodexSession** (CodexSessionProofs). The types hold which messages a channel and a
goroutine of each kind can hold (`Typed`). `SubsInv`: of the two goroutines of a
closed subscription one leaves (`OneLeaves`, the `sync.Once`), older subscriptions
are replaced (`OnlyCurrent`), and the entry of the map is the current one's
(`EntryOfCurrent`). `EventsInv`: while the dedupe table keeps its keys, a message
has been stored or is being stored at most once, and only after it was marked.
`PendingInv`: a request codex waits for is in the map, on its channel or with the
goroutine that will put it there (`Waiting`), and what has been handled as settled
is in neither. `StatusInv`: messages of turns are queued, marked, handled and seen
in the order of the turns (`InOrder`), so that the record follows the newest one
handled (`RecordFollows`), under the conditions that `StatusSettles` names.

**ProjectTerminal** (ProjectTerminalProofs). `OneShell` is inductive beside the types: a
shell begins to run only in `InstallTerminal`, which makes it the project's and
finds that the former one does not run. `FramesInv` says what a handler knows of its
shell and client (`Known`), that what it has sent, will send and holds is rising
(`Ordered`), that an appender that owes a frame to a subscriber has not been
passed by a later one (`Early`), and that nothing between the client's cursor and
the end of the shell is missing unless `missed` says so (`Whole`).

**Fanout, Audit** (ServerProofs). `FanInv` says of a host that was handed over that it
has its result or that a worker, one only, is at it (`HostOK`, `Alone`), and of a
worker at a host that it has made the attempts it counts (`WorkerOK`); when all
workers are gone every such host has its result. `AuditInv` says that store, batch
and queue, one after the other, rise (`InOrder`), so does the file, and that until
a restart each event offered is in one of them or counted.

**Web client** (WebProjectProofs, WebProofs). `InputInv`: what was heard and what waits
for the connection are in the order of typing, all that waits was typed after
all that was heard, and nothing waits once the connection stands, so that input
sent at once overtakes none. `ShownInv`: the socket in use asked for what comes after
the cursor and belongs to the project's present shell (`SocketCurrent`), the
output is the frames from the base to the cursor (`OutputWhole`), and what the
surface has written is the output or nothing (`Draws`). The types need besides that
shells and cursor stay within the frames there are, and that the output is no longer
than what lies between base and cursor (`OutputBounded`). `ReviewInv`: a call that met
no other is the only one that is out, of the project that is shown, keeps the
buttons disabled, and once done carries what the repository has (`AloneOrMixed`);
a known status agrees with the repository unless calls `crossed` or a call that
changes files is out, whose answer sets the status or `crossed` (`StatusAgrees`).
Of notes `TimelinesTyped` is all that is needed of the state: in a diff without
lines before its first hunk no two lines have the same key (`KeysDiffer`), so that
the line chosen for a note is one line, and a note that finds none is at its file
(`NoteHasPlace`). `PaneInv` says that the pane's selection and marks are among what it
can show, because every change of the timeline, the git status or the mode is
settled at once (`Settled`).
`ListInv`: a request that left its list is over at the server; the answer to the list
asked for last lacks only requests that are over and has none that left before, but
those that were answered since it was computed (`LatestTells`); other answers are
dropped (`IsLatest`), and no two lists have one number. `RecordsInv`: a session that
is recorded, is being started, or whose record a handler holds has its project, or
the project was deleted under such a handler since. `OpsInv`: hosts have ids of
their own that were given out (`HostsInv`), so have those in the lists that handlers
hold (`TasksInv`), and what the page has selected is of the hosts it lists, which
change only together with the selection (`PageFits`). `ScrollInv`: the hook holds an
earlier state of the session it saw last (`HookSound`), which is the one shown
unless it has still to look or was not told (`HoldsShown`), so that what is not on
the screen is counted or found at the next look (`NotLost`). Attempting this proof
showed that the property as it stood was too strong: after a change of session
on the operations page the hook still holds the former session, and a return to
that one is no change to it. The ghost `away` covers this now, and the
run makes 4 moves with 2 changes of the timeline, where it happens.

`RunsInv` relates the page, the stream and the server's runs. The log has the events
of one run after another, each begun and ended at most once, and says what the
records say (`ServerInv`); the cursor is in the log (`StreamInv`); while nothing that
the page cannot order came between (`settled`), the page has the run of the last
event it heard as running, or that run's outcome once its end was heard, or is
about to hear a run begin (`PageInv`); what an answer carries of a run is so for
good (`SubmitInv`, `PollsInv`), and the hints of a failure are of a run that failed
(`Hinted`). Once all is heard the last event is the end of the last run or that run
goes on. Attempting this proof showed a poll the model had wrongly
counted among those that do no harm: the record of an ended job sets the status
although the page has heard of a newer run. `ToldInv` adds that who was told of a
run has it among the runs that ended, which forgets none while it has room.

`TimelineIsFaithful` needs what is in the log as well. `LogWritten`: of each run the
log has the pieces 1..n, each once and in order, as many as its record says
(`PiecesWritten`, `PiecesInOrder`), nothing of it but ends, told again by a catch-up,
and `assistant.completed` after its end (`EndsLast`), and a failure of a target before the end of a run that did not go
well (`EndsTold`). The `ShownInv` of this part says that for some number of pieces
heard of each run (`Spoke`) the run of the page is the one that goes on, with the
text heard of it, its failure if one was heard, and no final answer yet (`RunRead`),
and that the timeline has one reply for each run with a text, in the order of
the runs, of which the one that goes on is the only one still running
(`ShowsText`). The replies are paired with their runs by a function, not counted:
a piece then changes one reply or adds the last, and an end closes that reply
with what its text is for good (`TextHeard`, the fallback for a run that succeeded
without a text). While `exact` holds, what is heard comes after the cursor, and the
page goes back to the cursor 0 only with an empty timeline and no run done, so
nothing is heard twice. When the cursor has reached the end of the log, what was
heard is what was said. The property was once stated as equality with a folded
sequence of replies; pairing replies with runs says the same, and can be proved
without induction over the timeline.

`ArrivingInv` of the event stream: were the reader given all that is under way, it
would have what it would have if given at once all that was sent (`Arriving`),
because reading one piece after another is reading their concatenation
(`ConsumedTwice`). `ReadInv` of a run's output: what is kept is in the order it was
written (`InOrder`), what is after the offset was written after every line that was
read (`Past`), and while nothing was lost the lines read are the complete ones up
to some line (`Reached`), after which the rest of the run goes on (`Follows`).
`AnswersInv`: what a draft has chosen for a question is one of its options, other
text or nothing, so that what validation lets pass is complete, and so is every
answer that is on its way or has arrived.

Some of these rest on what folds and recursive functions compute. The library's
induction theorems cannot be cited, but for one given step the argument by the
smallest counterexample can be made (`Smallest`: a set of numbers that is not empty
has a least one), and the lemmas about `FoldLeft` and `LinesAfter` are proved so. Two
definitions changed for these proofs: `LinesAfter` is a recursive function, and a
CASE of `EventStream` whose alternatives overlapped is an IF. So did two others: the
filters of `WebReview` are a recursive function (`Those`), and `DeleteHost` removes the
first host with the id, as the code does.

### What is only model-checked

Liveness and everything that rests on fairness is out of the prover's reach:
`Resubscribed`, `CallsReturn`, `NeverStuck`, and the fairness of `EventFeed` and `JobLife`
in the runs `stream_feed` and `jobs_life`. Of the web client `TreeFaithful`
and `CommandShown` are model-checked, for they rest on what SelectSeq and nested
folds compute for every input, and so are the
type invariants of `SessionTree`, `WebRuns`, `RunOutput`, `WebRequests` and `EventStream`. With one or
two operations more than `parts` has, the parts of the web client were also run
each by itself, without a violation.

A nested EXCEPT whose inner update uses `@` is read wrongly by the proof manager;
no definition that a theorem depends on contains one.

## What the violations show

Each is a behaviour of the code against a sentence of its documentation or
tests, listed under "findings" in PROJECT.json.

- `stream_overtaken`: two appenders of a session publish in the other order
  than they appended; the stream handler's `lastSeq` guard drops the earlier
  event for good, and the client's cursor passes it.
- `jobs_canceled_runs`: a worker has fetched the job when the cancel request
  records "canceled before execution"; the worker's copy replaces the record and
  the job runs.
- `bridge_lost_drop`: the new connection is lost between the decision of
  `reconnectLoop` to end and its deferred function; no loop is started.
- `codex_status`: the turn/start handler writes the record it read before the
  call back as running although the turn has ended meanwhile.

Seen while modelling, without a run of their own: a deleted session whose
appenders are still running is numbered from 1 again, below the cursors of its
clients; an event whose save failed stays in the log unpublished; after a
restart between a job's last two writes the session shows it as running for
good, and a run that had announced success is announced as failed as well; a
bridge call is sent again after an error answer, not only after a lost
connection as the comment in `Call` says; two codex notifications with equal
content (two equal deltas of a message) count as duplicates; the end of a turn
clears the requests of the session's next turn, and a request that is put into
the map after its turn ended stays until it expires; when the event of a
terminal notification cannot be saved, the run state and the pending requests
are not updated and a repetition is dropped as a duplicate; a session record deleted
between a handler's read and its write comes back, without its project when that was
deleted as well (`raced` in `WebOps`); a poll of an ended job that
lands late overwrites the status of a run the page has heard of since.

## What is not modelled

The components with status not_modelled in PROJECT.json say why, one by one.
In short: command construction, git and rsync are pure or stateless; CRUD
handlers are single store calls; the terminal UI and the command line tools
are single event loops over the HTTP interface. Of the web client the shell is
left out (layout, shortcuts, the command palette, the composer), whose handlers
set one piece of state or call an operation that is modelled, and everywhere the
wording and formatting of what is shown.

## Plan

In the order of importance; all are done.

1. `SessionStream` with `EventFeed`; proofs of order, of safe replay, of the refinement.
2. `JobQueue` with `JobLife`; proofs that a job starts once and is not orphaned, that
   sessions agree with their runs, of the refinement.
3. `CodexBridge`; proofs of its four invariants.
4. `CodexSession`; proofs of its five invariants.
5. `ProjectTerminal`; proofs that no shell goes on unseen and frames reach clients.
6. The web client: `Timeline` to `TimelineScroll` and `MCParts`; proofs for
   `WebTerminal`, `WebReview`, `WebRequests`, `WebOps`, `TimelineScroll`, for the status,
   the ends and the replies of runs in `WebRuns`, for `EventStream` and the reading in `RunOutput`.
7. `Fanout` and `Audit` with their proofs.

Next would be the composition of `Fanout` with `JobQueue`.

Proofs next: the parts of `TreeFaithful`, once the filters of `SessionTree`
are recursive functions; then `CommandShown`, which needs what the nested folds of
`RunOutput` make of the lines that `LinesReadOnce` says are read.

Runs stay few: a new module gets one run that mixes its faults and checks its
liveness where the state space allows, and a second one only for a disagreement
with the documentation. `bridge_returns` can join `bridge_faults` when another run
is needed.
