# numbat: a verification project

TLA+ models of the numbat daemon (`numbat-core`), the TLC runs that check them on
small instances, and proofs that TLAPS checks for every instance. Definitions
are translated from the Go source; `PROJECT.json` maps each of them to its lines, lists
the runs, the mutants that show that each property can fail, the hazards the
properties are aimed at, and what the runs found.

## 1. The system

`numbat-core` is one process. Clients (a TUI, a web page) hold a WebSocket connection
and speak JSON-RPC; every request runs in a goroutine of its own. A run is a
ReAct loop: ask the model, execute the tool calls of its reply in parallel, append the
results, go on. Tool calls pass a permission gate that may ask a human. Everything that
happens is published on a synchronous event bus, whose first subscriber writes the run's
trace file and whose second forwards events to subscribed connections.

| Component | State it keeps | Operations | Talks to |
|---|---|---|---|
| permission manager (`permissions`) | `pending` map of channels, `sessionAlways`, `persistentAlways`, `policy.toml`, `mu` | `CheckAndWait`, `Respond`, load and save of the policy | invoker calls it and blocks; RPC handler answers it |
| agent loop (`loop`, `context`) | `ExecutionContext`: messages, step, status, reason, last reply | `Run`, `act`, `compactIfNeeded` | LLM client, invoker, compactor, bus |
| tool invoker (`tools`) | none of its own; one goroutine per call | `Invoke`, `executeWithRetry` | permission manager, tools, bus |
| run registry (`transport/run_cancel.go`) | run id -> cancel function | `Register`, `Done`, `Abort` | RPC handlers |
| session manager and store (`session`) | map of sessions, `meta.json`, `thread.jsonl`, one lock per session | create, get, clear, close, update, append, read, write compacted | RPC handlers |
| compactor (`compact`) | none | summarise a history, replace it | loop, `session.compact` |
| event bus (`events`) | handlers by type | `Publish` (synchronous, in order) | everything publishes |
| trace (`trace`) | one open `events.jsonl` per run | append, read and summarise | bus, replay |
| server (`transport/server.go`, `websocket.go`) | subscribers by connection, a buffered channel and a writer each | subscribe, replay, broadcast, clean-up | bus, connection |
| gateway (`transport/gateway.go`) | listener, rate limiter per connection | upgrade, shutdown | server |
| LLM client (`llm`) | none | streamed request with retries | loop, compactor |
| sub-agents (`subagent`) | background tasks | spawn, query | a second loop on the same gate and bus |
| tasks (`task`) | one JSON file per task | create, update, complete | tools |
| channels (`channel`) | a queue per sender, Telegram offset | connect, poll, dispatch, disconnect | a handler that runs an agent |
| MCP client (`mcp`) | one process, next id, line buffer | call, notify, close | tools |
| terminal client (`tui`, `cmd/numbat-tui`) | connection and its status, waiting calls, the current run, the pending permissions and the dialog | call, send, abort, answer, reconnect | server |
| web client (`webui`) | pending calls, connection status | call, reconnect | server |

What is hard in it:

- goroutines of several requests work on one session and on one permission manager,
  and no lock spans a whole request;
- an answer, a timer and a cancellation race for the same tool call;
- replay and live events are two streams into one bounded channel that three places close;
- a crash cuts a file at any point, and files are rewritten in place;
- a sub-agent is a run inside a tool call: retries start another one, an abort reaches it
  through its context or, in the background, not at all;
- the terminal client's state follows events and answers that come in no fixed order
  over a connection that can go at any moment;
- retries repeat tools that may have had effects, and an abort can land between
  any two steps.

What makes each part correct: the gate cannot be bypassed and every question ends; every
request to the model is well formed; a run ends once, truthfully, and leaves nothing
running; what a session stores can be read again, nothing saved is lost without
an order to, and status and run ids survive a restart; a channel is closed once, events come
in order, a loss is never silent, and a connection is cleaned up; a sub-agent ends, does not
outlive the call that waits for it, and is reported as what it was; a message from
a channel is processed once and in order; Esc reaches the run it is meant for, a question
does not vanish from the screen, and the client gets ready again.

## 2. Modules

| Module | Models | State and actions |
|---|---|---|
| `ApprovalGate` | abstract: what the gate promises | need, verdict and consent of each call; open, consent, grant, refuse, reset |
| `Permissions` | `permissions/manager.go`, `policy.go` | `pc` splits `CheckAndWait` where another goroutine can get in: lookup, registration, `select`, what follows it, and the two halves of a save, during which `mu` is held. `INSTANCE ApprovalGate` gives the refinement |
| `Messages` | pure code on conversations: `act`, the end-of-step judgement, compaction, `trimOrphanToolUse` | a message is its role, the ids of its calls or results, and who wrote it |
| `RunSteps` | abstract: a run as whole iterations | one variable, one action |
| `AgentLoop` | `loop.Run`, `Invoker`, `runWithCancellation`, `runCanceler` | `pc` of the run's goroutine, one record per tool goroutine, the registry entry, the context. It implements `RunSteps`, which is what `Session` uses for a run |
| `Session` | the session handlers of `transport/handler.go` with `session.Manager` and `session.Store` | the map entry, the two files, one slot per `send_message` with its private copy of the session, `clear` and `compact` in two halves, crashes that leave torn files |
| `EventStream` | `transport/server.go`, `websocket.go`, the trace before the broadcast | one record per `event.subscribe`: handler, channel, flags, writer; the map entry of the connection, its reader and the deferred clean-up |
| `Subagents` | `subagent/spawn.go`, the retries of `tools/invoker.go` around it, `trace/reader.go` | each run of a tree: where its loop is, its status, whether its context is cancelled; each call of `spawn_agent` with its tries; the registry of background children; the trace file of each run; `ListRuns` and `agent_result` as operators on them |
| `Channels` | `channel/manager.go`, `telegram.go`, `router.go`, the shutdown in `app.go` | the platform, the poll goroutine with its offset and batch, the receive channel, the read loop, one queue and worker per sender, the process |
| `Tui` | `cmd/numbat-tui/model.go`, `keymap.go`, `tui/client.go` | the fields of `model` that `Update` reads and writes, the client with its events channel, `connectCmd` or the timer, one record per goroutine of a command; the server as the events and answers it may send |
| `PermissionsProofs`, `AgentLoopProofs`, `SessionProofs`, `EventStreamProofs`, `SubagentsProofs`, `ChannelsProofs`, `TuiProofs` | theorems about the module each is named for, see 6 | |
| `MC*` | constants of the runs | |

How they compose: `AgentLoop` takes the gate's answer as any answer; `Permissions` is the
inside of that answer. `Session` takes a run as `RunSteps!Iterate`; `AgentLoop` shows
that the loop with its goroutines, retries and cancellations is that. Both use
the same operators of `Messages`, so a change of the loop's rules changes what `Session` stores.
`Subagents` keeps of a loop only that it asks, acts and ends, which is what `AgentLoop` shows of
one. `Tui` takes from the server any order of events that `AgentLoop`, `Subagents` and
`EventStream` allow, and more: the cut of a slow subscriber is one of its actions.

Choices worth knowing:

- A shell command is one of "inside", "outside" or "rm": the patterns and the
  outside-cwd expressions are sets of commands. A decision sent to `permission.respond`
  may be any text; "unknown" stands for all that are none of the four.
- In `ReplyKinds` any stop reason may come with tool calls, as `parseSSE` returns whatever blocks it
  has read: `end_turn` because it is its initial value, left when a stream ends before
  `message_delta`, and "other", which stands for every reason the code does not name. Chat's
  answer to such a request is any reply or an error, like any other.
- `Permissions`: a save is `os.Create` and the encoding. Either may fail, which is only logged; what
  is in the file after a stop or a failure during the encoding is any part of the table.
- A history variable never guards an action, except where it is a named bound (`MaxAborts`, `MaxEvents`).
- `EventStream` takes every event to match topic and scope, and only requests that
  subscribe; `CleanUp` assumes that other requests of the connection end. A replay ends without an
  error at a line of more than 4 MB (`TooLong`); lines it cannot parse and skips are not
  modelled, as nothing writes them. Between
  two subscriptions goroutines may start in any order. A writer leaves when a write fails,
  which the ten-second deadline makes possible at any write.
- `Subagents` names a run by its call and its try. A call records what its tool was made with, the
  depth of its children, and the runs whose cancellation reaches them, which are the caller's
  own chain of contexts for a foreground child and none for a background one. A reply starts
  one or two calls at once. `run.list` reads the files one after the other while they grow; as
  every statement about a run comes from its own file and its parent's place in the
  list, an operator on one state says what such a reading can show of each.
- `Channels`: the answer of a poll is taken as a whole (the limit of 100 updates is left out);
  a lost answer may or may not have confirmed its offset. `process` is one step: its
  handler is a stub in this version, so no run starts from a channel.
- `Tui`: help and browse mode only take keys away. Ten minutes are a time out that may come at any
  moment, also for `event.subscribe`. `permission.granted` and `permission.denied` are one event.
  A client whose `Subscribe` has failed is used again: its connection is replaced but not
  closed, and `client.old` counts the `readLoop`s left over (at most `MaxLoops` run at once),
  `client.joined` those that have gone over to the current connection, as `readLoop` reads
  `c.conn` anew for each message. Two that read one connection, which the WebSocket library
  forbids, may lose a message. The answers such a loop gets late are modelled; the events
  of an earlier connection whose subscription was made after all are not, and nothing is
  said of Esc's target while such a client is in use.
- A torn line in `thread.jsonl` has no newline: the next line appended is glued to it and
  both are lost, as the reader skips what it cannot parse.

## 3. Runs

| Run | Instance | States | Result |
|---|---|---|---|
| `permissions` | two slots for calls, two sessions, two tools, commands plain, outside and denied, two policy files to start from, failing saves | 1.05 million | holds |
| `permissions_respond` | the same | | violated, see 5 |
| `agent_loop` | three steps, two calls each under any stop reason, three attempts, compaction, two aborts | 1.4 million | holds |
| `session` | two sends of up to two steps, either mode, two of clear, close, compact, crash | 4.4 million | holds |
| `session_orphans`, `session_compact` | the same | | violated, see 5 |
| `event_stream` | buffer of three, three events (one traced before, the third too long for a replay), two subscriptions | 145 thousand | holds |
| `event_replay` | buffer of two, a trace of four events | | violated, see 5 |
| `event_gap` | buffer of three, three events, one subscription | | violated, see 5 |
| `subagents` | one top-level run, two calls (at once, one after the other, or nested), two tries each, one unreadable file, one abort, restarts | 480 thousand | holds |
| `channels` | two senders, one without an agent, four updates of which one has no text, channel and queues of one place, two lives of the process | 880 thousand | holds |
| `tui` | a main run and a sub-agent, two calls under way, one permission request, one event behind, two `readLoop`s of a reused client | 2.5 million | holds |

Why the bounds are enough. Two calls at the gate already contend for `mu`, share the
caches and overtake each other; slots are reused, so sequences are unbounded. Two tools give a
file of which a save has written one decision and not the other. Two calls
per reply give every order of their ends; three steps give one before, one at and one
after a compaction or the last step; two aborts compete for one entry. Two sends
overlap in every way; two extra events allow a clear before a crash, a close during a
run and a crash after it, a compaction under a run. A buffer of three overflows when one
event is both replayed and live; two subscriptions give one replacement. Two calls of a
run are enough for two children at once, for a child next to its grandchild, and for a foreground
call beside a background one; with one retry a second child can meet every end of the first
(the code retries twice). A channel and queues of one place are full after one message, so the
read loop is blocked and a sender waits behind another; four updates give a batch after a
batch, two lives a confirmed and an unconfirmed message across a restart. Two calls under way in
the terminal client are enough for one answer to undo what another set, a reconnect between
a call's issue and its end, and a first message in its two halves; two `readLoop`s are enough
for one to close what the other writes to, or to read what is meant for it. With one permission
request no later one can take its place: that exception of `NeverHidden` does not occur in
the run, and the theorem covers it.

What the properties say (each is stated in full above its definition):

- `Permissions`: `PendingSound` (no answer can find its channel full while `mu` is
  held), `GateSound` (neither a cached decision nor a policy file bypasses a deny
  pattern or the outside-cwd question), `Consistent` (inductive), `RestartKeepsAlways` (what a stop
  at any point, also during a save, may do to the decisions taken for good),
  `CacheFollowsAnswers`, `AskEnds`, `ImplementsGate`.
- `AgentLoop`: `RequestsPaired` (calls and results match in every request, but for the calls of a
  reply with a stop reason `act` has no case for),
  `NoStrayCalls`, `AbortBoundsWork` (one reply and one attempt per call at most after a
  cancellation), `EndsTruthfully`, `AbortAnswers`, `RunEnds`, `ImplementsRunSteps`.
- `Session`: `HistorySound` (`HistoryPaired`: whatever overlaps and crashes, what a run or
  `session.get_history` reads at any moment is a history the API accepts; and
  `OrphansExplained`), `RepliesKept`, `MetaTrue` (what `session.list` and a restart find:
  `NeverVanishes`, `MetaMatches`, `RunIDsComplete`, `OneShotRunsOnce`), `ReopenedOnlyByOverlap`.
- `EventStream`: `ChannelsSafe` (a channel is open exactly while its subscriber is in the map),
  `ReplayBeforeLive`, `NoSilentLoss`, `SlowConsumerCut`, `ConnectionEnds`.
- `Subagents`: `ReportsTrue` (`ListTrue`: what `run.list` shows, where, with which status, and what
  it shows nowhere; `ResultTrue`: `agent_result` and the result of a waiting call),
  `NoStrayChildren` (one living child per foreground call, none after its run's end, one
  announced after an abort at most and that one idle), `ChildrenEnd`.
- `Channels`: `Conserved` (each message once and in order while the process is up),
  `RestartsExplained` (what is lost or doubled across restarts, and why),
  `EveryMessageProcessed`.
- `Tui`: `TargetSound` (`GateTruth`: the gate is open only while a message of this client is
  under way; `AbortTarget`: Esc is never aimed at a sub-agent or, connection lost apart, at a
  run that is over), `PanicsExplained`, `NeverHidden`, `Reconnects`.

Runs with `CHECK_DEADLOCK FALSE` are those whose system ends: a run returns, sends are
used up, a connection is closed. `Permissions` never ends and is checked for deadlock.

## 4. Fairness

- `Permissions`: strong fairness of each call's own steps (`OwnStep`, without its
  cancellation). A waiter for `mu` gets it: Go's mutex hands over to a starving waiter.
  The timer is one of those steps; nobody has to answer or cancel.
- `AgentLoop`: weak fairness of the run's goroutine and of every call's. A request ends by
  the HTTP client's timeout or an error, a question by the permission timeout, an
  attempt by the tool timeout. These are the configured defaults; with a timeout of
  zero (`HasTimeout = FALSE`, tool timeout off) `AskEnds` and `RunEnds` are not promised.
- `EventStream`: weak fairness of broadcasts, of each request's handler, of each writer
  (write or fail), of the reader of a dead connection and of the clean-up. Nobody has to publish,
  subscribe or leave.
- `Subagents`: weak fairness of each run's goroutine and of each call's: the model answers or fails
  (the HTTP client's timeout), a pause ends, tools return. Time outs, aborts, panics and
  the end of the process are never owed.
- `Channels`: weak fairness of the poll goroutine's deliveries, of the read loop and of every worker.
  A handler and a reply end by the HTTP client's timeout. The platform, the polls and the
  shutdown owe nothing: what is promised is promised of fetched messages.
- `Tui`: the runtime runs `connectCmd` and the timer and delivers every message to `Update` (weak
  fairness); strong fairness of a successful dial and of an answered `event.subscribe` stands for a
  server that is there again some time, which the client's own code cannot promise.
- `Session` is checked for safety only.

## 5. What the runs found

Each is a run that expects a violation; `PROJECT.json` quotes the line that says otherwise.

1. `ExpiredRespondsFalse`: an answer can be accepted after the timer has decided the call.
2. `OnlyAbortedRunsLeaveOrphans`: orphaned tool calls come from compacted runs, broken
   streams and stop reasons the loop has no case for, not from aborted runs; they hide all later messages of the session.
3. `CompactReplacesWhatItRead`: `session.compact` overwrites messages appended meanwhile.
4. `ConnectionEnds` with a long trace: a replay to a client that has gone blocks for ever,
   and with it the clean-up that would free it.
5. `ReplayThenLiveComplete`: an event between the end of the replay and the activation is lost.

What else the modelling showed is stated inside properties that hold, as the exceptions they make:

- `RequestsPaired` and `OrphansExplained`: `act` answers the calls of a reply only for `tool_use` and
  `max_tokens` (`loop.go:132-172`), and the loop goes on unless the reason is `end_turn`
  (`loop.go:112-117`). With any other reason (`anthropic.go:285-288` passes them all) the next
  request carries calls without results, and they are saved as orphans.
- `RestartKeepsAlways`: `docs/permissions.md:20` says that in the current wiring the policy path is
  empty and nothing is written; `app.go:58-59` passes `~/.numbat/policy.toml`, and the property
  is about the program as wired: the first `always_*` answer writes the file. What it excepts: a stop or an encoding error after `os.Create` loses decisions of any
  tool, and a file that could not be opened keeps the older decision of the tool answered since.
- `PanicsExplained`: a call that finds no connection uses a nil pointer. Its key was pressed while the
  status line did not say ready (Enter is taken in every state), or the connection was lost
  and the client replaced before its write, which for a first message is the second of two and
  can come long after the key. And a client whose `Subscribe` failed (by an error, a lost
  connection, or the ten minutes of `Call` with the connection still open) stays in place: the
  next `Connect` starts a second `readLoop` on the same events channel, and after one has closed
  it the other closes it again or sends on it.
- `NeverHidden`: a second permission request takes the dialog of the first. A lost connection
  empties the pending set and leaves the dialog; an answer given elsewhere does too.
- `GateTruth` is one implication, not two: a failed abort or permission answer lifts the gate of
  a message that is still under way, and its run is then not tracked. While the gate is open the
  run of another client can be taken for this one's, as the comment at `model.go:527` admits.
- `Issue`: a call on a connection whose `readLoop` has ended can wait for its ten minutes.
- `RestartsExplained`: `channel.go:8-9` says that adapters deduplicate by message id; none
  does, and a restart processes an unconfirmed message again. One that was confirmed and still
  queued is lost. The close of the receive channel at shutdown can panic the poll goroutine.
- `ListTrue`: the children of a sub-agent are shown nowhere (`docs/webui-api-contract.md:104` folds
  sub-agents into their parent, and the parent is not listed itself), nor are those of a run
  with a line of more than 8 MB, which is not listed either; a run of a killed process is
  "running" for ever. Beyond the latest 30, or the limit asked for, runs are not shown; all
  runs of the model fit.
- `ResultTrue`: a child that succeeds after the deadline of its call is a success in its trace and a
  time out to its parent. `NoStrayChildren`: an abort during the pause before a retry starts
  one more child, which does nothing. A background child announced after an abort does run:
  its context is not its parent's.
- `HasFailed`: the branch of `agent_result` for a cancelled child is dead code, because a background
  child's context is never cancelled.

## 6. Proofs

Every invariant and action property of section 3, and both refinements, are theorems,
proved for every value of the constants from the assumptions named in the modules alone
(sizes are naturals, some of them not zero; ids are not the null value). For each module there
is one inductive invariant, which TLC has checked on the instance of section 3 before it
was proved; a lemma per action says that it is kept, and the properties follow from it.

**`PermissionsProofs`** (any number of concurrent calls, sessions, tools, any policy):

- `TypeCorrect`, and `ConsistentAlways`: `Consistent` is the inductive invariant. It is
  needed because `GateSound` speaks of decided calls only: to show that a call
  is granted with its own consent one must know that an answer in the channel, and later in
  the waiter's hands, is the one `Respond` accepted for this slot (`SlotOK`), and to show
  what a restart reads one must know that `mu` is held exactly during a save and that the file
  equals the memory but for the exceptions of a failed save (`DiskOK`).
- `PendingAlwaysSound`, `GateAlwaysSound`: consequences of it.
- `RestartBringsNothingBack`, `CacheChangesAreAnswered`: action properties, from the same
  invariant and the shape of the steps.
- `GateRefined`: `Spec => ImplementsGate`; every step is a step of `ApprovalGate` or a
  stutter under the mapping `GateNeed`, `GateVerdict`, `GateConsent`.

**`AgentLoopProofs`** (any step limit, number of calls per reply, retries and aborts):

- `TypeCorrect`, `RequestsAlwaysPaired`, `CallsNeverStray`, `AbortAlwaysBounds`,
  `FinishedTellsTruth`, `AbortAnswersTrue`.
- `IInv` has to say what the history is at each `pc`: the iteration's operators of `Messages`
  applied as far as the loop has come (`Progress`), because a reply with open calls is not a paired
  history and only its results make it one again, or nothing does when the stop reason is one the loop
  does not handle (`run.unhandled` records those calls); how many attempts a call has made wherever its
  goroutine is (`CallsOK`); that an attempt counted after the cancellation leaves no
  further one (`AbortOK`); and that the cancel function is in the registry, with one abort, or gone
  (`RegistryOK`).
- `RunStepsRefined`: `Spec => ImplementsRunSteps`. The steps inside an iteration stutter, its last one
  is `Iterate`; so what `Session` assumes of a run holds of the loop with all its goroutines.

**`SessionProofs`** (any number of overlapping sends, steps, calls, events and crashes):

- `TypeCorrect`, `HistoryAlwaysSound`, `SavedRepliesKept`, `MetaAlwaysTrue`, `ClosedStaysClosed`.
- The core is about `TrimOrphanToolUse`: of a thread in which results follow their replies and no
  id is used twice, the longest prefix without a pending call is a paired history
  (`Follows`, `Distinct`; that the prefix exists is a well-founded argument on its length).
  `ThreadOK` keeps these two although overlapping sends interleave their messages, since the
  ids of a run are its own (`From`, `Owned`); that a missing result is explained needs
  `Complete`, true until a crash or a loose end. `MetaOK` and `HandlersOK` relate the
  session in memory, the file and the copies of the handlers in flight.

**`EventStreamProofs`** (any buffer, trace, number of events and subscriptions):

- `TypeCorrect`, `ChannelsAlwaysSafe` (itself inductive with the types), `StreamsCorrect`,
  `ReplayComesFirst`, `LossIsNeverSilent`.
- `Streams` is needed for the last two: what a client has got together with what is in its buffer
  and due to it grows in order, without a gap while its writer runs, and is a prefix
  of the trace until the activation.

**`SubagentsProofs`** (any number of runs, calls, tries, levels of nesting and restarts):

- `TypeCorrect`, `ChildrenNeverStray`, `ReportsAlwaysTrue`.
- `IInv`: a call that has not returned belongs to a run that waits for it (`CallFits`), which is why
  none is left when the run has ended; its tries follow one another, each finished and failed
  before the next (`ChildFits`); the file of a run holds what its place says it has published
  (`TraceFits`); and a foreground child announced after an abort is stopped by the chain of
  contexts it hangs on until it is over (`LateFits`), which is why it never succeeds.

**`ChannelsProofs`** (any senders, updates, queue sizes and number of restarts):

- `TypeCorrect`, `MessagesConserved`, `RestartsAlwaysExplained`.
- `IInv` orders the places a message passes: poll batch, receive channel, reader, queue, worker, done.
  Each holds rising update ids and nothing in a later place overtakes an earlier one (`OrderOK`),
  which gives order and uniqueness together; `FetchedOK` ties what was fetched to the two
  offsets; `KeptOK` and `SettledOK` account for confirmed and for processed messages
  across lives of the process.

**`TuiProofs`** (any runs, requests, calls, any number of events the client is behind):

- `TypeCorrect`, `TargetAlwaysSound`, `PanicsAlwaysExplained`, `RequestsStayShown`.
- `IInv` says what the events still on their way tell of each run (`NewsOf`, `AnnouncedOK`): that
  Esc aims at a finished run only while its `run.finished` is in the channel cannot be seen in
  the model's fields alone. `LinkOK` gives the state of the connection for each place of
  the connector, and what a client that was not reused can never have: a second `readLoop`, or a
  closed channel under an open connection.

Only model-checked:

- liveness (`AskEnds`, `RunEnds`, `SlowConsumerCut`, `ConnectionEnds`, `ChildrenEnd`,
  `EveryMessageProcessed`, `Reconnects`): fairness and `ENABLED` are out of the prover's reach;
- the violated properties of section 5, which are false.

The modules hold no recursive operator: what is pending in a history, the messages of a
sender and the context of a sub-agent are written with quantifiers, sets and recorded data,
as induction over data is also out of the prover's reach.

## 7. Not modelled, and why

- Screens of the terminal client and the web page, the mock client, skills, memory and agent
  profiles (text files read and rendered), the built-in tools (file and process I/O; here
  a tool call is its outcome), wording, token counts and prompts.
- The Feishu adapter: a skeleton that connects and never receives.
- Configuration, and of the wiring all but the channel manager and the shutdown.
- The task manager (`task/manager.go`), the MCP client (`mcp/client.go`), the rate limiter, the web
  client's pending calls and the LLM client's own retries: protocols worth a module each,
  left to the plan below. The hazards known in them are in `PROJECT.json` with that note.
- Errors of the file system other than a failed save of the policy. The pointer shared
  between the session manager's map and a handler after `Update` is a data race that value
  semantics cannot show; it is listed as a hazard.
- `trace/reader.go` beyond the status and the place of a run: its tool, token and event
  details, its order and its limit.

## 8. Plan

Done: `ApprovalGate`, `Permissions`, `Messages`, `RunSteps`, `AgentLoop`, `Session`, `EventStream`,
`Subagents`, `Channels`, `Tui`, and the proofs of all their safety properties.

Next, in this order:

1. Lemmas on `TrimOrphanToolUse` and `Judge` that `AgentLoopProofs` and `SessionProofs` both use, in one
   place.
2. A theorem that composes the two refinements: a run's tool calls under the gate.
3. `Tasks` (dependencies, completion over several files), `RpcClients` (MCP and WebSocket client
   as request/response matchers with late answers) and `RateLimiter` (token bucket), one run
   each at most.
