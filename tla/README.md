# A verification development for sekia

sekia is an event bus with Lua workflows: agents turn what happens on GitHub, Slack, Linear, Gmail
and Google Calendar into events on an embedded NATS server; the daemon routes the events to Lua
workflows; the workflows send commands back to the agents. This directory holds TLA+ models of the
parts of that program in which goroutines, timers, queues and outside services meet, the TLC
configurations that check them on small instances, and TLAPS proofs of the safety properties for
instances of any size.

All of it is read from the Go source under `src/`. `PROJECT.json` says for each definition which
lines it stands for, for each property which run checks it and which plausible bug it would catch,
and for each hazard of the code where it bites.

    tlc -workers 2 -config MCEngine.cfg MCEngine     # check an instance
    tlapm EngineProofs.tla                           # check the proofs

## 1. Inventory

| Component (source) | State | Operations | Talks to |
|---|---|---|---|
| Workflow engine (`internal/workflow/engine.go`) | map name -> running instance; per instance a bounded event channel, a `done` channel, a Lua VM and its goroutine | Start, Stop, LoadWorkflow, UnloadWorkflow, ReloadAll, handleEvent, the goroutine's loop | NATS callback (events), watcher, API, daemon |
| Workflow loader and hot reload (`loader.go`, `manifest.go`) | pending operations, debounce timer, the map of the engine | LoadDir, StartWatcher, watchLoop, flush, processBatch, verification against `workflows.sha256` | fsnotify, engine |
| Lua sandbox and `sekia` module (`luamodule.go`, `sandbox.go`, `convert.go`) | handlers and patterns of a VM | `sekia.on`, `publish`, `command`, `schedule`, `ai` | engine, NATS, LLM |
| Conversation store (`internal/conversation`, `luaconversation.go`) | map key -> messages, time of last use | append with trimming, reply (append, read, ask the LLM, append), expiry checked every minute | workflows, LLM, a cleanup goroutine |
| Agent registry and SDK (`internal/registry`, `pkg/agent`) | agents with capabilities, counters, last heartbeat | register (once), heartbeat every 30 s, list | NATS, API |
| Protocol and command signing (`pkg/protocol`) | none | subjects, JSON shapes, HMAC of commands | all |
| Daemon (`internal/server`) | the wiring, the configuration | start in order, reload the configuration from two NATS subjects, stop in reverse order | all |
| Embedded NATS, HTTP API, web dashboard, event bus, sentinel, skills | see `PROJECT.json` | | |
| GitHub agent (`internal/github/agent.go`, `commands.go`, `webhook.go`) | command channel (256), worker, connection, counters | Run, shutdown, enqueueCommand, commandLoop, executeCommand | NATS, GitHub |
| GitHub poller (`internal/github/poller.go`) | lastSyncTime, cycleSince, cursor, labels seen | tick, fetchAndEmit, advanceCursor | GitHub, agent |
| Google, Linear and Slack agents | history id, sync window, announced events, connection | polling with seeding and re-seeding, commands | Gmail, Calendar, Linear, Slack, NATS |
| LLM client, MCP server, secrets, service management, CLI | none of their own, or files | requests, I/O | |

### What is hard, and what correct means

* **Engine.** Three kinds of callers (timer goroutines of the watcher, API handlers, the main
  goroutine) swap, take and stop instances while the NATS callback sends on their channels. Correct:
  nobody sends on or closes a closed channel, no Lua runs in a closed VM, an event goes to one
  version of a workflow, what a channel accepted is handled in order even across a reload or a stop,
  no goroutine is leaked, every call returns.
* **Hot reload.** Reports of changes are collapsed by a debounce window, processed on a goroutine of
  their own per window, while the files change again, and the manifest and the script are read one
  after the other. Correct: no report is forgotten, a script that does not run keeps its running
  version, memory catches up with the directory.
* **Conversation store.** A reply is four steps with a call of up to two minutes in the middle; other
  workflows and the cleanup run in between. Correct: bounded history, the question asked is in what
  the LLM sees, nothing that is in use expires.
* **Registry.** Registration is a message that is sent once. Correct: what the API shows is what the
  agents said, also after a restart of either side, and an agent that is gone is seen to be gone.
* **Daemon.** The order of start decides what an instance is built with; two callbacks reload the
  configuration concurrently; a full reload re-reads one of two sources of workflows.
* **Pollers.** A cycle over several listings is spread over ticks with a budget, the listings move
  under the cursor, requests fail. Correct: nothing changed is missed, nothing is announced twice,
  cycles end.
* **Agents' command path.** A bounded queue, one worker, requests that time out, a shutdown that
  closes the queue. Correct: accepted commands run once, in order, before the connection is closed;
  an approval is not repeated; shutdown ends.
* **Event bus of the dashboard.** A ring and a fan-out to bounded client channels, with clients that
  come and go. Correct: a client misses only what it was too slow for, and sees one order.

* **Agents: secrets and reloads.** A command is signed with the secret its sender was started with and
  judged with the one its agent holds at that moment, while a reload on another goroutine writes it
  without a lock. Correct: when file and agent agree, exactly the commands signed with the file's
  secret are executed; what is executed half is not counted as done.
* **Slack socket.** Envelopes are acknowledged before they are handled, and come again when the
  acknowledgement is lost; the bot is told of its own messages. Correct: an acknowledged envelope was
  published in full, and no message of the bot becomes an event.
* **Google token.** Two pollers and the command handler share one source, each refresh replaces the
  file; the authorization command writes the same file. Correct: the file holds the token in use; the
  command ends whatever callbacks come.
* **Sentinel.** A loop that `Stop` cancels and does not wait for. Correct: it ends. Nothing makes it do so
  before the NATS connection it publishes on is closed.

`PROJECT.json` lists 40 hazards at their lines. Those without a property say why: the code has no
remedy and no document promises one, or the data concerned is abstracted.

## 2. Modules

| Module | What it is |
|---|---|
| `Engine` | the workflow engine, step by step |
| `Mailbox` | what the engine promises: every version of a workflow is a mailbox that stands by, serves, drains, is gone |
| `EngineProofs` | safety of `Engine`, and that it implements `Mailbox` |
| `Loader` | hot reload and the start of the daemon as far as workflows are concerned |
| `LoaderProofs` | its safety properties |
| `Poller` | the GitHub poller against listings that move |
| `PollerProofs` | its budget, and when it loses and repeats nothing |
| `Conversation` | the conversation store and the replies of workflows |
| `ConversationProofs` | its safety properties |
| `LinearPoller`, `GmailPoller`, `CalendarPoller` | the pollers of the other services |
| `Pollers` | the three of them side by side, for one run |
| `PollersProofs` | what they announce, and what they announce once |
| `GitHubAgent` | command queue, worker and shutdown of the GitHub agent |
| `GitHubAgentProofs` | its safety properties |
| `Daemon` | start, configuration reload and shutdown of sekiad |
| `Registry` | the registry and the agents' SDK: registration, heartbeats, restarts |
| `Dashboard` | the event bus: ring, fan-out to streams, pages |
| `Sentinel` | the sentinel's loop |
| `Sekiad` | `Daemon`, `Loader`, `Conversation`, `Registry`, `Dashboard`, `Sentinel`, for one run |
| `SekiadProofs` | safety of `Daemon`, `Registry` and `Dashboard`, the types of all parts, and `Sekiad` as a whole |
| `AgentCommands` | signed commands and configuration reloads of all agents |
| `SlackSocket` | the socket of the Slack agent and what it publishes |
| `GoogleAuth` | the token of the Google agent and the authorization command |
| `Agents` | `Poller`, `GitHubAgent`, `AgentCommands`, `SlackSocket`, `GoogleAuth`, for one run |
| `AgentsProofs` | safety of `AgentCommands`, `SlackSocket` and `GoogleAuth`, and `Agents` as a whole |
| `MCEngine`, `MCDaemon`, `MCSekiad`, `MCAgents`, `MCPoller`, `MCPollers`, `MCGitHubAgent` | instances for TLC |

`Sekiad`, `Agents` and `Pollers` are sums, not products. Their parts run on goroutines or in processes
that share no state in the model; what one does to another is an action of the other's environment (a
configuration file that may hold anything whenever it is read, a daemon that restarts, a full reload
that may be asked for at any time). So a behaviour is chosen to be that of one part (`part`, `service`)
while the others stay in a fixed initial state, and the state spaces add up instead of multiplying.
A property about one part holds trivially while another one runs, and is checked in full where its own
does. Parts that do share state (the callers of the engine, the goroutines of hot reload, the two
reloads of a configuration) are in one module.

### Engine and Mailbox

A variable per field: `workflows` is `Engine.workflows`; `eventCh`, `closed`, `run`, `vm`, `nameOf`
are the fields of a `workflowState` and the place of its goroutine. `Threads` are the goroutines
that call the engine, with what each has yet to do in `scan`, `toLoad`, `built`, `toStop`,
`stopping`. A step is what happens under one hold of `Engine.mu` or between two channel operations:

| Code | Actions |
|---|---|
| `Start`, `Stop` | `Start`, `Stop`, then `CloseEvents` / `CloseVM` per instance taken |
| `LoadWorkflow` | `Build` (new VM, script run, goroutine started), `Swap` (under the lock), then the old instance is stopped; `LoadFails` |
| `UnloadWorkflow`, `ReloadAll`, `LoadDir` | `Unload`, `ReloadAll`, `BeginLoadDir`, `ReadDir` |
| `stopWorkflow` | `CloseEvents`, wait for `run = "done"`, `CloseVM` |
| `handleEvent` | `HandleEvent`: atomic, because it holds the read lock over all its non-blocking sends |
| `workflowState.run` | `TakeEvent`, `TakeTick`, `HandlerReturns`, `Exit` |

Abstractions. Which workflows an event matches is a set the environment chooses, and so is what the
directory holds when `LoadDir` reads it. Loading the file and starting the goroutine is one step,
because nobody else can reach the new instance before the swap. `Stop`'s unsubscribe and its taking
of the map are one step: a callback between them would find what one before them finds. Counters of
events and errors are left out. Events are numbers, in the order in which NATS delivers them.

`Mailbox` knows neither map nor lock nor goroutine. The refinement `Promise` derives the stage of a
mailbox from the map (serving), from `built` (standby) and from the VM (gone).

### Loader

`disk`, `manifest` and `broken` are the directory, as versions: every change makes a new one, and
`broken` are those whose script does not run. `events` is the queue of fsnotify, `pending` and
`timer` belong to `watchLoop`, `loaded` is the engine's map, by version. A goroutine (a firing of the
timer, an API request, the daemon's main goroutine at its start) walks through `TakeBatch`,
`ReloadBatch`, `ReadDir`, `NextInBatch`/`NextInDir`, and for each script through `ReadManifest`,
`CheckHash`, `RunScript`, `Swap` or `Unload`; the directory changes between any two of them.

`Overlap` says whether two goroutines may be inside a batch or a reload at a time. Nothing in the
code forbids it: that is why the run `loader_overlap` finds memory staying behind. `Tracked` and
`Converges` are checked, and `Tracked` is proved, for `Overlap = FALSE`, which is what happens when
every batch is done before the next debounce window closes; `NoLostWakeup` and `KeepsOld` are proved
without it. `SetVerify` is a configuration reload that switches verification on or off between any two
steps of a load; it leaves what is loaded as it is, so all workflows count as `unseen` until the
directory is read again. `unseen` are the workflows whose last change fell between the first `LoadDir` and the
start of the watcher: no report of those exists, and the properties leave out exactly them.
`Sign` writes the manifest in one step. An overflow of fsnotify's own queue is not modelled. Hot
reload is on.

### Poller

`updated` is GitHub: when each item changed last, which is also its place in every listing (newest
first). Between two requests any item may change (`Touch`) or leave (`Vanish`), or time just passes
(`Wait`); `MaxTime` bounds them. A tick is `BeginTick`, one `Fetch...` per request (issues, pull requests,
comments; issues by label; pull requests by state), `Fail` for a request that fails, and `EndTick`. `Page`
answers a request the way GitHub does, by page number and page size. `told`, `due`, `emitted`, `again`,
`begun`, `still` are history, for the properties.

GitHub's times are whole seconds of `Second` units (`Cut`); `lastSync` is `time.Now()` and is not. For
issues and comments GitHub compares, with `since` cut to seconds (`Since`); for pull requests
`ListPRsPage` does, with the uncut `since` (`NotBefore`). `Late` are the pull requests this loses: those
that changed in the second a cycle began, after it did. Items of one second keep the exact order of
their changes in a listing, and the clocks of GitHub and the agent are one. The request for comments
names no direction, so `OldestFirst` is either.

`Complete` and `AtMostOnce` speak of two situations in which the code can keep its promise: `Roomy`
(every listing fits on the first page, also of a tick that has spent half of its budget, while
GitHub changes as it likes) and `OneListing` (one listing of any length, quiet during the cycle, read
by ticks of one page each, so that all pages have one size). Outside them finding 3 applies, and the
`Late` ones are lost. An item of the second in which a cycle began may be emitted by the next one
again; `AtMostOnce` is about one cycle.

Left out: the type of the event emitted for an item, the clocks' skew, the part of the listing that
an agent's restart misses (it looks back five minutes, here a second or more), rate limits.

### LinearPoller, GmailPoller, CalendarPoller

Each models its service as a clock of changes and the poll as its requests and answers, with changes
of the service in between. What differs is the cursor: Linear has the time of the poll, truncated to
seconds in the query (`Formatted`); Gmail a history id (`historyID`), taken from the profile by `Profile`
before `Recent` reads recent messages; Calendar a sync token, and `lastSyncTime` beside it, stamped
later (`Stamp`).

* `IssuesArrive` is `FetchUpdatedIssues` with all its pages: an issue that changes after the poll's `now`
  may be on a page that was read already, so each subset of those may be missing. Comments
  have one page; those beyond it, and those of an answer that fails, are `dropped`.
* `History` is `ListHistory`: `Returned` says with which id and which messages it may come back (enough
  messages, a page that failed after some, the end). A message that cannot be fetched is `skipped`. A
  restart of the agent is `HistoryFails`: the next poll seeds. `Queried` are the messages that match the
  configured query, which only `Recent` applies: configs/sekia-google.toml:18 calls it a filter of polled
  messages, but the history's messages are announced unfiltered.
* `notifiedUpcoming` maps a meeting to the start it was announced for; `Kept` is what the cleanup
  leaves. `Listed` takes Calendar's word that `timeMin` bounds the end of an event. The start of an event
  of a whole day (`AllDay`) is a date: Calendar lists it by midnight in its zone, `Parsed` is midnight in UTC,
  `Offset` away. A meeting does not change between the two kinds, and one zone does for all.

The types of the events, the team filter, the bodies and an agent's restart (Linear and Calendar look
back five minutes and a day) are left out. `Pollers` adds the variable `service`: a behaviour is one of
the three pollers', so that the state spaces add up instead of multiplying.

### Conversation

Each operation of `Store` is one step, because it holds the store's lock; `messages`, `metadata` and
`idle` (the age of `UpdatedAt`) are empty for keys without a conversation. A workflow's handle is the
key it was made for, and stays when the conversation goes. `conv:reply` is `Ask` (append the prompt),
`Read` (copy the history), the LLM's time, and `Answer` or `LLMFails`. `Minute` is the unit of time, the
period of the cleanup; a call ends within `CallLimit` (120 s in the code). `log` is what was appended
since the conversation was created, `lost` are the prompts given to an expired handle: the store drops
those without an error, and the LLM is then asked with whatever the key holds. Texts, roles and the
values of metadata are abstracted; reading changes nothing and is not an action.

### GitHubAgent

`main` is the place of `Run` and `shutdown`, `worker` that of `commandLoop`, `inbox` the messages
NATS has for the subscription. `Enqueue` is `enqueueCommand`: send, drop when full, panic when closed.
`Execute`, `ListReviews`, `CreateReview` are the steps of `approve_pr`; any other command is the
`Done` branch of `Execute`, what it changes on GitHub being left out. A `CreateReview` whose answer is
an error may have been carried out, but within its own 30 seconds: that a request reaches GitHub
after the client gave it up is not modelled, nor is it that `ListReviews` reads one page of 100
reviews only. Publishing of events and the webhook's handlers are left out.

### Daemon

`stage` is the next statement of `Run`, `waitForShutdown` or `shutdown`; `up` are the subsystems that
run. An error of a step goes to `failed` with what its error path leaves running. `tools` is what the
engine has to give to an instance (`SetLLMClient`, `SetConversationStore`, the skills), `built` what each
loaded workflow was built with: `LoadScripts` comes before `GiveConversations` and `LoadSkills`, which is
what finding 6 is about. The watcher is not stopped by `shutdown` and may still load (`Reloaded`).

`reloadConfig` runs on a goroutine for each of the two subjects, without a lock, so each read and each
write of what they share is a step: `ReadFile`; `Compare` and `Set` for timeout and verification;
`CompareKey`, and for another key `CopyWorkflows`, `CopyKey` (the first `d.cfg = newCfg`), `CreateClient`, which
reads `d.cfg` again, and `SetClient`; then `CopyWorkflows` and `EndReload` (the last `d.cfg = newCfg`). The struct
is copied in two parts, between which the other goroutine may read or write; a part is copied whole, so
a torn string is left out here (`AgentCommands` has it, for the secret). `MaxReloads` bounds how many
reloads a behaviour has, for each choice of what is enabled. The two may overlap at any step. `lone` is history: no reload has begun
while the other one was under way; until then `Applied` holds, afterwards finding 9 does. One overlap ends the
promise for good: what it leaves in `d.cfg` is what later reloads compare with.

`StopSentinel` only cancels (`dismissed`): the sentinel stays in `up` until `SentinelReturns`, which may
come at any time, also after `CloseNats`. `Orderly` therefore asks that it was told to end, not that it
has ended: what it still publishes then reaches nobody.

`shutdown` has one context of five seconds (`Timeout`, `spent`). `ShutWeb` waits for the dashboard's
requests, of which an event stream (`streams`) is one, so it may use them all up; what follows does
not wait any more. Of a configuration the model keeps what a reload can change: handler timeout,
integrity check, API key.

### Registry

`proc`, `linked`, `handled` are the agents' processes, several of which may have one name; `announced` and
`beats` what they sent and the registry has not handled; `listed`, `meta`, `status`, `shown` the entries of the
map. A registration is published once, by `StartAgent`; the NATS client holds heartbeats back while it
is not connected, and `Reconnect` delivers them. `StopDaemon` loses the map, the connections and what is
on its way; between `StartNats` and `StartRegistry` messages go nowhere. `Capable` is what the handlers
guarantee: a heartbeat never replaces a registration. That an agent has no capabilities after a
restart of the daemon is what the code does, so `Shown` asks for status and counters only.

### Dashboard

`Publish` writes the ring and copies the clients under the lock, `Send` goes through the copy without it;
a client may leave and come back with another channel in between (`open` tells them apart). `LoadPage`
is `handleDashboard` with `Recent`, `OpenStream`, `Deliver`, `EndStream` the handler of a stream. One publisher
at a time: the bus's only publisher is one NATS callback. `missed` is history: what came without a
stream or found the channel full. Without the credentials (`Known`) nobody gets anything.

### Sentinel

The loop, its ticker's channel of one, and the context. `Cancel` is `Stop`; the call of the LLM has the
context and 120 seconds, `AskFails` is either. What the checklist says and how many actions an answer has
are choices.

### AgentCommands

One agent of any kind, the senders `engine` and `mcp`, and the configuration file. `Send` signs with the
sender's secret; a signature is the secret it was made with, and `VerifyCommand` compares. `Table` lists
the commands of each agent with the fields they need; `Requests` what they do at the service.
`add_to_project` makes several changes, and `RequestFails` may come after any of them. A command for a
Google service that is switched off ends the process, as a nil interface does.

`reloadConfig` is `ReadConfig`, `ApplyPoll`, `ApplySecret`, on two goroutines at once, while `handleCommand`
reads the secret. There is no lock, so a read during a write is a data race: `Readings` are the old
value, the new one and a mixture, and `TornRead` is the process that reads the length of one string
with the nil pointer of another. `Settled` is when file and agent ought to agree.

### SlackSocket

`events` is the channel of the socket library, `pending` what Slack takes for unacknowledged. `TakeEnvelope`
acknowledges, `Map` and `PublishNext` follow; a panic ends the goroutine (`HandlerPanics`) and nobody starts
it again. `Run` learns the bot's user ID before the first event is handled. Reactions of the bot itself
are not filtered by the code and do become events; `Mirrored` is about messages.

### GoogleAuth

`flow` is `runCallbackServer` with its channel of one result; handlers of further callbacks are `blocked` in
it, and the shutdown of the server waits two seconds for them. `Lock`, `SourceToken`, `Compare`, `SaveToken` are
`PersistentTokenSource.Token` under its mutex; writing the file is truncating and then writing, and the
agent may end in between. `unsaved` is history: a save was cut short or failed, or both processes were
writing, after which the file promises nothing.

## 3. Runs

| Run | Instance | Shows |
|---|---|---|
| `engine` | 2 workflows, one of them scheduled, 2 instances, 2 goroutines, channel of 1, 2 events | type, `NoPanic` (no send on a closed channel, no second close), `NoHandlerInClosedVM`, `HandOver`, `NoLeak`, `NothingLost`; `Engine` implements `Mailbox`; every accepted event is handled; every call returns |
| `engine_stop` | 1 workflow, 2 instances, 2 goroutines | **violated**: `Stop` does not stop a workflow that is being loaded |
| `daemon_reload` | the Daemon of `sekiad`, alone | **violated**: overlapping reloads leave engine and daemon disagreeing |
| `sekiad` | Daemon: everything enabled, or nothing: 1 reload, or the engine alone: 2 reloads, which may overlap; 3 kinds of configuration files. Loader: 2 scripts and the manifest, 3 changes (also of the verification), 1 batch at a time, 1 API goroutine. Conversation: 2 workflows, history of 2, time to live and call limit of 1 minute. Registry: 2 processes of one name, 2 stops of the daemon. Dashboard: 2 browsers with 2 streams each, ring of 2, channels of 1, 4 events. Sentinel: up to 2 actions | types; `Applied`, `Orderly`, `StopEnds`; `Tracked`, `KeepsOld`, `Converges`; `RecentHistory`, `Dialogue`, `Evicted`; `Capable`, `Shown`; `Followed`; `SentinelEnds` |
| `sekiad_equipped` | the same | **violated**: workflows loaded at the start have no conversation store |
| `loader_overlap` | 1 script, 2 changes, 2 batches that overlap | **violated**: the older version wins |
| `agents` | Poller: 5 items in 2 repositories, 5 configurations, 2 units of time, 3 to a second. GitHubAgent: 4 commands, 2 of them for one pull request, queue of 2. AgentCommands: one agent of each kind, 1 command, 2 edits of the file or restarts of a sender. SlackSocket: 4 envelopes, each sent up to twice. GoogleAuth: 2 callers, 3 callbacks, 3 tokens | types; `Complete`, `AtMostOnce`, `CyclesEnd`; `InOrder`, `OneApproval`, `AcceptedRuns`; `SecretReloaded`, `Verdicts`, `Honest`; `Mirrored`; `TokenKept`, `FlowEnds` |
| `agents_reload` | the same, GitHub agent | **violated**: a reload brings neither secret nor poll settings into force |
| `poller_tight` | 6 items, 2 per tick, no change at all | **violated**: an item between two pages of different size is lost |
| `github_agent_stop` | 4 commands, queue of 2 | **violated**: a command delivered during shutdown panics the process |
| `pollers` | Linear: 2 issues, 2 comments on pages of 1, seconds of 2 units; Gmail: 3 messages, 2 at a time; Calendar: 2 meetings, one of a whole day, west of UTC, 3 changes | types; `AllTold` and `AnnouncedOnce` for each of the three; `OnceBeforeStart` |
| `calendar_upcoming` | the same | **violated**: a meeting that runs is announced as upcoming again |

`sekiad` and `agents` have one to three million states each. Deadlock is not checked where a part may stop:
a daemon that ended, an agent whose bounds are used up.

### Why the bounds are enough

*Engine.* A hazard needs an old and a new instance of one workflow, or two workflows beside each
other, two goroutines at odds with each other, a channel that is full (capacity one) and an event
before and one after a swap. A swap of one workflow while a second one
runs beside it would need a third instance; the proofs lift all safety properties to any numbers. No symmetry is used,
since liveness is checked on the same instance.

*Loader.* Three changes are a creation, a change of it and a removal or a signature; two scripts let
one fail while the other loads. A debounce window that collapses two operations, a change during a
batch, a change of the manifest with scripts pending all fit. Here too the proofs cover all sizes,
except for `Converges`.

*Poller.* Three pull requests are the fewest for which pages of sizes one and two leave a gap; two
units of time are two changes, or one and a wait, and let an item move to the front and another one leave within a cycle. Two repositories and two
labels are needed for the cursor to advance in each of its dimensions, and one item with both labels
for the deduplication.

*Pollers.* Two units of time per second let a change share its second with the poll; a page of one comment
overflows with two. Three messages exceed an answer of two. A creation and two moves bring a
meeting back to a start it was announced for; windows and lengths of two let a request straddle
a start and a meeting be listed while it runs. One unit west of UTC is enough for the start of a whole day
to pass before it comes.

*Conversation.* A history of two and three messages (and their answers) are enough to push a question
out between `Ask` and `Read`; a time to live that equals the limit of a call is the tightest for which
the promise holds, so that an expiry one minute early shows. Two workflows share a key or do not.

*Daemon.* One configuration file differs from the default settings in everything that can be reloaded,
one has a secret that cannot be resolved, one does not parse, which is as if there were none: a reload may change
each setting, there and back. Each reload reads whatever is there; two of them, one after the other or
step by step between each other, bring `d.cfg` and the engine into every relation the comparison can
tell apart. A reload touches the engine and `d.cfg` and nothing else, so `TheReloads` has two of them
where only the engine is enabled, and one where everything is or nothing.

*Registry.* Two processes of one name are an agent and its successor, whose messages interleave; two
stops let the daemon go away before and after the second one registered.

*Dashboard.* Four events go around a ring of two twice; a channel of one is full after one event; two
streams per browser are one that is in the copy of the clients and the one that replaces it.

*AgentCommands.* One command meets every point of a reload; two edits are the file that one reload reads
and another that comes in between, or a sender that was started with another secret.

*SlackSocket, GoogleAuth.* Two deliveries are one and its repetition. Three callbacks are the one received,
the one in the channel and the one that blocks; three tokens are the granted one and two refreshes.

*GitHubAgent.* Four commands are one at work, two that fill the queue and one that is dropped or
arrives late; two approve the same pull request.

### Fairness

* A goroutine that is inside a call goes on (`WF` on `Continue`, `Work`, `Starting`, `Stopping`,
  `Worker`): the Go scheduler runs every runnable goroutine.
* A handler returns (`WF` on `HandlerReturns`): the handler timeout cuts it off, 30 s by default. With a timeout
  of 0 there is no limit, so that value is excluded by assumption.
* Receives of a workflow's goroutine are strongly fair: its `select` chooses uniformly among the
  cases that are ready, so ticks cannot starve events, nor the closed channel.
* The debounce timer fires once the directory is quiet (`WF` on `Notice`, `Fire`). Nobody is obliged
  to edit, to reload, to send a command or to shut down.
* The ticker of the poller ticks; a request that is tried again and again succeeds at some time
  (`SF` on `Fetch`): without it `CyclesEnd` is not to be had, the code retries for ever.
* Time passes and the cleanup's ticker ticks (`WF` on `Minute`, `Cleanup`); a call of the LLM returns
  with an answer or an error, its context's limit. Workflows are obliged to nothing.
* A request to GitHub ends after 30 seconds, its context's limit.
* `Run` and `shutdown` of the daemon go on, and their five seconds pass (`WF` on `Startup`, `Shutdown`, `Timeout`).
  Browsers and requests of the API are obliged to nothing.
* The NATS client reconnects for ever (`MaxReconnects(-1)`), the ticker of the heartbeats goes on, and
  what reached the server is handled (`WF` on `Reconnect`, `Beat`, `HandleRegistration`, `HandleHeartbeat`).
* The sentinel's `select` chooses at random among a tick and a context that is done (`SF` on `End`); a
  check goes on, because its only call has a limit (`WF` on `CheckStep`).
* The authorization command goes on, and its five minutes end (`WF` on `Flow`).

### Findings

Each is a run whose property TLC violates; the full text is in `PROJECT.json`.

1. `Engine.Stop` says it stops all goroutines. A load that is under way, or one that the watcher
   starts later, installs an instance that nobody stops (`engine.go:110`).
2. Two debounce windows' batches may overlap, and the slower one may bring an older version back
   (`loader.go:102`). README: editing "automatically reloads the affected workflows".
3. The GitHub poller's page number outlives its page size, so items are skipped although the cycle
   completes and `lastSyncTime` passes them (`poller.go:190`, comment at lines 38-40).
4. The GitHub agent closes its command channel while NATS still delivers into it (`agent.go:288`).
5. The calendar poller announces a meeting that runs as upcoming at each poll (`calendar_poller.go:113`,
   comment at line 24).
6. Workflows of the directory are built before the engine has the conversation store and the skills;
   until they are loaded again, `sekia.conversation` raises an error and `sekia.skill` returns an
   empty string (`daemon.go:165`, README lines 327-328).
7. The GitHub agent does not reload the command secret (`github/agent.go:318`, docs/index.html:469).
8. No agent's pollers take over reloaded poll settings (`github/agent.go:312`, docs/index.html:463-466).
9. Two configuration reloads of the daemon that overlap may leave the engine with other settings than
   `d.cfg`, and a file with those of `d.cfg` is then never applied (`daemon.go:349`, `sekiactl config reload --help`).

What the passing runs leave out is as telling: Gmail messages that arrive between a poll's last answer and a
new seeding are told only if they are among the recent ones, and any error seeds again
(`gmail_poller.go:68`); those between profile and list are told twice; Linear comments beyond 50 per
poll, or whose request fails, are never told; an issue created while a poll waits for
its answer may be announced as created twice, and one edited then as changed only. An agent that was
there before its daemon restarted is listed without capabilities until it is restarted too. A full
reload drops the workflows of skills. A pull request that changes in the second a cycle of the GitHub poller
began, after it was listed, is never emitted: its `updated_at` counts as older than `since` (`commands.go:120`);
`Complete` leaves out exactly those (`Late`). West of UTC an event of a whole day is announced as upcoming by
each poll from midnight UTC until it starts, because its date is parsed as UTC (`calendar_client.go:171`);
`OnceBeforeStart` speaks of the start as the poller parsed it. The sentinel may outlive the NATS connection it
publishes on, for `Stop` cancels and does not wait (`sentinel.go:71`); `Orderly` asks that it was told to
end. An agent started with `--name` or `--config` reloads the file of the
default name.

## 4. Proofs

No instance is fixed in any of them: names, instances, goroutines, capacities, numbers of events,
edits and commands are arbitrary.

**Engine.** `TypeInv` (types, and that `LoadWorkflow` knows the name of what it built) and `OwnerInv`:
at each moment an instance is nobody's, or a goroutine's that built it, or the map's under its own
name, or one goroutine's to stop, or waited for by one goroutine; and which of these tells whether
its goroutine runs, its channel is closed and its VM is open. None of `NoSendOnClosed`,
`NoDoubleClose` (together `NoPanic`), `NoHandlerInClosedVM`, `NoLeak` is inductive alone; each follows from `OwnerInv` at
once. `NothingLost` needs `OwnerInv` to know that a goroutine ends only with its channel closed
and empty. `HandOver` is
proved from `OrderInv`: nothing accepted is newer than the last delivery, an instance that is not yet
in the map accepted nothing, and what the instance in the map accepts is newer than what any other
instance of its name accepted.
`ImplementsMailbox` maps every action to a step of `Mailbox` or a stutter.

**Loader.** `NoLostWakeup` follows step by step from the types alone. `KeepsOld` needs `DropInv`: every
report of a removal, wherever it is on its way (queue, pending map, batch), is about a script that was
removed, and a goroutine is about to unload only a script that was removed or did not match its
hash, whether verification is switched on by now or not. `Tracked`, for
`Overlap = FALSE`, is the longest argument. `AloneInv`: one goroutine at a time is loading, and before the watcher
nothing was reported. `WorkInv`: what a goroutine has left to do belongs to its mode, and
`LoadDir` loads each script once, into a map that was cleared. `LastOpInv`: the last report on a
script, in the queue, the pending map or a batch, says whether it exists now. `SyncInv`: a workflow no
report is left about is in sync or a goroutine is due to load it, and whoever is at work on it
holds the manifest entry and the version the directory holds now.

**Poller.** `TypeCorrect` is more than types: items differ in the time of their change, hence in their
rank in a listing (`RankOrder`), hence a page of size s holds at most s items, hence the budget stays
above zero. `CompleteHolds` and `AtMostOnceHolds` rest on two invariants. `RoomyInv`, for `Roomy`: what
is due and not yet emitted lies before the cursor and is still listed there, what was emitted lies
behind it (`PlaceInv`; by label, it is in `seen`); what the budget lacks was emitted in this cycle, so
a page always has room (`BudgetInv`); and what changed before `lastSync` was told, as will be, at
the end of the cycle, what changed before it began (`TimeInv`). `ListInv`, for `OneListing`: with the
cursor at page p, the items of the first (p-1)*perTick ranks are emitted. It needs that the ranks
are exactly the numbers below the length of the listing, so that every page but the last is full and
ends its tick.

**Pollers of the other services.** One invariant each. Gmail: what was announced lies before the history id
or was there when the recent messages were read (`Behind`). Calendar: what was announced as created
was created before `lastSyncTime`, except between an answer and its stamp (`MadeBefore`), and an announced
start has passed or is remembered (`Remembered`). Linear: between the two answers of a poll the issues up to
its `now` are announced (`Answering`), and each as created once (`Counted`). `PartsHold` carries
the theorems over to `Pollers`, as `AllToldHolds` and `AnnouncedOnceHolds`.

**Conversation.** `RecentHistoryHolds` is the lemma that trimming after each message equals trimming once
(`TrimAppend`), in every step. `UseInv`, for a time to live no shorter than a call: while somebody waits
for an answer, the conversation is there, its last use is no longer ago than the prompt, and it holds
the prompt. `QuestionSeenHolds` adds that numbers grow along a log (`Ordered`), so that a trimmed
history without the question holds newer messages only; `AnswersFollowHolds` follows from `UseInv`; both
together are `Dialogue`.

**GitHubAgent.** `IInv`: the channel is closed exactly from the second step of shutdown on; the worker ends
only when it is closed and empty; the worker holds a command exactly while it executes one; and
between its look at the reviews and its own review the number of approvals stays zero, because there
is one worker. `InOrder`, with the
queue drained before `agent.Close`, and `OneApproval` follow. The panic of finding 4 is
part of the model these hold in: it ends the process, it does not reorder anything.

**Daemon and registry.** `OrderInv` says for each step of `Run` and `shutdown` which subsystems are up and
that no request is in progress before the API was started; `Orderly` reads off it. `ApplyInv`, up to the first
overlap (`lone`): at most one reload is under way, and `Between` says how far it has brought the
engine towards the file it read; the comparison with `d.cfg` skips a setting only if the engine has it
already. `Capable` is inductive once the map has its type.

`NeverAheadHolds` is about the counters of the registry: an entry shows no more events than some process of
its name counted. That the counter of an entry never goes back before the daemon ends holds only where one
process bears the name (`NeverBackHolds`): of two, the older one's heartbeat may be handled last.
`CounterInv` says that the heartbeats of a process on their way are in order and none above
what it counts now (`Line`), nor, where it is alone, below its entry (`Above`).

What a workflow is built with: `AskedFor` says that the engine is up only where it is enabled, `StoreInv`
that past `SetConversationStore` the engine has the store and that workflows of skills are built only later.

**Dashboard.** `RingInv` tells which event lies how many places before `ringPos`, and `RecentEvents` that
`Recent`, which goes around the ring from its oldest event, returns the newest ones in order. `StreamInv`:
the copy that `Publish` made holds at most one stream of a browser, and while it is there the browser
was not sent the newest event. `FollowInv`: what it was sent, what it missed and what the copy still holds for
it are together all events since its page, and what it was sent follows the page in order.

**Agents' commands.** `ReloadInv`: while the file is the one the last lone reload read, either nobody reloads
and the secret is the file's, or exactly one goroutine is on its way with it (`Coming`). Then nobody
writes during a verdict, so a handler can read one value only (`JudgedSecret`), which is the heart of
`Verdicts`. `WorkInv` counts: the changes made and the requests left are the changes the command is
to make (`RequestsShape`: after at most one look every request is a change), hence `Honest`.

**Slack.** `EnvelopeInv`: an envelope was put into the channel as often as it was taken out or waits in it
(`CountTail`, `CountAppend`), each time it was taken it publishes no more than what it maps to, and what
is acknowledged and not at work was published in full.

**Google token.** `LockInv`: only the holder of the lock is inside `Token`. `FileInv`: without a save that
went wrong the file holds the token that was compared last, and that is the one in use but for
the caller that is about to save it.

**The parts together.** In `Sekiad` and in `Agents` every step is one part's and leaves the others alone, so a
behaviour of the whole is one of each part's own specification (`SekiadPartsHold`, `AgentsPartsHold`). With
that and an invariant of the types of each part, `SekiadTypeOKHolds`, `AgentsTypeOKHolds`, `SekiadSafe` and
`AgentsSafe` state of the compositions what the runs check of the parts; only `Tracked`, which needs
`Overlap = FALSE`, is not in `SekiadSafe`.

**What the violated claims leave standing.** A counterexample shows that a claim is wrong; a theorem beside
it shows how far.

| Run | What is proved |
|---|---|
| `engine_stop` | `QuietStopStopsAll`: if no load is under way when `Stop` takes the map and none installs anything later (`QuietStop`), nothing runs once all calls have returned |
| `loader_overlap` | `TrackedHolds`: as long as loads do not overlap, no change is forgotten |
| `sekiad_equipped` | `HandlersEquippedHolds`: workflows of skills never lack the store or the skills; `EquippedOnReloadHolds`: whatever is built after startup has the store, so a reload of all workflows mends it |
| `agents_reload` | `PollReloadedHolds`: after a lone reload of the default file the poll settings in the configuration of an agent that polls are the file's; it is the poller that keeps the old ones. `SecretReloadedHolds`: the same of the secret, for all agents but GitHub's |
| `poller_tight` | `CompleteHolds` and `AtMostOnceHolds`, for the conditions under which a cycle is complete |
| `github_agent_stop` | `OnlyThePanicLoses`: a process that ends without the send on the closed channel has executed all it accepted; `DrainsWhenUnsubscribed`: so does one to which nothing is delivered once the channel is closed |
| `calendar_upcoming` | `OnceBeforeStartHolds`: the announcements repeat only when the start the poller parsed has passed, so with a time only for a meeting that runs |
| `daemon_reload` | `AppliedHolds`: engine and daemon agree between reloads until two of them overlap |

Assumptions used: those the modules state about their constants; `Overlap = FALSE`
where a theorem says so, with `loader_overlap` showing why; and, as hypotheses
on the behaviour, `QuietStop` and "nothing is enqueued after the close" in the two theorems of the table above.

Only model-checked: all liveness (`EventsHandled`, `CallsReturn`, `Converges`, `CyclesEnd`, `AcceptedRuns`,
`Evicted`, `StopEnds`, `Shown`, `SentinelEnds`, `FlowEnds`), which is beyond the prover together with fairness.
Every safety property of a passing run is a theorem.

## 5. Plan

What is left, what matters most for users first:

1. *Routing*: `handleEvent` with the handlers and patterns of the instances, the guard that keeps a
   workflow from its own events, handlers registered at run time, and the channel of ticks; composed
   with `Engine`, whose environment chooses the matches now.
2. The shutdown of the Linear, Google and Slack agents and the webhook servers, as `GitHubAgent` has
   the one of GitHub.
3. One abstract specification for all pollers, "each change is announced, and once", and each of them
   shown to implement it where it does.
4. Larger instances of `AgentCommands`, with two commands on their way.

## 6. Not modelled, and why

Pure functions and formats (value conversion between Lua and JSON, configuration values, event shapes,
the HMAC itself), code that only performs I/O (CLI, service files, decryption of secrets, HTML, the LLM
client's request), the webhook server of the GitHub agent, whose handlers publish what they receive, the
shutdown of the Linear, Google and Slack agents, data races inside Go's slices and maps, and
third-party code (NATS, the Lua VM, HTTP clients) except for how the code above uses it.
