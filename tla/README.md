# FastMD: models, checks and proofs

FastMD (`src/`) is a desktop Markdown workspace in Rust with an LLM agent in it:
an egui UI thread, an agent library with its own driver thread, background
workers (file watcher, PDF conversion, image captions, vector index), batch runs,
MCP clients and a Discord bot, tied together by in-process event buses.

This directory holds TLA+ specifications of the parts whose correctness depends
on the order in which threads, messages, timeouts and failures happen, the TLC
configurations that check them on small instances, and theorems about them whose
proofs TLAPS checks. Paths below are relative to `src/src/` (so `app/bus/core.rs`
is `src/src/app/bus/core.rs` in the repository). `PROJECT.json` maps every
definition to the lines it translates.

Contents: [Inventory](#inventory) - [What is modelled](#what-is-modelled) -
[Runs](#runs) - [Fairness](#fairness) - [What is proved](#what-is-proved) -
[Disagreements](#disagreements-between-code-and-documents) - [Limits](#limits) -
[Not modelled](#not-modelled) - [Plan](#plan)

## Inventory

| Component | State it keeps | Operations | Talks to | What is hard | What makes it correct | Module |
|---|---|---|---|---|---|---|
| Event bus, `app/bus/core.rs` | a tokio broadcast ring of 8192 values, one condition variable for all handles, a position and a mutex per reader | `publish`, `subscribe`, `clone`, `drop`, `try_recv`, `recv`, `recv_timeout` | everyone: the user command, agent, file and configuration buses are instances | lag and overflow; notify without the waiter's mutex; drop of the last handle | nothing lost without an overflow, nothing twice, in order; a waiter hears of what arrives | EventBus |
| Agent conversation, UI side: `app/orchestrator.rs`, `app/command_executor.rs`, `app/ui` | running flag, prompt queue, current session, transcript, command bus | per frame: drain agent events, drain commands, draw panels; run, queue, stop, close, skill, merge | driver thread over an mpsc of prompts, a cancel flag per prompt, the agent bus | the UI decides on state that is one frame old; ends of old runs arrive late; overflow between frames | no prompt is run twice or stopped while it waits, an end comes to be seen, conversations do not mix | AgentSession |
| Agent session and driver, `agent/session.rs`, `agent/agent_impl.rs` | prompt channel, cancel flag, messages per session | submit, cancel, run loop, drop (join) | LLM client, tools, agent bus | cancellation between turns, failure on each path, a panic of the thread, exit while a run is in progress | every run announces its end; a cancelled run ends; history stays in its session | AgentSession |
| MCP session over stdio, `agent/lib/mcp/session.rs`, `agent/lib/mcp/mod.rs` | phase, id counter, the live subprocess, its line channel | initialize, request, notification, timeout with cancellation, mark dead, shutdown, drop | the subprocess; shared by the driver of the agent and the configuration subscriber | the session mutex is released between ensuring a transport, writing and reading; the server dies, babbles, stays silent, stops reading, sends requests of its own; the configuration removes it during a call | answers go to who asked; calls return; no subprocess is left behind; handshake first | McpStdio |
| MCP over HTTP and OAuth, same file and `mcp/oauth` | session id, tokens, last event id | POST with SSE answer, 401 and 404 retries, resume | HTTP server | retry of what may have been done | one re-initialisation, no endless retry | - |
| Batch execution, `app/agent/batch`, `app/ui/batch_dialog.rs` | dialog state, job list, permits, cancel flag, tally | open, process, cancel, close; discover, spawn, join | one task per job on a runtime, the UI frame | permits given back by hand, panics, a dialog closed or opened again during a run | every job counted once, permits not lost, no agent after the flag, every batch joined | Batch |
| File watcher and workspace, `app/workspace`, `app/background/task.rs`, `app/background/indexer.rs`, file part of `app/orchestrator.rs` | file tree, tags per file, tag list | first scan, parsing workers, watcher callback, drains, create, delete, rename; notes created by the agent | background channel, file bus and agent bus to the UI | one change on two channels, the agent's on three; dropped events; scan racing changes; a watcher that starts after the scan, or does not | tree and tags agree with the disk in the end | Workspace |
| Tabs, viewer and editor, `app/ui`, `app/orchestrator.rs`, `app/command_executor.rs` | tabs, selection, loaded text, editor, marked files | select, toggle, close tabs, edit, delete, rename; loader threads | background channel, file bus | a file is read on a thread of its own and may change, go or be deselected before the answer is applied | the viewer shows the selected file as it is on disk; nothing that is gone stays open | Viewer |
| PDF conversion, router and write block, `app/background/pdf_converter.rs`, `app/bus/router`, `app/agent/session/pdf_backing_tracker.rs` | conversion queue, set of Markdown files with a PDF | queue by scan, watcher and router; convert; track | file bus, converter | several producers of one queue; a generated file is itself a change; a router that ends at a lag | each PDF converted, once; generated files write protected | PdfPipeline |
| Vector index, `app/background/vector_search.rs` | chunks believed stored per path, remote points | connect, load, scan, follow, index, remove | embeddings service, vector store, file bus | failure of one step of several; lag; restart in the middle | store holds what is on disk | VectorIndex |
| Discord bot, `app/integrations/discord` | gateway session and sequence number, rate windows, contexts | identify, resume, reconnect; messages, slash commands, clean-up | Discord, an LLM call per message | a connection that breaks between two events; a REST call that does not return; expiry during a call; window boundary | no event lost or twice over a resume; the rate is bounded; answers stand by their questions | Discord |
| Cursors and tool cache, `agent/tools/cursor.rs`, `cache.rs` | cursor to offset, expiry | create, next page | concurrent read-only tool calls of one turn | read, then write back | pages neither repeated nor skipped | - |
| Tool registry, `agent/tools/registry` | ArcSwap of tools and errors | refresh, record error | configuration subscriber, driver | rcu closure run again | no update lost | - |
| LLM client, embeddings, vision | none (HTTP) | request with retry | network | retry and backoff | bounded total time | - |
| Configuration, prompts, datamarking, Markdown, export, md2pdf, VFS, tool macros | local | sequential transformations | - | - | results, for unit tests | - |

Hazards are listed one by one, at their lines, in `PROJECT.json`, with the
properties that would catch each going wrong.

## What is modelled

How the modules relate. `EventBus` is the bus in detail, and implements the
abstract `DropOldestFeed`: every reader has a ring of its own that forgets its
oldest value when it overflows. The other modules use a bus in that form (the
`Publish`, `Ring` and `Lag` of `AgentSession`, `VectorIndex`, `Workspace` and
`PdfPipeline`), which the refinement justifies. `Workspace`, `Viewer`,
`PdfPipeline` and `VectorIndex` each take the same producers (watcher, scan) with
one consumer and the state that consumer keeps.

### EventBus, Broadcast, DropOldestFeed

`Broadcast.tla` states what `tokio::sync::broadcast` does with positions (ready,
lagged, drained, where a lagged receiver resumes); it is external, taken from how
`core.rs` uses it. `EventBus.tla` is `core.rs` over it. A value is its position in
the order sent.

| Code | Model |
|---|---|
| `Bus::publish` (send, then `notify_all` without the reader's mutex) | `Send`, `Notify`: two steps |
| `Drop for Bus` (notify, then the sender field goes) | `BeginDrop`, `FinishDrop` |
| `subscribe`, `clone`, reader dropped | `Subscribe`, `CloneHandle`, `DropReader` |
| `try_recv` | `TryRecv` (lag is skipped and reported as nothing) |
| `recv` / `recv_timeout`: attempt, then wait | `StartRecv`, `Attempt`, `Park` (two steps: the window between them is where a notification is missed), `SpuriousWake`, `Deadline`, `WaitTimesOut`, `FinalTry` |

The refinement mapping is `Backlog` (the values from the reader's position on that
the ring still has): although the code finds out about an overflow only at the
next receive, no reader can tell the difference.

### AgentSession

One conversation, across the UI thread, the user and the driver thread.

| Code | Model |
|---|---|
| `update_ui`: drain agent bus, drain commands, draw panels | `phase` = events, commands, panels; `DrainEvent`, `DrainLagged`, `DrainDone`, `ApplyRun`, `ApplyQueue`, `ApplyCancel`, `ApplyClear`, `CommandsDone`, `EndFrame` |
| `start_agent_session`, `submit_prompt` | `StartSession` |
| `AgentSession::cancel` | `Cancel` |
| panels: prompt box, Stop, Close, skills and Merge | `SubmitPrompt`, `ClickStop`, `ClickClose`, `ClickSkill` |
| `spawn_driver`, `run_agent_inner`, `process_turn`, `process_tool_results` | `TakePrompt`, `ResolveFails`, `BeginRun`, `LoopTest`, `TurnFails`, `TurnAnswers`, `RunTools`, `CloseRun`, `FinishRun`, `FinishFailedRun`; `DriverPanics` (nothing catches it) |
| `Drop for AgentSession` (join) | `CloseWindow`, `DriverExits`, `Joined` |

Abstracted: a prompt is its number; an event is its kind and its session, with the
four kinds that build the transcript as "Text" and the ones nothing depends on as
"Status"; the content of turns is a choice. `era` and `minted`, `typed`, `ended`,
`lostMilestone` are history variables. Several publishes of one handler that differ
only in "Status" events are one event.

`PromptLife.tla` says what all this promises a prompt, in six actions and without
frames, buses or threads: accepted, it waits until it is handed over or dropped; those
handed over run in that order, one at a time, each once; a stop reaches only what was
handed over. The mapping takes `Waiting` from the command bus, the queue and the
drain's local, the line from the channel of prompts, `Current` from the driver. The
drops are `OnFailed`, which empties the queue, and `OnFinished` twice in one drain,
where the second end overwrites the prompt that the first had taken.

### McpStdio

One MCP server configured over stdio, the threads that share its session, and its
subprocesses (a transport is the number of the subprocess it owns).

| Code | Model |
|---|---|
| `get_or_create_session` | `BeginCall` |
| `ensure_initialized`, `do_initialize`, `call_request_with_timeout` | `CheckPhase`, `Activate`, `Disconnect` around a request |
| `stdio_request` | `Connect` (the id, then the transport, under the first lock), `Write` (second lock, with the `expect`; the write may block with the lock held), `FinishWrite`, `Grab`, `Poll`, `Clock` |
| `recv_stdio_line` and the treatment of the line | `OnAnswer`, `OnPush` (a request of the server under the pending id: the call fails), `OnOther`, `OnJunk` + `DropForJunk`, `OnEof`, `OnSilence` |
| `stdio_write` (initialized and cancelled notifications) | `NoteConnect`, `NotePick`, `NoteWrite`, `FinishNote`, `NoteLost` |
| `mark_stdio_dead`, after a failed write, end of file, or a timeout | `MarkDead`, `GiveUp` |
| `update_config` / `shutdown`, `shutdown_stdio_transport` | `Retire`, `ShutdownAtLast`, `CloseAtLast` (a shutdown that had to wait for the lock, or for the stdin), `GraceOver` |
| `Drop for StdioTransport` when the last holder lets go | `DropSession` |
| the subprocess and its reader thread (external) | `Answer`, `Babble`, `Stall`, `Resume`, `Exit` |

Every acquisition of the session mutex is one step, since the code releases it in
between; a panic with the mutex held poisons it, and every later lock is an error. A
request is written with the mutex held and a notification with that of stdin only; both
wait while the pipe is full and the child reads nothing (`deaf`). That a server sends no
response before it has been sent the request is assumed of it. Not in it: progress
tokens, resources and prompts (they are requests like tool calls), several servers (each
has its own session), id wrap-around at 2^64.

### Batch

A batch from the dialog to the last task: the UI frame, the coordinator thread,
the loop that spawns and the loop that joins, and one task per job and model.

| Code | Model |
|---|---|
| UI frame: command drain, drawing of the dialog, deferred actions | `DrainOne` + `Apply` (`StartBatch`), `EndDrain`, `Draw` (`ClickOpen`, `ClickProcess`, `ClickLeave`, `ClickCancel`, `CloseWindow`), `Deferred` (join of a finished thread) |
| `BatchCoordinator::run` | `Discover`, `Build` (the runtime of the batch, which may not come to be) |
| `execute_concurrent`, spawning | `TestFlag`, `Acquire`, `AllSpawned` |
| `execute_concurrent`, joining and the tally | `Count`, `EndBatch` |
| a job task | `Begin` (second test of the flag), `NoClient`, `Panic` |

The agent of a job is its outcome. With a usable client that outcome is a panic
(see [Disagreements](#disagreements-between-code-and-documents)), so jobs end
failed, cancelled or panicked. File matching is the number of targets.

### VectorIndex

The index worker, two steps per remote call, with calls that fail, calls that
succeed and lose their answer, and restarts at any moment.

| Code | Model |
|---|---|
| start, connection, `load_chunk_index` | `Start`, `CannotStart`, `Load`, `Down` (the program ends or crashes) |
| `index_path_async` | `BeginIndex`, `Embed`, `Evict` (error ignored), `Upsert` |
| `remove_path_async` | `BeginRemove`, `Remove` (error ignored) |
| initial scan, receive loop | `Scan`, `ScanDone`, `Receive`, `Lag` (ends the thread) |
| watcher and file bus | `Change`, `StartWatcher` (late, for some libraries or none), `Watch`, `Publish` |

A text is the sequence of its chunks, the store keeps an offset per chunk.
`failed` and `missed` are history variables: files whose last indexing ended at a
failed call, and files that changed with neither the scan nor a report to tell of it
since.

### Viewer

Tabs, selection and the text shown, against a disk that other programs change and
loaders that answer late.

| Code | Model |
|---|---|
| start of the watcher, its callback: channel, then bus | `StartWatcher` (late, for some libraries or none), `Watch`, `WatchPublish` |
| loader thread: read, send | `SpawnLoad` (in `Draw`), `Read`, `SendLoaded` |
| frame: background channel, file bus, commands, drawing | `DrainChannel` (`Answer`, `Forget`, `FileDeleted`), `ChannelDrained`, `DrainEvents`, `EventsDrained`, `Apply`, `Draw` |
| commands | `Select`, `Toggle`, `Directory`, `CloseTab`, `CloseOthers`, `CloseAll`, `OpenInEditor`, `Delete`, `Rename` |
| editor closed with or without saving | `CloseEditor` |

`untold` (history) are the files about which the viewer has not been told: one that
changed where no watcher watched, or not yet, or that was moved away; one whose text
was applied when the file no longer had it, with nothing that tells so still on its way
(`News`, `Reported`); and one whose text was blanked for another file (`Blanked`).

### Workspace

The tree and the tags, from the first scan to the steady state.

| Code | Model |
|---|---|
| `Task::run_indexing`, `Indexer::scan_libraries`, parsing workers | `Visit`, `ScanDone`, `Parse`, `SendParsed`, `StartWatcher` (may fail), `Announce` |
| watcher callback | `Watch`, `WatchSend`, `WatchPublish` |
| frame | `DrainChannel`, `ChannelDrained`, `DrainEvents`, `EventsDrained`, `DrainEffects`, `EffectsDrained`, `Command` (`Create`, `Delete`, `Rename`) |
| `tool_create_note`, `extract_side_effects`, the agent bus | `AgentCreates`, `AgentReports`, `EffectDropped` |
| other programs | `Change` (`WriteOutside`, `DeleteOutside`, `RenameOutside`) |

`doubtful` and `renamed` are history: files whose last report was out of date or whose
only report may be lost, and files that another program renamed or moved away. A
deletion may be reported as a removal or, where the recycle bin is a rename, as a
modification of a file that is gone.

### PdfPipeline

| Code | Model |
|---|---|
| first scan, start of watcher and router | `Visit`, `StartWatcher` (may fail), `StartRouter` |
| watcher callback | `Watch`, `WatchPublish`, `WatchQueue` |
| `BusRouter` (ends at the first lag) | `Route` |
| `spawn_path_worker`, `PdfConversionJob` | `Take` (looks again), `Read`, `WriteMarkdown`, `WriteNothing`, `Fail`, `Done` |
| `process_file_events`, `PdfBackingTracker` | `Drain`, `Lag` |
| files | `Change` (`ChangePdf`, `ChangeMarkdown`, `AgentWrites`) |

Times are ticks of one clock; a PDF that is copied in may have been modified at any time
before. `missed` and `misled` are history: PDFs nothing
will queue again, Markdown files the tracker was told something wrong about.

### Discord

| Code | Model |
|---|---|
| Discord itself (external) | `Post`, `Forget` (of the session), `Greet` |
| `GatewayRunner`: connect, identify or resume, read loop, back-off | `Dial`, `DialFails`, `Receive`, `Disconnected`, `Invalidated`, `Retry` |
| `DiscordBot::run`: start, event loop | `Started`, `Returned` (a REST call of the loop), `HandleReady`, `RefuseMessage`, `BlockMessage`, `AskLlm`, `Answer`, `IgnoreMessage` |
| interactions | `TakeSlash`, `AcknowledgeSlash`, `RejectSlash`, `FollowUp` |
| clean-up tasks, time | `CleanContexts`, `CleanBuckets`, `Tick` |

`log` is what Discord has sent in the session; the number of an event is its place
in it. Heartbeats are abstracted to connections that end, REST calls to states of the
loop (`AtDiscord`) that it leaves when the call returns, if it does.

## Runs

TLC, two workers. Where a system really may stop the cfg says `CHECK_DEADLOCK
FALSE`: the bus may have no callers left, the application may have exited, bounded
calls, events, changes and starts run out (`bus`, `agent`, `mcp`, `mcp_handshake`,
`index`, `pdf`, `discord`, `discord_start`). In `batch`, `batch_targets`, `viewer` and
`workspace` some thread (usually the frame loop) always has a step, and deadlock is
checked.

| Run | Bounds | Result |
|---|---|---|
| `bus` | 2 publishers, 2 readers, ring of 1, 2 values | passes: `BusTypeOK`, `NothingVanishes`, `SleeperIsNotified`, `ImplementsFeed`, `TimedRecvReturns` |
| `agent` | 2 prompts, event ring of 3, fair threads | passes: `ImplementsPromptLife`, `PromptInOnePlace`, `RunningIsBacked`, `TranscriptIsTrue`, `ConversationIsolated`, `CancellationEnds`, `CompletionIsSeen` |
| `mcp` | 2 callers, 2 calls, 2 subprocesses, 1 line of noise or stall, fair threads and clock | passes: `TypeOK`, `AnswerIsOwn`, `NoOrphan`, `CallReturns`, `RetiredIsReaped` |
| `batch` | up to 3 jobs, 2 permits, 2 workers, 2 models, 2 batches | passes: `TypeOK`, `BooksBalance`, `CancelStops`, `BatchIsJoined` |
| `index` | 2 files of up to 2 chunks, ring of 1, 2 changes, 2 failed calls, 2 starts | passes: `IndexedIsStored`, `CaughtUp`, `CatchesUp` |
| `viewer` | 2 files, 2 texts, 1 change, 2 commands out of all nine | passes: `TypeOK`, `ViewerIsCurrent`, `NothingGoneIsOpen`, `SelectionIsLoaded` |
| `workspace` | 2 files, 2 tags, ring of 2, 2 changes out of all seven kinds | passes: `TagListIsCurrent`, `TreeIsCurrent`, `TreeSettles` |
| `pdf` | 1 document, ring of 1, 3 changes | passes: `TypeOK`, `ConvertedOnce`, `GeneratedIsProtected`, `PdfIsConverted` |
| `discord` | 1 user, 1 channel, limit 1, window 2, time to live 2, history of 3, 3 events, 2 connections, 4 ticks | passes: `TypeOK`, `ResumesExactly`, `AtMostTwice`, `AnswerFollowsQuestion`, `EventsAreHandled` |
| `mcp_handshake`, `batch_targets`, `discord_start` | see the .cfg | each violates the one property it checks: see [Disagreements](#disagreements-between-code-and-documents) |

What the properties say is in a comment above each of them. The type invariants of
`AgentSession`, `VectorIndex` and `Workspace` are proved (`TypeCorrect`) and not in a
run. Why the bounds are enough to be interesting:

- *bus*: a ring of one is overwritten by the second value; two readers are needed
  for a notification meant for one to find the other between its attempt and its
  wait; two publishers for a drop to race a publish.
- *agent*: two prompts are one that runs and one that is queued, submitted on top of
  it, or typed after a Stop or a Close; with a ring of three, one run already
  overflows it, so runs with and without lost milestones both occur. The number of
  frames, clicks on Stop and Close, and turns is not bounded, so a model that never
  stops asking for tools is included.
- *mcp*: two callers are the fewest that can find each other's transport and lines;
  two subprocesses allow one respawn, two calls a handshake by one caller while the
  other waits; one line of noise, and the answers to the other caller, are skipped, and a
  request of the server under the pending id is not; a stall in place of the line of
  noise blocks a write of either kind.
- *batch*: three targets over two permits make the loop wait for a permit that a
  panic gives back; two models are a usable and an unusable one; two batches let a
  second be asked for while the first runs, is cancelled or is left.
- *index*: two chunks are enough for a text that keeps, loses, gains or moves one;
  a ring of one lags at the second event; two faults let the call fail whose retry
  fails too, and two starts a restart in every step of an operation.
- *viewer*, *workspace*: two files are a rename over another, or the selection moving
  to another while the first is loaded, and a library with a watcher beside one
  without; a ring of two overflows during a scan; two changes are a note of the agent
  and its deletion.
- *pdf*: three changes are a PDF that comes, changes during its conversion and goes,
  or a Markdown file deleted and written in between. Documents do not interact but in
  the queue and the ring, and a ring of one is overrun by the events of a single one.
- *discord*: three events are one received before a break, one lost with it and one
  resumed; four ticks are two windows.

State constraints are not used; bounds are guards on the constants marked "bound" in
the modules.

Each property of a passing run has a mutant: a definition with a plausible bug
(dropped guard, missing reset, wrong resume position) under which TLC finds that
property violated. The mutated forms stand before the definitions they replace and
are called "Mutant" in their comments.

## Fairness

Weak fairness only. A thread that is able to run does, remote calls and converters
return in the end, time passes; nothing makes the user, Discord, a subprocess, the
configuration or the file system do anything.

- *EventBus*: the steps inside a call (`Notify`, `FinishDrop`, `Attempt`, `Park`,
  `Deadline`, `WaitTimesOut`, `FinalTry`). Starting a call, subscribing and dropping
  are not fair, nor is a wakeup without a cause.
- *AgentSession*: the UI thread's frame work and the driver thread. The driver's
  steps end because the HTTP client has timeouts (`agent/llm_client.rs:154-155`) and
  tools return or panic. `LoopTest` and `RunTools` may alternate for ever.
- *McpStdio*: a caller inside a call, the clock, the one second grace of a shutdown,
  a shutdown that waited for a lock, and the drop of a session nobody holds. Nothing
  makes a subprocess read, so a write that is blocked need never end.
- *Batch*: the coordinator thread, the tasks on the workers, and the UI frame.
- *VectorIndex*: the worker, and the watcher's callback; not the watcher's start.
- *Viewer*: the steps of a frame, the loader threads, the watcher's callback; not its
  start.
- *Workspace*: the indexing thread with its parsers, the watcher, the frame. Nothing
  makes the agent create or report.
- *PdfPipeline*: the scan, the watcher, the router, the worker, the frame. The
  converter is a subprocess without a timeout: that it ends is assumed.
- *Discord*: Discord goes on with a connection it has accepted (`Greet`), the read loop
  and the bot's loop run, the latter but for its REST calls: their client has no timeout
  (`bot.rs:60`), and nothing makes one return. `EventsAreHandled` is about executions
  in which each does. The LLM client has a timeout. Nothing makes a connection, and
  nothing ends one that works.

## What is proved

The theorems are for every value of the constants, from the named assumptions in
the modules only (rings, permits and windows are positive, bounds are natural
numbers, sets that are counted or listed are finite, the values that stand for "gone",
"none" and "unread" are not files, texts or tags). `tlapm` checks every leaf.

| Module | Theorems | Invariant they rest on |
|---|---|---|
| AgentSession_proofs, the bus | `BusTypeCorrect`, `NothingUnaccounted`, `NoLostWakeup`, `DeliveryInOrder`, `BusImplementsFeed` | `BusInv`: a reader's position lies between where it subscribed and the tail; delivered and lost values partition what lies in between; losses are a ring old |
| AgentSession_proofs, the conversation | `TypeCorrect`, `RunningHasABacking`, `TranscriptIsOfTheRun`, `NoMessagesAcrossAClose` | `StartOfRunIsLast`, `OneEraPerSession` |
| AgentSession_proofs, the prompts | `PromptsInOnePlace`, `SessionKeepsPromises` | `Once`: every queue holds a number once (`Single`), and no two of them the same (`Alone`); `FlagIsHanded`: the flag that Stop raises is of a prompt with the driver |
| McpStdio_proofs | `TypeCorrect`, `AnswersAreOwn`, `NoOrphans` | ids are worn by one caller (`Ids`), and requests and answers under way name their wearer (`Mail`) |
| Batch_proofs | `TypeCorrect`, `BooksAlwaysBalance`, `RunningBatchIsOwned`, `FlagStopsAgents` | `Orderly` (what a job can be, seen from the spawning loop), `InPlace` (where that loop is) |
| VectorIndex_proofs | `TypeCorrect`, `IndexNeverAheadOfStore`, `WorkerHasCaughtUp`, `NoChangeIsForgotten` | `Believed`, `Forgotten`, `Known`, `Waiting`; and for the last `Reports`, `Following`, `Scanned`, `Trimmed` |
| Workspace_proofs | `TypeCorrect`, `TagListAlwaysCurrent`, `TreeAlwaysCurrent`, `NewsIsOnItsWay` | `Stages` (where a file is before the watcher runs), `InTransit`, `ListInTransit` |
| Viewer_proofs | `TypeCorrect`, `ViewerAlwaysCurrent`, `NothingGoneStaysOpen`, `AwaitedLoadIsUnderWay` | `LoadedInv`, `TabInv`, `MarkedKnown`, `PendingInv` |
| PdfPipeline_proofs | `TypeCorrect`, `NoSecondConversion`, `GeneratedWillBeProtected` | `Timely`, `Due`, `Protected` |
| Discord_proofs | `TypeCorrect`, `ResumesExactlyAlways`, `AnswersFollowQuestions`, `TwiceTheLimitAtMost` | `RunnerInv`, `Asked`, `Windows` |

The arguments, in short:

- **The bus.** `NothingVanishes` alone is not inductive: for a reader placed before
  the position it subscribed at, the next delivery would be in no account.
  `StepCases` reduces the actions to what they do to the books of one reader (stays,
  takes, skips, joins, leaves), and `BookKept` is proved once per kind. In the
  refinement a send is `Publish`, a delivery is `See`, discovering a lag is a stutter,
  because the values it skips left the `Backlog` when they were overwritten.
- **The conversation.** `TranscriptIsTrue` speaks of the moment when no start is in
  flight; to be kept it needs that the last start in flight is that of the run in
  progress. `ConversationIsolated` speaks of the run in progress and the history; the
  strengthening extends it to the prompts still in the channel and to the current
  session, and says that no unminted session is in use. What the bus does to the
  events in flight is proved once, in `PublishKeeps` and `DrainKeeps`.
- **The prompts.** The places of a prompt are turned into queues of numbers, with
  lemmas for what appending and taking do to "holds" and "holds once"; a step of the
  UI, the user or the driver moves one number from one place to another. In the
  refinement those moves are the steps of `PromptLife`: a prompt that leaves the places
  of `Waiting` without entering the channel is a `Drop`, a submission is a `HandOver`
  because the prompt waited in one place only (`Once`), and a Stop or Close that raises
  the flag is a `Stop`, for which the flag has to be of a prompt handed over
  (`FlagIsHanded`, kept because nothing handed over is ever taken back, `HandedStays`).
- **McpStdio.** A caller that has given its id up, by timeout or error, leaves mail
  that nobody can match. Nearly all steps keep ids and bring no news (`KeepIds`,
  `NoNews`) and are dealt with by `QuietStep`; `Connect`, `Write`, `FinishWrite` and
  `Answer` are the ones with an argument of their own.
- **Batch.** Permits held and jobs counted are cardinalities of sets of jobs; a step
  adds or removes one job (`JobSets`). That the books balance needs to know that the
  spawning loop has not reached a job that has no task yet. That no agent starts after
  the flag is an action property of `Begin`.
- **VectorIndex.** The index is a lower bound of the store after every step of an
  operation, also when a call fails and the store took it; it is an upper bound too, as
  long as no call has failed, but for the file whose points are being deleted, which is
  forgotten first. That it agrees with the files when the worker has seen every change
  (`CaughtUp`) rests on the order of reports: those before the last one of a file may
  tell what the file was, the last one tells what it is (`NoticesTrue` of the notices,
  `QueueTrueOf` of the ring, given no notice of the file behind it). So a file the
  worker is wrong about is in `missed`, or `Expected`: a report of it is to come, or the
  scan is; where nothing watches, nothing is reported (`Quiet`); a report received is
  the last, and then the operation begun is right, or another follows. An operation is
  right if it works on the text on disk, and ends in `failed` or with the index equal to
  that text, for which nothing obsolete may be left when it stores (`Trimmed`).
- **Workspace.** For every file the UI is wrong about, the news of it is somewhere on
  the way: among the notices, between the two sends of the watcher's callback, on the
  channel, on the ring, with the scan or with a parser (`InTransit`); the drains are
  ordered, so what is on the way is of the file's last state or followed by a report
  that is. What the agent reports need not be: it is believed when drained, and if it is
  out of date by then and no other report is to come, the file is in doubt (`Believe`).
  `ListInTransit` says the same of the list of tags, which is rebuilt after most changes
  of the tags but not all.
- **Viewer.** A loaded text is the one on disk, or the file is untold, or news of
  it is on the way (`LoadedInv`); a tab of a file that is gone has news on the way too
  (`TabInv`), for which a marked file has to be known (`MarkedKnown`); and a load that
  is waited for is under way or its answer is on the channel (`PendingInv`). The
  operators that take files out of a list of tabs are recursive functions over it;
  what they keep is proved by the least counterexample (`Least`, `Induction`).
- **PdfPipeline.** What the worker has taken is still to convert when the converter
  starts: whatever changes meanwhile is newer than anything a Markdown file was
  generated from. For the write block, a generated file is tracked, or its
  announcement is on the ring, or the worker has still to send it, or the ring has
  overflowed and the UI will know.
- **Discord.** Events received and queued are numbered in order (`Numbered`,
  `Placed`, `Coming`), and of the session to be resumed all up to the number kept are
  in (`Resumed`). A history grows by a turn at its end and loses turns at its front
  (`Grown`); the question being answered stands last (`Asked`). Admissions of a span
  of one window fall in at most two windows of the limiter, each with at most the
  limit (`Fits`, `Over`).

**Only model-checked**: liveness (`TimedRecvReturns`, `CancellationEnds`,
`CompletionIsSeen`, `CallReturns`, `RetiredIsReaped`, `BatchIsJoined`, `CatchesUp`,
`SelectionIsLoaded`, `TreeSettles`, `PdfIsConverted`, `EventsAreHandled`), since the
prover has no rules for fairness and ENABLED. Every invariant, action property and
refinement that a passing run checks is also proved. What each liveness property adds to
a proved one is only that the quiet state comes: `CaughtUp` says what holds in it for
`CatchesUp`, `TreeIsCurrent` for `TreeSettles`, `ViewerIsCurrent` for
`SelectionIsLoaded`; and `NoChangeIsForgotten`, `NewsIsOnItsWay` and
`AwaitedLoadIsUnderWay` say that until then what is missing is on its way. Induction
over data is needed in one place, the lists of tabs of `Viewer`; there is no RECURSIVE
operator.

## Disagreements between code and documents

Each is a run that TLC finds violated by the model of the code, and a finding in
`PROJECT.json` with the quoted line.

- `mcp_handshake`: a request is written to a subprocess that was never initialized,
  after a shutdown that leaves the phase Active, or after a lost `initialized`.
- `batch_targets`: a batch job with a usable client panics before its first call,
  since the agent blocks on a runtime inside a worker of another; the prompt is
  processed for no file.
- `discord_start`: `GatewayClient::start` returns when the first connection has
  ended, not when it has opened; until then the bot handles nothing.

## Limits

What the models show the code not to do, or to do only with an exception. The
exceptions are stated in the properties, as history variables or guards, so that each
property says what does hold.

- *Bus.* A `recv` without timeout may sleep over a closed channel (notified before
  the sender is gone) or a value sent between its attempt and its wait, since
  `publish` and `drop` notify without its mutex. The one caller of the blocking form
  (`app/agent/batch/executor.rs:265`) calls it after everything was published;
  `TimedRecvReturns` is about `recv_timeout`, whose deadline ends such a sleep.
- *Agent.* A prompt queued in the frame whose drain has already seen the end of the run
  is started only when another run ends; and when two runs end in one drain, the queued
  prompt taken at the first end is overwritten by the second and lost. Stop raises the
  flag of the prompt submitted last: after a skill or merge started during a run, it
  does not reach that run. Closing the window waits for every run that is not cancelled.
  The end of an older run removes the Stop button of the run in progress, and text still
  on the bus for a closed session is applied to the emptied transcript. When the bus
  drops the end of a run (`lostMilestone`), and when the driver thread panics, the UI
  stays running for good; after a panic, which the tool refresh can cause
  (`agent/agent_impl.rs:31`, `agent/lib/mcp/session.rs:936`) and nothing catches
  (`agent/session.rs:429-480`), prompts go to a channel that nobody reads.
  `RunningIsBacked` and `CompletionIsSeen` except exactly these two.
- *MCP.* `McpStdio` reaches the `expect` at `agent/lib/mcp/session.rs:936` with no
  transport installed (a caller ends at "panicked"): another thread's
  `mark_stdio_dead` or a shutdown between the two locks is enough. `CallReturns`
  counts that as an end of the call, and shows that the other callers, who find the
  mutex poisoned, return too. Of two callers on one session, one discards the answer
  the other waits for; that one times out, and kills the transport of the first. Frames
  are told apart by their id alone (`session.rs:1038-1046`): a request of the server under
  the pending id is returned as the response and fails the call, since it has no result
  (`OnPush`). A write to a child that does not read blocks, with the session mutex held
  (`session.rs:931-945`) and before the deadline is looked at (`:954`): that caller, and
  all who want the mutex, wait for as long as the child likes. The comments at
  `session.rs:927-930`, "We hold only the stdin mutex for the duration of the write", and
  `:1222-1223`, "a stuck server can't hang us forever", say otherwise. `CallReturns` and
  `RetiredIsReaped` leave out what waits for a blocked write. That a server answers
  nothing it was not asked is assumed of it.
- *Vector index.* The offset stored with a chunk is right only until text moves above
  an unchanged chunk (`vector_search.rs:251`), since only hashes are compared. A file
  whose indexing failed is not tried again before its next change (`failed`). Points of
  a file deleted while the program was not running, or moved away, are never removed, and
  a file that changed after the worker scanned it and before the watcher started
  (`background/task.rs:148-166`), or where none could be started
  (`file_watcher.rs:248-254`), stays as it was indexed until its next change or the next
  start (`missed`). Points whose deletion failed leak. The events that the program
  publishes of its own changes are left out of the model: they tell the worker of some
  of these files. A lag ends the worker until the next start.
- *Viewer.* Files that change before the watcher runs, or without one, are not loaded
  again and their tabs not closed, nor are the tabs of files moved away (`untold`). An
  answer that a handled change has overtaken is applied as it comes (`untold`): when a
  file is changed after its loader thread has read it, and the change is handled before
  the loader's answer, nothing is loaded yet to be reloaded (`orchestrator.rs:485`) and
  no second load is started because one is pending (`orchestrator.rs:614`); the old text
  is then applied and stays until the next change, which REQ-405 does not allow for. The
  text shown is blanked while another file is loaded when the load of a file fails, or
  when the selected file is deleted. The tab strip and the set of known tabs may differ:
  a file closed and selected again has no tab.
- *Workspace.* A rename by another program leaves the old name in the tree, and so does
  a file moved out of the library or into the recycle bin by one, which is a rename on
  Linux and macOS (`renamed`). A file the user deletes goes through the recycle bin too
  (`recycle_bin.rs:140-153`): if that is a rename, only the event on the bus, which may
  be dropped, takes it out of the tree. A note that the agent created and reports
  (`orchestrator.rs:408-416, 448-450`) is put into the tree when the report is drained,
  after the channel and the bus: if its deletion was handled before, it stays there. A
  file about which an event was dropped, and one that changed after the walk and before
  the watcher ran, or without a watcher, stays as it was until its next change. All of
  these are `doubtful`. The agent's edits and moves are among the changes by other
  programs: the `Updated` it publishes of them the UI passes over.
- *PDF.* The router ends at its first lag; the watcher queues the PDF as well, which
  is why `PdfIsConverted` holds. A PDF that changes while it is converted, before the
  watcher runs or without one, or whose conversion failed, is not queued again (`missed`),
  nor is one whose Markdown file is deleted, nor a PDF copied or renamed over another that
  is older than the Markdown file made of that. The tracker asks for the PDF only when the
  Markdown file is discovered (`misled`). The converter has no timeout.
  A PDF replaced by the very version it was before is not modelled: each change makes a
  version of its own.
- *Batch.* A batch whose runtime cannot be built (`executor.rs:43-55`) ends with a
  total but no job counted.
- *Discord.* The rate limiter has fixed windows, although it is documented as
  sliding: up to twice the limit in a span of one window. Slash commands pass neither
  the limiter nor the input filter (DISCORD-006, DISCORD-007). An interaction waits
  behind an LLM call, past its three seconds. The loop awaits its REST calls
  (`bot.rs:104, 169-188, 246-248, 380-404`) on a client without a timeout (`bot.rs:60`):
  one that stalls stops the bot for good. The intents leave out direct messages,
  which DISCORD-002 promises. The resume URL is kept after an invalidated session and
  never falls back to the default. With a history of length 0 the LLM is sent no
  question; the answer of a context that expired meanwhile starts a new history.

## Not modelled

- *Cursors and tool cache.* `next_page` is one read and one write of a cached value;
  the read-only calls of one turn run in parallel (`agent/tool_executor.rs:218-262`),
  so two of them with one cursor may get the same page (`cursor.rs:146`). A hazard
  without a property.
- *Tool registry.* One immutable value behind ArcSwap; what is slow in its refresh is
  MCP discovery, whose sessions are in `McpStdio`.
- *MCP over HTTP, OAuth.* Requests one at a time, with retries after 401 and 404.
- *Vision worker.* The shape of the PDF worker, behind a feature.
- *Directories and images* in the workspace; events on directories.
- *Sequential code*: rendering, Markdown, export and md2pdf, configuration, VFS,
  prompt assembly and datamarking, the individual tools, the LLM and embedding
  clients (one request each, whose outcome is a choice in the models), the tool
  macros. Much of the repository is of this kind, and its hazards are those that unit
  tests reach. This is why the mapped lines are a small share of all lines: the map
  covers the concurrent core.

`PROJECT.json` lists every component with its status.

## Plan

Done, in this order: `EventBus` (everything rests on it), `AgentSession` (the
program's central promise to its user), `McpStdio` (the richest failure handling),
`Batch`, `VectorIndex`, `Viewer`, `Workspace`, `PdfPipeline`, `Discord`, and the
proofs of all their safety properties.

What would come next, most important first:

1. `Cursor`: next page under the concurrent calls of one turn, with expiry.
2. The MCP HTTP transport: 401 and 404 retries, resume of an SSE stream.
3. That the event feed of `AgentSession` is `DropOldestFeed`, so that
   `BusImplementsFeed` closes the gap between the two modules by a proof. It needs a
   count of the events published as a history variable, since a value of the abstract
   feed is its number.
