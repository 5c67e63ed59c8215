# Verification of the pillbug runtime in TLA+

pillbug is an asyncio runtime for a personal AI agent: channels bring messages
in, a chat session per conversation answers them through a model, tools let the
model send messages, run shell commands and schedule tasks, and an operator
steers all of it through a control API. It is one process with one event loop.
No two statements of it run at the same time; everything that can go wrong
between two actors goes wrong at an `await`, at a crash, or at a write that
fails. That is what these specifications are about.

Paths below are relative to the repository root.

## 1. Inventory

### Components, their state and what makes them correct

| Component | State it keeps | Operations | Correct when |
|---|---|---|---|
| Draft stores: `app/runtime/approvals.py`, `app/mcp/tools/commands.py`, `app/mcp/tools/outbound.py`, `app/runtime/commands.py` (`/yes`, `/no`), `app/mcp/http/control.py` | two dictionaries (command drafts, outbound drafts), one JSON file per draft, one `asyncio.Lock` per store | create, decide, consume, commit, discard; every tool and HTTP handler that calls them | a draft's effect happens at most once, only with consent, never after a refusal, also across restarts and failed writes |
| Inbound loop: `app/runtime/loop.py` (`run`, `_consume_channel`, `_schedule_flush`, drain, shutdown), `app/__main__.py` | listener tasks, event queue, `_pending_messages`, `_flush_tasks`, two flags | receive, debounce, flush, answer, drain, shut down, clear | messages are neither lost, duplicated nor reordered; a drain ends and loses nothing; shutdown exits |
| Session history: `app/core/ai/session.py`, `app/core/ai/service.py`, `app/runtime/loop.py` (`_get_session`, `_maybe_auto_summarize_session`), `/clear` | `_sessions`, the chat object with its history, one JSON file per session, a lock for summarizing | restore, send, nudge, save, compact, roll back, inject, reset | what was answered is remembered until it is summarised or cleared; what was cleared stays cleared |
| Outbound dispatch and budget: `outbound_dispatch.py`, `outbound_budget.py` | send timestamps and counts per conversation, pending injections | check and charge, dispatch, track, inject | no window sees more sends than its limit; nothing unsent is tracked or told |
| Task scheduler: `app/runtime/scheduler.py`, `task_store.py`, `task_runtime_state.py` | definitions in memory and one JSON file, a lock; registered functions; Docket's queue, parked executions and stream; the running set; forbidden actions per session | create, update, enable, disable, delete, run now; move due tasks, execute, reconcile, restart | the worker runs a task one at a time, a one-shot once, never a retired revision; an enabled task is run in its latest revision |
| A2A channel: `packages/pillbug-a2a`, `app/mcp/http/a2a.py`, `A2AEnvelope` in `app/schema/messages.py`, the reply routes in `loop.py` | inbox queue, waiters by reply id, origin metadata per session | ask, request with timeout, enqueue, answer, close | every request ends; an answer resumes its request or reaches the session that asked; answers are not answered |
| Planning mode and file tools: `app/mcp/tools/planning.py`, `session_mode.py`, `files.py` | mode and planning record per session, plan files, workspace files | enter, exit (model and operator), clear, create, replace | tools stay gated until a plan is on disk; a created file keeps its text unless a replacement breaks off |
| Session telemetry: `session_telemetry.py` | counters, cache-hit warning flag | record | warns once per excursion |
| Channel registry: `channels.py` | plugin instances, known conversations, their copies in the cache, one sync task per channel | activate, register, unregister, sync, describe, close | the cache ends up with the latest set; one live instance per channel |
| Security pipeline: `pipeline.py` | none | filter a batch | pure text rules |
| MCP server, authentication, HTTP plumbing | none of its own | route | out of scope |
| Other workspace tools (fetch, todo) | a todo list, replaced whole | I/O | out of scope |
| Telegram channel | update offset, current batch | poll, handle, send | Telegram forgets no update before it is handled, none is handled twice in a life |
| Matrix channel | sync token, current batch | sync, handle, send in threads | what the token has passed is handled, in the batch, or lost in a known way; a thread is one session |
| Slack channel | event queue, socket | acknowledge, queue, handle, send | what is acknowledged is handled unless the process ends or the listener is cancelled; one delivery is one message, in order |
| Websocket channel | two socket tables, last activity per session | connect, message, stream, evict, close | tables agree; the last message of a turn is whole; idle sessions go |
| Trigger channel | buffered events, flush tasks, sources file and its cache | receive, debounce, flush; create, update, delete a source | each event in one batch, in order; tool calls do not undo one another, but for one whose write breaks off |
| Memory package | notes and their index | save, search | I/O and ranking |
| Dashboard | none | display | reads the telemetry |
| Model API proxies | none between requests; a stream's assembler within one | translate | Anthropic accepts every history, OpenAI one whose calls are answered; a finished stream is whole |

### How they interact

- A channel's `listen()` yields into the loop's queue. The loop's debounce timer
  turns into the task that answers the batch (`_flush_after_debounce` ->
  `_flush_messages` -> `_respond`); from then on nobody tracks it.
- That task runs slash commands (`RuntimeCommandHandler`), which reach the draft
  stores (`/yes`, `/no`) and the sessions (`/clear`), or sends the batch to the
  session of the conversation.
- While the model answers, its tool calls arrive through the MCP server as
  requests of their own: they reach the draft stores, other channels, and, by
  `_inject_outbound_turn`, the history of the conversation a message was sent to.
- The control API reaches the same objects from the operator's side: it decides
  drafts, clears sessions, drains, shuts down.
- The scheduler sends into sessions of its own, next to the loop's turns. Its
  requests come from tools and the control API; its runs are called by Docket's
  worker, whose loop from queue to stream pillbug replaces (`PillbugWorker`).
- Draft stores hand a committed draft to `dispatch_outbound_draft`, which charges the
  budget, gets the channel's plugin from the registry and awaits its send.
- Two runtimes talk through their A2A channels; an answer either resumes the request
  that waits for it or becomes a turn whose reply goes to the session that asked.
- The model is reached through google-genai, directly or by one of the proxies, whose
  histories are those `SessionHistory` and `ModelTurn` leave behind.

### What is hard here

Everything is single-threaded, so a unit test that awaits one call after another
passes. The hard part is what comes between: a status read before an `await` and
used after it; a dictionary entry replaced while someone holds the old object; a
file that is truncated before it is written; tasks cancelled before their first
step; a lock that is released with an exception in flight. `PROJECT.json` lists
these hazards at their lines, with the properties that cover them.

## 2. Modules

| Module | Models | Against |
|---|---|---|
| `ApprovalStores` | both draft stores with cache, files, locks and all requests | implements `DurableDrafts` |
| `DurableDrafts` | the promise: a durable status that only moves forward and licenses one performance | abstract |
| `ApprovalStores_proofs` | theorems | TLAPS |
| `InboundLoop` | listeners, queue, debounce, turns, drain, shutdown, clear, end of `main()` | - |
| `InboundLoop_proofs` | theorems | TLAPS |
| `SessionHistory` | the history of one session key in memory and on disk | - |
| `SessionHistory_proofs` | theorems | TLAPS |
| `TaskScheduler` | one scheduled task: store, file, registration, Docket, mover, runs, requests, watchdog, restarts | - |
| `TaskScheduler_proofs` | theorems | TLAPS |
| `TelegramChannel`, `MatrixChannel`, `SlackChannel` | the inbound side of three platform channels, with the platform's memory as environment | - |
| `ChannelSends` | the outbound side of the three: presence, chunks, attachments | - |
| `WebSocketChannel` | sockets, eviction, payloads, streamed replies | - |
| `TriggerChannel` | HTTP events, debounce, sources file | - |
| `ChannelRegistry` | plugins, known conversations, cache syncs | - |
| `PlanningMode` | planning mode, plan files, file tools | - |
| `A2AExchange` | several runtimes that ask and answer each other | - |
| `OutboundDispatch` | budget, dispatch, injections | - |
| `ModelTurn` | one model turn from the inside | - |
| `GeminiTranslation` | what the proxies make of a history, a part at a time | - |
| `ProxyStream` | what the proxies make of a streamed answer | - |
| `Adapters` | the channel modules and the registry with their constants, side by side | composes |
| `Adapters_proofs`, `Listeners_proofs` | theorems on what the channels send and keep, and on what they hand over | TLAPS |
| `Components` | `Adapters` and the other six of these thirteen | composes |
| `Components_proofs` | theorems on the services but the translation | TLAPS |
| `Composition_proofs` | theorems on the translation, and on the types of all components | TLAPS |
| `MC*` | constants for TLC | - |

The refinement mapping from `ApprovalStores` to `DurableDrafts` (`Durable`) stands at
the end of `ApprovalStores`. The constants of a component are the fields of one record
(`TelegramConf`, `ExchangeConf`, ...), so that each component keeps its own names;
components that run under several configurations (`SlackConf`, `WebSocketConf`) have a
function from names to such records.

Operators named `X_Word` directly before an operator `X` are variants of the code
with one plausible mistake. They are used by no specification; replacing `X` by
its variant must break the property that `PROJECT.json` pairs them with.

### ApprovalStores

One request slot is one task of the event loop that serves an MCP tool, an HTTP
handler or a slash command. Its plan (`todo`) is the list of statuses the handler
asks the store for, ending in `"act"` when it then runs the command or sends the
message: `run_approved_command` is `<<"used", "act">>`, `/yes` on a command is
`<<"approved", "used", "act">>`, `draft_command` under
`PB_DANGEROUSLY_APPROVE_EVERYTHING` is `<<"pending", "approved">>`. Each status is
one acquisition of the store's lock:

- `Transition`: the lock is granted (`Holds`: head of its FIFO queue), the check
  passes, the cache changes. `Refuse`: the check raises, the lock is released.
- `PersistDone` / `PersistFail`: the awaited `write_text` ends or raises. The
  cache is *not* rolled back when it raises; that is the code.
- `Act` / `ActFail`: the effect, after the lock was released.
- `Crash`: at any moment. A file being written is then old, torn or new; torn
  files are skipped when the store loads (`LoadedFrom`).

What a request sees without the lock (`commit_outbound_message`, `/yes`, `/no`
look before they ask) is in the guards of `CommitOutboundMessage`, `HandleYes` and
`HandleNo`; nothing forces the draft to stay as seen until the lock comes.

`Autosend(d)` is `_channel_is_autosend`: the channel is configured so, or
`PB_DANGEROUSLY_APPROVE_EVERYTHING` (`Bypass`) is on, which makes every channel one
(`app/mcp/shared.py:106`). `Send` and `CommitOutboundMessage` go by it.

### InboundLoop

`inbox` is the `asyncio.Queue`; a channel name in it stands for `_ChannelClosed`.
`flush` is the key set of `_flush_tasks`, `pending` is `_pending_messages`,
`open` is `open_channels`. `FlushMessages` is the whole synchronous step from the
end of the sleep to the pop of batch and timer; after it the batch is in `turns`,
which no variable of the code holds. `Cancelled` is what `Task.cancel()` does to a
listener: one that has not taken its first step is gone without running its
`finally` block; the others run it at their next step (`ListenerEnds`). A session
key may be a textual prefix of another session's keys; `Prefixed` is what
`startswith` sees and `SessionOf` what a debounce key belongs to.

### SessionHistory

A history is a sequence of *exchanges*, as google-genai records them: a user turn
together with the answer. Objects are `GeminiChatSession` instances, at most `MaxObject`
referenced at once (an object nothing refers to may be taken again, as memory is).
`live` is `_sessions[key]`. A worker is a turn, or another session's turn that injects
what it sent into this history. Workers take one step per `await`:

- `Found` / `Created` / `Restoring` -> `RestoreRead` -> `RestoreDone`: `_get_session`.
  `RestoreDone` installs its object whatever `live` has become meanwhile.
- `SendMessage`, `ModelAnswers` / `ModelSilent` / `TurnFails`: one model answer.
- `SaveOpen` (truncates), `SaveWrite`, `SaveFails`: `save_session_history`.
  `AfterSave` is where the worker goes on, nudges included.
- `BeginCompaction` ... `ReplaceHistory` / `Rollback` / `MemoryReset` /
  `MemoryFails`: `_maybe_auto_summarize_session` in its two modes. `Rechatted`:
  replacing a chat leaves whoever waits for the old one with a history nobody
  reads. `Unlinked`: deleting a file leaves whoever writes it with a file nobody
  finds.
- A compaction that succeeded is `Notifying`: the "Session compressed" notice is sent
  with the summarizing lock still held (`loop.py:594-598`, inside the `async with` of
  535). `NoticeOver` is its end, sent or not, and the only step that releases the lock.
- `Clear`, `Crash`.

`Allowed` switches on what the checks separate: overlapping workers, failing
disk, torn files, clears. Each run below names what it allows; the proofs hold for all
of them.

### TaskScheduler

One task, whose executions in Docket share one key. `task` and `file` are the
definition in `TaskStore.tasks` and in `agent_tasks.json`; a definition is its
revision and whether it is enabled, the schedule's kind is the constant `Kind`.
Every reader waits for the store's lock (`Look`); every writer keeps it from the
change (`Change`) until the awaited write ends (`Written`) or raises
(`WriteFails`: the change stays in memory, the file may be truncated).

- *Docket* is external. `docket` is its record of the key: state, due time, whether
  the execution is parked and in the queue. `stream` counts the key's messages: of
  the latest schedule, and superseded ones. `Replace`, `Add`, `Cancel`,
  `Take`, `Drop`, `Complete` are what the scheduler relies on; versions of Docket
  that do not know superseded messages are `Generations = FALSE`.
- *Mover*: `FindDue`, `ReadParked`, `AddToStream`, `Unpark`, `Unqueue`,
  `MarkQueued` are the awaited Redis calls of `_scheduler_loop`. Between two of them
  an update may park a new execution under the same key.
- *Runs*: `Take` binds the message to the closure that is registered by then.
  `Execute` / `RefuseStale` / `SkipConcurrent` is `execute_registered_task` up to
  the model call; `RunTaskNow` goes the same way without the running set. `Answer`
  clears the gate; `Latest`, `Disable`, `RecordRun`, `RunWritten`,
  `RunWriteFails` are the rest of the `finally` block, one step per turn of the lock.
- *Requests*: `Create`, `Update` (also enable and disable) and `Delete` take the
  lock; `Apply` registers and schedules after it was released.
- *Watchdog*: `Snapshot`, `Known`, `Inspect`, `Reschedule`, `CancelOrphan`; a
  definition is copied in `Known` and used in `Reschedule`.
- `Crash`, `Start`, `Register`: with Redis, Docket's state survives and the
  messages of open runs come again. A file that does not parse ends the start.

### The channels

`TelegramChannel`, `MatrixChannel` and `SlackChannel` keep what the platform keeps
(`arrived` with the number of updates `forgotten`, `stream`, `wire`) next to what the
plugin keeps (`offset`, `token`, `queue`), because their properties are about the two
together. One step is what runs between two awaits: `TakeUpdate` moves the offset,
`HandleUpdate` is `_handle_event` with its downloads and its reply to `/start`; `Sync`
moves the token and fills `batch`; `Acknowledge` and `Enqueue` are the two halves of
`_on_socket_request`. `handed` is what `listen()` yielded in this life of the process
(of Slack, in any). Downloads fail or succeed and only decorate a message. Each has a
`Restart`, and what the code loses there is kept by name: `cut`, `gap` and `unseen` of
Matrix (a batch that was not handled to its end, what a limited sync left out, what a
first token passed over), `dropped` of Slack (acknowledged events in the queue of a
process that ended, or handled by a listener that was cancelled).

`ChannelSends` walks one send through its calls. `TextRelation` and `FileRelation` are
`_build_relates_to` and its two simpler counterparts, `AfterFailedChunk` the three ways
to treat a refused chunk.

`WebSocketChannel`: `sidToSession` and `sessionToSids` are the two tables, `janitor` is
where `_evict_idle_sessions` is between its awaits, `emission` is the snapshot of
sockets an emit loop works through, `turn` the reply the application loop is at
(`Emitted`, `Answered`, `Terminal`, `Fallback`, `ErrorReply`: `_send_session_response`
around `stream_response`).

`TriggerChannel`: `pending`, `counts` and `flush` are `_pending`, `pending_counts` and
`_flush_tasks`; `counts` belongs to the HTTP server and uses a key function of its own.
`file`, `mtime` and `cached` are the sources file, its time stamp and what `lru_cache`
holds for it; `Acquire`, `Truncate`, `Write` and `Refuse` are one call of
`manage_trigger_sources`, `WriteFails` its error or cancellation: after the truncation it
leaves the file empty, which is read as no sources, or with a part of its text, which no
later call can read (`Malformed`). `ledger` is what the calls would have made one by one,
one that broke off having left nothing. Events
are numbered as they are accepted; `AcceptedOnceInOrder` says that what was yielded,
queued and buffered under a key, in this order, are all numbers accepted under it that
were not lost, increasing.

`ChannelRegistry`: a sync copies the set as it is when its task *starts*
(`SyncStarts`), and ends or is cancelled later (`SyncEnds`, `Cleanup`).

### PlanningMode, A2AExchange, OutboundDispatch

`PlanningMode` has one call per caller, each with its place: an exit reads mode and
record (`BeginExit`), opens the plan's file (`OpenArtifact`), and has written it when it
sets the mode back (`FinishExit`); the control request takes the same steps. The file
tools are `BeginCreate` ... `WriteNew` and `BeginReplace` ... `WriteReplaced`;
`FileFails` is an error or a cancellation of either, which after the `open` leaves the
file with any part of its text.

`A2AExchange`: `env` is every envelope ever built, `wire` those whose POST is under way,
`waiters` the table of `_response_waiters`, `req` the life of a synchronous request. A
session is busy while it awaits a POST or an answer. `OriginOf` and `StoredOf` are the
origin metadata an ask takes along, `bound` is what `session_binding` holds for an A2A
session, `EndTurn` is where its reply goes. `MaxAsked` bounds the asks of each session.

`OutboundDispatch`: `Charge` is `check_and_charge`, which runs under a lock without an
await; everything after it may fail and does not give the charge back. A stamp is the
time together with the draft, since two drafts may be charged within one tick.

### ModelTurn, GeminiTranslation, ProxyStream

`ModelTurn` takes one step per call of the model: `StreamRound`, `RunTools`,
`StreamFails` in `_send_chat_message_streaming`, `PlainAnswers`, `StaleFile`,
`UnknownTool` in `_send_chat_message` and its recovery, `Finish` after each with the
nudges. `hist` is what google-genai has recorded: any answer may be left out of it
(`keeps` is a choice), as an answer of a stream is that has a content-less chunk or no
finish reason, which the code does not notice (`session.py:459-463`); the results of a
call that was left out are `"strays"`. A text of spaces is shown and counts as none
(`space`). A plain answer may be a call, at `maximum_remote_calls`, that nobody answers.

`GeminiTranslation` is the loop of both proxies over a Gemini history. Each walks the
history from its start for every request, so the walk of a longer history goes on where
that of the shorter one ended: a behaviour is one walk of a history that grows, `Begin`
takes an entry, `Skip`, `ReadText`, `ReadCall` and `ReadResponse` a part, and `End` is what
either loop does after the parts. `blocks`, `calls` and `messages` are the locals of
`extract_history` (`calls` is `prev_calls`), merged as `_merge_consecutive_same_role` does;
`pending` and `chat` those of `gemini_request_to_openai`. An id is the place of its call.
Between entries, `Repaired` is the Anthropic request with the results that
`_repair_tool_result_pairing` makes up and `Breakpoints` the places of its cache marks;
`cached` is the length of the request before, `sent` that request. `mixed` says that an
entry had a response behind something else, `astray` that a call was not answered by the
entry after it or a response had no open call.

`ProxyStream` is the assembler of either proxy: a text is held back until something
follows, so that the last chunk can carry the finish reason. Its properties speak of the
places of texts and calls in the chunks that were sent.

## 3. What TLC checks

Deadlock is checked except in the two passing runs of the scheduler (a one-shot task
ends, and a task file that does not parse keeps the runtime from starting) and in
`components` (a listener that is closed, a send that has returned and a finished
stream stop).

| Run | Instance | Properties | Shows |
|---|---|---|---|
| `approval_reviewed` | a command, a reviewed message, 3 requests; 1.4 million states | `TypeOK` `SingleShot` `RefusalIsFinal` `Consent` `DiskNeverRegresses` | each effect happens at most once, after an operator's decision; an answered refusal is final; a slow write never lands after a newer one |
| `approval_unattended` | with the bypass on: a self-approved command, a message to a reviewed channel, 2 requests; 215 thousand states | `ImplementsDurableDrafts` `EveryRequestEnds` | the stores implement the abstract draft, what the bypass sends at once included; nobody waits for ever for a lock |
| `inbound_drain` | 3 messages, 2 senders, 2 channels, 3 sessions; 96 thousand states | `TypeOK` `ConservedInOrder` `DrainLosesNothing` `EveryMessageIsTaken` `DrainEnds` | messages are conserved in order; every buffered message reaches a turn; a drain ends and loses none |
| `history_one_by_one` | 2 turns, 1 injection, 1 nudge, 1 restart that changes the mode from compress to memory, one at a time; 60 thousand states | `TypeOK` `HistoryRetained` `NoPromptLeft` `CompactionEnds` | nothing answered is forgotten, no summary prompt stays behind, the summarizing lock is released again unless the notice sent under it never returns |
| `history_overlap` | 2 overlapping turns, clears, failing and torn writes, a restart at any point that changes the mode; 3.8 million states | `OneCompaction` `QuietClearIsFinal` | compactions exclude each other; what is cleared in a quiet session never returns |
| `tasks_oneshot` | one-shot on Redis without generations, 2 slots, 1 `run_task_now`, 1 request at a time, a restart; 3.3 million states | `NoOverlap` `NoRetiredRuns` `OneShotOnce` | duplicates, stale closures and redelivery never make two runs of what should be one |
| `tasks_eventually` | one-shot, 2 revisions, one call or write that fails anywhere; 640 thousand states | `TypeOK` `RetiresOnlyItself` `EnabledRuns` | the watchdog repairs what the mover, failures and late registrations lose; a run retires its own revision only |
| `components` | one small instance of each of the thirteen component modules, three of `WebSocketChannel` and two of `SlackChannel`; 568 thousand states | the sixteen below | see below |

### The run `components`

The thirteen component modules share no state in the code: a Telegram listener and a
proxy's stream meet only in the event loop, which interleaves them freely, and in
components modelled elsewhere. `Components` therefore declares their variables side by
side and lets `part` choose which of them moves while the others rest in their initial
state. The states of the run are the sum of those of its parts, not the product; every
interleaving *within* a component is explored. A property of the run is the
conjunction of the properties its components state; `EventuallyHandled` says that there
comes a time when nothing of what its components owe waits any more, which implies their
leads-to properties, since what is due stays due until it is done.

| Property | Is | Shows |
|---|---|---|
| `LossesAreAccountedFor` | `NoUpdateLost`, `NothingMissed`, `LossesAreKnown`, `AcknowledgedIsKept` | what becomes of a message over lost answers, cancellations in the middle of a batch and restarts: Telegram's are kept, Matrix and Slack lose those named above and no others |
| `OncePerDeliveryInOrder` | `YieldedOnceInOrder` of Telegram and Matrix, `ThreadIsOneConversation`, `OncePerDelivery`, `HandedAsQueued`, `AcceptedOnceInOrder` | a delivery is handed over at most once, and in order; a Slack posting twice only after a lost acknowledgement or as a mention in a thread or a direct message |
| `SendsAreCoherent` | `TextIsWholeOrCut`, `FreshThreadIsSelfContained`, `PresenceEnds` | whichever calls of a send fail |
| `SocketsAgree` | `KnownIsConnected`, `RepliesStayInSession` | connects, disconnects, evictions and emits in any order, with two sockets of one session and with two sessions |
| `LastMessageIsWhole` | of `WebSocketChannel` | a stream that broke off is followed by the whole answer |
| `TriggersAgree` | `CountedAndScheduled`, `SourcesAreSerial` | no buffered event without its flush; no tool call undone by another, except by one that breaks off with the file truncated |
| `RegistryAgrees` | `QuietMeansStored`, `SyncIsTracked`, `ActiveIsOpen` | no late sync overwrites a later one |
| `FilesAgree`, `LeavesWithPlan` | `ExitKnowsItsPlan`, `CreatedTextStays` | two exits at once, a clear, tools of two sessions on one file, any of which may fail at every step; a created text is lost only to a replacement that had read it and broke off |
| `AnswersFindTheirWay` | `AnswersResume`, `WaitersAreRequests`, `AnswerGoesToAsker`, `RepliesAreBounded` | an answer before its own POST has returned, at the timeout, after it, at a shutdown; replies end with the hops |
| `WithinBudget` | `WindowLimits`, `SendsAreCharged`, `TracesAreSent` | every window, wherever it starts |
| `TurnIsConsistent` | `FallsBackUntouched`, `ShownIsReturned`, `ResultsFollowCalls` | fallbacks, retries, timeouts and answers that are not recorded, at every point of a turn; results follow their calls where the calls were recorded |
| `UpstreamsAccept` | `AnthropicAccepts`, `AnthropicSeesAll`, `ResultsArePaired`, `CacheReached`, `RequestExtends`, `OpenAIAnswersOnce`, `OpenAIAccepts` | every history of up to five parts out of ten kinds of entries, with calls of two tools, orphans, blanks and repeated roles; results come first in their Anthropic message unless the history is `mixed`, and OpenAI's own rules on calls and answers hold while nothing is `astray` |
| `StreamIsWhole` | `ChunksAreValid`, `TextIsWhole`, `CallsAreWhole` | texts and calls interleaved, broken off, closed |
| `EventuallyHandled` | `EventuallyYielded`, `AcknowledgedIsHandled`, `IdleSessionsEvicted`, `EventuallyFlushed`, `EventuallySynced`, `RequestsEnd`, `TurnsEnd` | what is due is done |

### Disagreements with the documentation

Four runs are expected to end in a counterexample; each takes a sentence of the
repository at its word.

- `inbound_shutdown` (`ShutdownExits`): a shutdown that is requested before a
  listener task has run its first step cancels that task before it enters the
  `try` block; its end is never announced and `run()` waits for ever. The window is
  the first pass of the event loop after `run()` created its listeners.
- `inbound_clear` (`ClearKeepsOtherSessions`): clearing `slack:C1` drops messages
  buffered for the thread `slack:C1:1700.1`, because keys are compared by prefix.
- `history_clear_race` (`ClearedStaysCleared`): a turn that was under way when
  `/clear` came writes the cleared history back to the file, or restores it.
- `tasks_gate` (`GateInForce`): `run_task_now` while the task is running uses the
  same session and the same entry of the forbidden actions; the run that ends first
  clears it, and the other one goes on without.

Three more were seen while modelling, have no run, and are listed as hazards. With
`"overlap"` in `Allowed` of `SessionHistory`, `HistoryRetained` fails: two turns of two
senders restore the session at the same time, and the later one replaces the object in
which the earlier one was recorded. With `"tear"` it fails as well: a restart between
`open(..., "w")` and the write leaves a file that does not parse, and the session starts
empty; and with `"disk"`, since a save that fails leaves the exchange in memory only,
until a restart. The passing run `history_one_by_one` checks `HistoryRetained` without
these three, and `RepliesAreRetained` proves that nothing else breaks it. And a turn
removes its own entry from `_flush_tasks` when it starts, so the loop may say that it is
drained while a turn still waits for its model.

Another one is visible in `ApprovalStores` and not checked as a property: `/yes`
approves a command under one acquisition of the lock and redeems it under the
next, so `run_approved_command` of the model may redeem it in between; the command
runs once, but `/yes` answers with an error.

The components show more of the kind; the models do what the code does, and their
properties say precisely what they leave out:

- `stream_response` says that the full text is sent again "on clean exit"
  (`websocket_channel.py:135`), but sends what was streamed also when the answer broke
  off; the loop then sends the whole answer after it, or the error notice.
- `manage_trigger_sources` says that changes are picked up live (`plugin.py:50`); two
  writes within one tick of the file system's clock leave the channel with the first.
- The prompt of an A2A message says where a reply goes (`messages.py:364`); the origin
  of a session's *last* message is taken along by its next ask, also when that ask has
  nothing to do with it (`loop.py:712`).
- `packages/pillbug-a2a/README.md:27` says that a `result` is processed "without
  triggering another automatic outbound reply". The answer to an ask made in a turn of
  an a2a session is: it becomes a turn whose reply goes, one hop further, to the message
  that session held when it asked (`loop.py:688-764`), and so as a rule reaches whoever
  asked first, but as the answer to a message which has been answered before, and if that
  was itself a `result`, the answer to one. `RepliesAreBounded` states what does hold: each
  such reply belongs to an earlier message its sender got or asked about, and the hops
  bound the chain.
- The number of tool rounds of a streamed answer may exceed the configured maximum by
  one (`session.py:488`, `doc/CONFIGURATION.md:32`): the calls of the last round are
  executed and their results sent nowhere.
- An answer of which nothing was recorded returns the text of the previous turn
  (`session.py:200`); `ShownIsReturned` says that no other does.
- `session.py:474` says of a streamed send that has run a tool that "the chat history
  holds those turns". It does not hold those google-genai takes for invalid;
  `ResultsFollowCalls` is about the results of calls it does hold.
- The OpenAI proxy repairs nothing: a call left open at the limit of tool rounds, or a
  response whose call was dropped (genai `translate.py:211-229`), makes a request that
  OpenAI refuses. `OpenAIAccepts` is about histories without either.
- A rewrite of the trigger sources, or of a workspace file, that fails or is cancelled
  between its truncation and its write leaves nothing of the file
  (`util/workspace.py:47-50`). `SourcesAreSerial` and `CreatedTextStays` say that
  nothing else does.
- A mention inside a Slack thread or a direct message comes as two events and becomes two
  messages (`slack_channel.py:341`), and so does an event whose acknowledgement was lost;
  `OncePerDelivery` says that nothing else does.
- Slack events are acknowledged before they are handled, and Matrix's token moves before its
  batch is: a restart or a cancelled listener loses what is in between.
- A reply to `/start` that fails ends the Telegram listener for good
  (`telegram_channel.py:541`); the notice that an A2A exchange has used up its hops is
  never sent, because building it counts one hop more (`a2a_channel.py:284`).

### Bounds and why they are enough

- *Drafts and requests.* Drafts of one store interact only through its lock, and
  the stores not at all; one draft per kind shows all status paths. Three requests
  give a holder, a waiter that was decided before, and one that comes after.
  `AtMostOnce` and `RefusalStands` hold for any number.
- *Messages.* Two messages of one key and one of another give a replaced timer, a
  flush with a message behind it in the queue, and two channels that close in
  either order.
- *Turns.* Two turns of one key are two senders of one conversation, the smallest
  overlap; a third adds no new pair. `MaxObject` is one per worker, one live and
  one to be installed: `NextObject` never finds none free in these runs.
- *Restarts.* One: a restart forgets everything but the file, and what it can find
  in the file is also an initial state.
- *Scheduler.* Two slots are the smallest overlap; a second revision is the smallest
  update; `MaxStream = 1` in front of two slots still gives two messages in flight,
  one taken and one queued, and a redelivery adds to it. One failure anywhere
  separates every pair of calls. Two concurrent requests that reach Docket in the
  other order than the store are in the model and were checked once (927 thousand
  states, no failure, `EnabledRuns` holds: the watchdog registers the current
  revision again); they are not in the runs for time. `MaxRevision`, `MaxStream`,
  `MaxFailures` and `MaxCrashes` are bounds in guards; the theorems hold for all of
  their values.
- *Components.* Three updates of two chats with batches of two give a batch that is cut
  by a cancellation and an update behind it; three events in a window of two make a sync
  leave one out; a restart of each makes a second life. Slack has two postings, of which
  a mention in a thread is two events, and by itself (`slack resends`) a mention with
  one acknowledgement that is lost and one restart. A send has three chunks and two
  files: a first, a middle and a last. Two sockets of one session are the smallest
  emission that outlives one; two sessions the smallest mix-up. Two trigger events give
  a restarted timer; a create, an update and a create of another source give a lost
  update if the lock were missing, and a call after one that broke off; two instants of
  the file system's clock are the same one and another. Three sync tasks are the running
  one, the cancelled one and the next. Two exits and two creates of two sessions are two
  of each that can race, with one `enter` for the session that leaves and one
  replacement; a plan's file is named by the second, of which there are two. Four
  envelopes are two asks with their answers, or an ask, its answer, the turn it starts
  and the reply; two runtimes with a foreign peer and up to two hops show every route a
  reply can take. Four drafts against limits of three a process, two an hour and one a
  minute pass each limit, with an hour of five ticks, a minute of two and six ticks in
  all. Two turns with one round of tools and one nudge reach both sides of those limits,
  and three made-up names both sides of the limit of two that the code sets; six entries
  of curated history hold an exchange and one with its tool round. Five parts hold two
  calls, their responses and what comes between; the look-back is two, with two
  breakpoints. Three texts and two tools are a text before, between and after two calls.
  All are constants, and every bound is named in its module.
- *Nudges.* One shows both sides of the limit. Of the other modules `MaxCrashes`,
  `MaxNudges` and `MaxObject` are the only bounds in guards.

### Fairness and why the code justifies it

- `ApprovalStores`: weak fairness of `Serve(r)`. The event loop runs every ready
  task, `asyncio.Lock` is FIFO, a file write ends or raises, and
  `run_shell_command` has a timeout. Nobody is obliged to make a request.
- `InboundLoop`: weak fairness of `run()`/`main()`, of a listener that is new or
  cancelled, and of a timer that sleeps. A live channel may stay silent for ever;
  a *turn* may wait for its model for ever, which is why `DrainEnds` and
  `EveryMessageIsTaken` may not and do not depend on `FinishTurn`.
- `SessionHistory`: weak fairness of `Step(w)`: a model answers or
  `GEMINI_RESPONSE_TIMEOUT_SECONDS` strikes, and files are written or not. No
  fairness for messages, clears and restarts, and none for `NoticeOver`: the loop has no
  timeout of its own on the send of the notice, so a channel that hangs in it keeps the
  summarizing lock. `CompactionEnds` says that nothing else does.
- `TaskScheduler`: weak fairness of the clock (`Tick`), of the mover, of a message
  that waits for a free slot, of the end of a request's write and its call of
  Docket; strong fairness of what waits for the store's lock (runs, the watchdog),
  because `asyncio.Lock` serves its waiters in order, so whoever waits gets a lock
  that is free again and again. A model call ends by its timeout. `Tick` declares an
  execution overdue only when neither mover nor worker is at it: five minutes
  (`_stuck_execution_grace`) are longer than either needs when it is alive, and a
  mover that is not is restarted after ninety seconds. Requests, failures and
  crashes are free.

- The components: weak fairness of the listener's own steps and of the tasks that the
  event loop runs when they are ready (flushes, syncs, the janitor, the clock that makes
  a session idle); strong fairness of Telegram's and Matrix's poll, which is repeated
  for ever and succeeds again and again, though it may fail any number of times in
  between. A2A requests have their two timeouts, a peer need not answer. A model turn
  ends without its timeout, if its calls return. Platforms and people are free.

## 4. What is proved

With TLAPS, for every value of the constants that the named assumptions allow. Every
safety property that a passing run checks is a theorem.

| Module | Theorem | States |
|---|---|---|
| `ApprovalStores_proofs` | `Invariance`, `LedgerInvariance` | `[]IInv`, `[]LedgerInv` |
| | `TypeCorrect`, `AtMostOnce`, `RefusalStands`, `NothingWithoutConsent` | `[]TypeOK`, `[]SingleShot`, `[]RefusalIsFinal`, `[]Consent` |
| | `FilesMoveForward`, `Refinement` | `DiskNeverRegresses`, `ImplementsDurableDrafts` |
| `InboundLoop_proofs` | `LoopInvariance`, `LoopTypeCorrect` | `[]LInv`, `[]TypeOK` |
| | `DrainIsLossless`, `MessagesKeepTheirOrder` | `[]DrainLosesNothing`, `[]ConservedInOrder` |
| `SessionHistory_proofs` | `HistoryInvariance`, `HistoryTypeCorrect` | `[]HInv`, `[]TypeOK` |
| | `CompactionIsExclusive`, `QuietClearHolds` | `[]OneCompaction`, `[]QuietClearIsFinal` |
| | `PromptIsTakenBack`, `RepliesAreRetained` | `[]NoPromptLeft`, `[]HistoryRetained`, in sequential use |
| `TaskScheduler_proofs` | `InvHolds`, `TypesHold` | `[]IInv`, `[]TypeOK` |
| | `RunsDoNotOverlap`, `RetiredStaysRetired` | `[]NoOverlap`, `[]NoRetiredRuns` |
| | `OneShotsRunOnce`, `RunsRetireThemselves` | `OneShotOnce`, `RetiresOnlyItself` |
| `Components_proofs` | `CreatedFilesKeepTheirText`, `PlansAreOnDisk` | `[]FilesAgree`, `LeavesWithPlan` |
| | `BudgetsAreKept`, `AnswersAreRouted` | `[]WithinBudget`, `[]AnswersFindTheirWay` |
| | `TurnsStayConsistent`, `StreamsStayWhole` | `TurnIsConsistent`, `[]StreamIsWhole` |
| `Adapters_proofs` | `SendsStayCoherent`, `TriggersStayTrue` | `[]SendsAreCoherent`, `[]TriggersAgree` |
| | `RegistryStaysTrue` | `[]RegistryAgrees` |
| | `SocketsStayTrue`, `AnswersArriveWhole` | `[]SocketsAgree`, `LastMessageIsWhole` |
| `Listeners_proofs` | `LossesStayAccountedFor` | `[]LossesAreAccountedFor` |
| | `DeliveriesAreHandedOverInOrder` | `[]OncePerDeliveryInOrder` |
| `Composition_proofs` | `TranslationHolds`, `UpstreamsAreObeyed` | `[]TranslationInv`, `[]UpstreamsAccept` |
| | `TypesAreKept` | `[]TypeOK` of `Components`, all components |

### Assumptions

TLC evaluates all of them on the runs above.

- `DraftsAssumption`: the ids of the three kinds of drafts are distinct.
- `LayoutAssumption`: finitely many channels, at least one; a session's own keys have its
  prefix.
- `SettingsAssumption`: turns and injections are distinct, the bounds are numbers.
- `SchedulerAssumption`: actors are distinct, slots finite, bounds numbers.
- `Components` and `Adapters` have one per component: the kinds of calls are those the
  code has (`PlanningAssumption`, `TriggerAssumption`), the names of sessions, peers and
  lock holders are not the name that stands for none (`ExchangeAssumption`,
  `WebSocketAssumption`), asks are made by sessions or operators of the runtimes
  (`ExchangeAssumption`), a minute is no longer than an hour (`DispatchAssumption`), a
  typing indicator is shown at least once (`SendsAssumption`), channels and drafts are
  finitely many (`RegistryAssumption`, `DispatchAssumption`), some configuration exists
  (`PartsAssumption`), what users write has the fields the platforms give it
  (`WritesAssumption`), a channel can have an instance (`BoundsAssumption`), and the limits
  and bounds a proof compares with are numbers (`TelegramAssumption`, `TurnAssumption`,
  `StreamAssumption` and the others).

Two theorems have a hypothesis, the settings of the run that checks them.
`PromptIsTakenBack` assumes `Sequential` (one worker at a time). `RepliesAreRetained`
assumes that nothing but clears is allowed: no overlapping workers, no torn file, no
failing disk. Each of the three makes the property false of the code (section 3).

### Arguments

*Draft stores.* `SingleShot` is not inductive: it says nothing of the request that
is about to act. `IInv` adds that a writer holds its store's lock and writes what
the cache shows (`WriterInv`), that an id exists only after its one creation
(`CreationInv`), that a final status in the file is settled, i.e. the cache agrees
and nobody writes (`SettledInv`), and that who is about to act has a spent status
in the file, has not acted, and is alone (`LicenceInv`). The lock enters through
`WriterInv`: two writers of one draft would both be the head of one queue.
`LedgerInv` adds two things. On whose word a status stands: wherever a record says
approved, used or committed, and wherever a request still plans to write such a status,
its author may decide that draft, or the bypass or an autosend channel does
(`AuthorityInv`, from which `Consent` follows). And that
the cache is never behind the file: a write under way is at a later stage than what it
overwrites, and an approved draft can only be redeemed (`AheadInv`, from which
`DiskNeverRegresses` follows). With these every step is a step of `DurableDrafts` or a
stutter: only the end of a write, or a crash in the middle of one, changes the durable
status.

*Loop.* `DrainLosesNothing` needs to know why `run()` leaves its loop. `LInv` says
that a buffer has a timer exactly when it has messages (`TimerInv`), that `open`
counts the channels whose end has not been taken from the queue (`CountInv`), and
that a queued message is followed by the end of its channel or by a listener that
has still to announce it (`LastInv`). So no timer and no open channel means no
message in queue or buffer. The proof counts with the cardinality theorems of
`FiniteSetTheorems`. `ConservedInOrder` is inductive by itself with the types: what left
a buffer and what is in it are the first part of what was accepted under the key, and
the rest stands in the queue, in the same order (`Continues`). It is put by places rather
than by filtering the queue, which would be a recursive definition.

*History.* `QuietClearIsFinal` has to hold through every later turn, save, tear
and restart. `HInv` says that nothing reachable (file, referenced object, data a
worker has read or is about to write, snapshot of a compaction) holds an exchange
that was purged, and that whoever left a purged exchange has ended and cannot
leave it again (`CleanInv`, `PurgedInv`). `WorkerOK` ties the place of a worker to
what it is about and makes `OneCompaction` inductive. In sequential use whoever is under
way is alone and works on the live object (`AloneInv`). `PromptInv` then says where a
summary prompt may be: only in the live history, and only while the compaction that
asked it has not replaced or taken it back. `RetainedInv` follows what is owed through
the moments at which one of its two copies is gone: while the file is being written it is
in the live history, and in the data the write will leave there.

*Scheduler.* `OneShotOnce` and `NoRetiredRuns` have to hold although closures,
messages and the watchdog's copies are stale. What carries them is not Docket but
what `execute_registered_task` compares. `IInv` says that a run inside the worker is
marked and alone (`RunsOK`); that a one-shot revision which was run is still at work
towards being disabled, or is disabled or superseded in memory (`OnceOK`); that a
retired revision is disabled or superseded in memory *and* in the file, and that no
run is at work for it (`RetiredOK`); that a task id is created once (`CreatedOK`);
and that a process that is down has nothing in memory (`DownOK`). A failing write
leaves memory ahead of the file, never behind it, which is why `RetiredOK` survives
a restart. The argument uses nothing of the state of Docket: messages lost, repeated or
out of order cannot break it.

*Planning and files.* `FileInv` says who may have the one file open: at most one caller
creates it, since its `open` fails on an existing file, and a replacement that overlaps
a creation has read the created text, or that text is `Lost` to a replacement that broke off
with it; only after such a loss is a replacement made of a file whose created text is gone.

*Budget.* `WindowLimits` speaks of every window, a check of the last minute and hour
only, and old stamps are thrown away. `BudgetInv` says that the stamps a conversation has
are those of charged drafts and include all of the last hour, so a check at `now` counts
every window that ends at `now`; a window that would end later has not more in it yet.

*A2A.* `ExchangeInv` ties envelopes to earlier ones (an answer carries on the route of
what it answers, an ask of another channel's session carries that session), a turn to the
message its session holds, and a request that still waits to its waiter. The last makes
`AnswersResume` inductive: a result that finds no waiter finds no waiting request.

*Model turn.* `TurnInv` says that a turn which has run tools ends in a call until their
results are sent, if the call was recorded (`recorded`), that results never meet a plain
send, that nothing was shown where a plain send is made, that what was shown is in the
text of the send that is over, and that the history is in the order of the turns: its
last answer is of the present turn if anything of that turn was recorded.

*Stream.* Until its end a stream has sent every delta but the last, one to a chunk
(`Delayed`), and the fragments of a call are in its bucket or, once it was stopped, in the
list of calls (`Gathered`). The end puts the last text and the calls behind them;
`Flushed`, in the proof, is what it leaves. Open calls are put in order by `Sorted`, a
choice whose witness exists because the open calls of the OpenAI proxy are an interval.

*Translation.* `TranslationInv` says of the blocks and messages so far, and of the parts
walked so far, what the request needs at the end of an entry. `Sound` is about one
message: each block is that of a part a proxy has words for, uses are calls, results
answer a call of their tool, and the results of a tool come in the order of its calls;
the last holds because a response takes the first open call of its name, which comes
after those that are answered (`CallsInv`). `MessagesInv` adds that roles alternate,
that results answer calls of the message before, and that every part of an ended entry
is said, in order; `BlocksInv` the same of the entry that is walked. A message of
results is never joined to the one before it, which is why joining keeps all of it: the
message before has the calls, so it is the model's. `ChatInv` is about the OpenAI
request. The bound of `CacheReached` is that of the breakpoints: `k` strides back, with
`k` the quotient of the distance by the stride. `LeadInv` follows the results of an
unmixed history at the head of their message through the joining of messages. `SentInv`
ties the request before to the messages made since: it is a beginning of them, also when
it ended in a call, whose made-up results the next request has too or whose real ones
take their place; `RequestExtends` follows at the next `End`. A history that ends in
user entries of nothing but blanks behind a call is no request of its own, since the
proxies leave such an entry out. `AnswersInv` is about a history in which nothing is
astray: a tool message is behind its call, with nothing but tools in between, and the
open calls are those of the last assistant message.

*Sends.* `SendInv` says that the posts made so far are the chunks and files before
`next`, that a fresh thread's root is its first post, and that a typing indicator ends.

*Websocket.* `TablesInv` is `KnownIsConnected` and `RepliesStayInSession` with what a
socket that was never used is not: in a table, or about to be sent to. `ReplyInv` relates
the parts that were emitted to those the model made: they differ only while a delta is
being sent, or when the stream has failed, and then a fallback or an error follows.

*Triggers.* Whoever has read the sources file holds the lock, and has read what all calls
before it made of it, or, having truncated it, keeps it empty until it writes or breaks off
(`LockHeld`). `FlushInv` is `AcceptedOnceInOrder` with the fact that
a flush task has something to flush.

*Registry.* A task that is writing writes the set as it is now, because every change
replaces the task first; a channel's current task, if it has ended, has stored the set
unless the cache failed; and an instance serves one channel or one description
(`SyncOK`, `PluginsOK`).

*Listeners.* `ListenerInv` (Telegram) defines one place in the updates, whether the
offset or Telegram remembers it: all before it is dealt with except the update being
handled, and the batch goes on from it. `SyncInv` (Matrix) says the same of the token,
with the events that a limited sync left out kept in `gap`, and that what is in the
batch comes after what was handed over, room by room; its `FormerInv` that every wanted
event the tokens of former lives have passed is among those yielded, cut or unseen.
`DeliveryInv` (Slack) says that an envelope is in one place: on the wire, being
acknowledged, queued, handed over, or dropped by a cancellation or a restart, and the
copy that Slack would send again is nowhere before it does. `OrderInv` puts what is
handed over before what is queued, and both in the order of `queued`; `MentionInv` says
which events the second of a posting can be.

*Types.* `TypeOK` of `Components` is not inductive: a flush would queue an event that
was never accepted, a stopped call would have no fragments, an answer the turn 0.
`TypesInv` joins it to the invariants above and to what they leave open. `TurnTyping`
says that only a turn that has begun sends, and that the rounds of a streamed send are
its tool rounds, which is why the counter stays within the limit `max_remote_calls`
sets. `TriggerBounds` says that a batch counts no more events than were accepted and
that the file is not from the future, `RegistryBounds` that instances and restarts are
within their number; a batch's events are accepted ones by `FlushInv`, a Matrix
conversation's root and a Telegram update's id are places in the stream by `SyncInv` and
`ListenerInv`, the fragments of a call are its own by `Gathered`.

Each inductive invariant was also checked by TLC on the instances above.

### Only model-checked

- Liveness: `EveryRequestEnds`, `EveryMessageIsTaken`, `DrainEnds`,
  `CompactionEnds`, `EnabledRuns`, `EventuallyHandled`. Fairness and ENABLED are out of
  the prover's reach.
- The four runs that end in a counterexample are about this instance by nature.

## 5. What is left out, and why

- *Cancelled requests.* A client that disconnects in the middle of `write_text`
  cancels the request, releases the lock and leaves the thread writing. Listed as
  a hazard.
- *Overlapping turns from the inside.* `SessionHistory` has overlapping turns with one
  step per answer, `ModelTurn` the inside of one turn at a time; which of google-genai's
  answers enter the curated history is external, and free in both.
- *File contents.* Lengths are counted in exchanges: a shorter history written
  over a longer one, both opened before, leaves a tail that does not parse.
- *Telemetry and logging* change no decision and never suspend.
- *Restarting the worker* cancels its runs; the model has what it does to the mover
  (`MoverFails`) and, by `Crash`, to everything at once, but not the cancellation of
  a single run, which is recorded as completed. Listed as a hazard.
- *Several tasks* share the store's lock and its one file, and nothing else.
- *Schedules*: when a task is due is a step of `Tick`; cron expressions and delays are
  not computed.
- *MCP clients of a session*, opened lazily and closed by the sweep.
- *Channels*: file names, captions, markup; the CLI channel, a loop over standard input.
- *A2A*: agent cards, authentication, attachments.
- *Proxies*: schemas of tools, generation parameters, usage, the HTTP clients; answers
  that are not streamed are translated part by part; chunks of an upstream that are not
  valid JSON, which the OpenAI proxy skips (genai `app.py:74-78`).
- *Dashboard, memory package, telemetry, security pipeline, fetch and todo tools, MCP
  plumbing*: display, ranking, counters, text rules and I/O without a decision that
  depends on an order of events.

## 6. Plan

The order is that of the damage a mistake would do.

1. `ApprovalStores`, `InboundLoop`, `SessionHistory` (done, with their theorems).
2. `TaskScheduler` (done; open: cancellation of one run by a worker's restart, two
   concurrent requests in a run of their own).
3. The thirteen component modules, checked together in `components` (done; open:
   `ModelTurn` inside an overlapping `SessionHistory`).
4. Proofs of the safety properties (done, section 4).

Runs are one per question: a new module gets one instance for safety and liveness
together unless the state space forbids it.
