# TLA+ models of the cli-server sidecar

This directory holds TLA+ models of the sidecar in `src/sidecar/app`. The
models are checked with TLC. `PROJECT.json` lists the components, the runs,
the mutants, the mapping from each definition to its source lines, the
findings and the hazards.

## 1. The system

The sidecar is a FastAPI process on one asyncio event loop. Concurrency is
cooperative: tasks interleave only at `await`. The parts are:

| Part | Source | State it keeps | Operations |
|---|---|---|---|
| HTTP edge | `routes.py` | none | POST `/chat` → `initiate_chat_completion`; GET `/stream/{id}` → `create_event_stream`; DELETE `/stream/{id}` → `stop_stream` |
| Chat service | `services/chat.py` | none (reads the store, subscribes to Redis) | create the user and assistant rows, start the background task, attach it to the session; replay the backlog and then the live events; cancel |
| Stream Runtime | `services/streaming/runtime.py` | per run: `StreamContext` (seq, snapshot, cancel_event, pending_events, events_since_flush, last_flush_at) | `execute_chat`, `run`, `_emit_event`, `_flush_snapshot` |
| Stream Processor | `services/streaming/processor.py` | per run: the tool registry, cost, usage | turns an agent message into render events |
| Tool Handler | `services/tool_handler.py` | active tools by id | start/finish tool, title and truncation helpers |
| Snapshot types | `services/streaming/types.py` | event list, text | `add_event`, `to_render` |
| Message Store | `services/message.py` | Postgres `messages`, `message_events` | `create_message`, `append_event(s_batch)`, `update_message_snapshot`, `get_next_seq` (MAX+1), `get_events_after`, `has_messages` |
| Session Registry | `services/session_registry.py` | sessions by chat id, `pending_cancels`, one asyncio lock | `get_or_create`, `cancel_generation`, `terminate`, `terminate_all`, `reap_idle`, `_close_session` |
| Transports | `services/transports/{docker,k8s}.py` | process or exec stream, reader and monitor tasks, queue, ready flag | connect, write, read, end_input, close |
| Agent factory | `services/claude_agent.py` | none | build options and the transport factory |
| App lifecycle | `main.py`, `config.py`, `db.py`, `utils/cache.py` | engine, Redis client, registry | startup; `terminate_all` at shutdown |

How they interact in one turn:

1. POST creates the rows and starts a task.
2. The task runs `execute_chat`. It gets or creates the session, clears the
   session's `cancel_event` and calls `run`.
3. `run` reads `get_next_seq`, sends the query, and iterates the agent's
   messages. Each render event goes through `_emit_event`:
   - it takes the next seq;
   - it appends the event to the snapshot and to `pending_events`;
   - it publishes the envelope on Redis;
   - it flushes once 24 events or 200 ms have gone by.
4. The run ends with `complete`, `cancelled` or `error`, then a final forced
   flush. That flush sets `stream_status` to `interrupted` if the cancel event
   is set, and to `completed` otherwise.
5. A subscriber reads the backlog after `after_seq` from the store, subscribes
   to the channel, and yields live envelopes whose seq exceeds the highest
   seen. It closes on a terminal kind.

The behaviours that are hard to test are these. Several are the subject of a
run.

- Several tasks interleave at each await: turns, subscribers, DELETE.
- The terminal is published before it is persisted.
- Seqs come from a database MAX that trails what has been published.
- Batch and row inserts fail partly.
- A publish may be lost.
- The cancel flag is read at two different points.
- Backlog and subscription are not atomic.

## 2. Modules

### ChatStream.tla: Stream Runtime, Message Store, live bus, subscribers

One chat session. Turns `1..N` are the assistant messages in POST order, one
asyncio task each. Every action is the code a task runs between two awaits
whose effects others can observe.

| Variable | Code |
|---|---|
| `pc[t]` | where task t is suspended |
| `seq`, `pending`, `sinceFlush`, `snap` | `ctx.seq`, `ctx.pending_events`, `ctx.events_since_flush`, `ctx.snapshot` |
| `cancelSet` | `session.cancel_event` |
| `session` | whether the registry holds a connected session ("none", "up", or "closed" once `_close_session` closed it) |
| `attached[t]` | the session's `active_generation_task` is task t (set by POST only when a session already exists) |
| `cancelReq[t]` | a `task.cancel()` from `_close_session` not yet delivered |
| `db` | `message_events` rows in insertion order |
| `msgRow[t]` | the `messages` row: `last_seq`, `stream_status`, `content_render` |
| `subPc`, `subAfter`, `maxSeq`, `inbox`, `got` | a subscriber's generator position, `after_seq`, `max_seq`, its pubsub buffer, what it yielded |
| `emitted` | history: every envelope any turn emitted |

| Action | Code |
|---|---|
| `PostChat`, `GetStream`, `DeleteStream` | the three routes of `routes.py`, each calling the operation below |
| `StartTurn` | POST: the placeholder row (`CreateMessage`) |
| `Begin` | `execute_chat`: reuse the session or connect (may fail), clear cancel |
| `ReadSeq` | `get_next_seq` |
| `Query` | `client.query` |
| `Recv` | one `receive_response` step, including the cancel break and the end of stream |
| `Events` | the processor's events for one message |
| `Publish` | the publish and the 24-event throttle of `_emit_event` |
| `FlushBatch`, `FlushRow`, `FlushUpdate` | the three awaits of `_flush_snapshot`, through `AppendEventsBatch`, `AppendEvent` and `UpdateMessageSnapshot` (the Message Store calls) |
| `CancelGeneration` | DELETE |
| `TaskCancel` | `_close_session` calling `task.cancel()` on the attached task and closing the session |
| `Raise` | the `CancelledError` delivered at the task's next await |
| `Open`, `Subscribe`, `Receive`, `Ping`, `Disconnect` | `create_event_stream` |

`Envelope` (`StreamEnvelope.build`) and `AddEvent`
(`StreamSnapshotAccumulator.add_event`) are the pieces of `_emit_event` that
`streaming/types.py` provides.

The code paths after an emit (continue the loop, the post-loop cancel check,
the final flush, the except handler) are `AfterEmit` and `AfterLoop`. They
carry no await of their own, so they are part of the action that finished the
emit.

A cancel is delivered only at an await (`Awaits`). Where it lands decides
what happens (`Region`):

- before the `try` block (session, `get_next_seq`): the task ends;
- in the `try` block: the `except CancelledError` handler emits "cancelled";
- in the handler's own emit: the `finally` flush still runs;
- in the `finally` flush: the task ends with the flush unfinished.

The interrupted call may already have taken effect (`Interrupted`): the
publish went out, or the insert or update committed.

Abstractions:

- An envelope is `[seq, turn, kind]`. Text, tool payloads and cost are dropped.
- The 200 ms time-based flush is not modelled: time is not observable. The
  count-based flush is modelled.
- The processor is abstracted to `0..MaxEvents` events per message.

`CONSTANTS` choose the client's POST policy and which external calls may fail:

| Constant | Meaning |
|---|---|
| `StartPolicy = "afterDone"` | a client that waits for the task to finish |
| `StartPolicy = "afterTerminal"` | a client that POSTs on seeing the terminal envelope |
| `StartPolicy = "any"` | overlapping POSTs |
| `DbMayFail`, `BusMayFail`, `AgentMayFail`, `ConnectMayFail` | which external calls may fail |

`MC_ChatStream.tla` gives the bounds.

### Properties (ChatStream)

| Property | What it says |
|---|---|
| `TypeOK` | the type invariant |
| `SeqNeverReused` | no two emitted envelopes share a seq (spec 8.1) |
| `PersistedSeqUnique` | no two `message_events` rows share a seq |
| `SnapshotAgreesWithLog` | a finished turn's `messages` row has `last_seq` equal to its highest persisted seq, and `content_render` equal to its persisted events in seq order |
| `AtMostOneTerminal` | each turn emits at most one terminal envelope |
| `EveryTurnEndsWithTerminal` | a finished turn has exactly one terminal envelope (spec 7, 8.3) |
| `SubscriberInOrder` | a subscriber yields strictly increasing seqs above its `after_seq` |
| `SubscriberGapFree` | a subscriber that yielded a terminal yielded every persisted or emitted seq between `after_seq` and it (spec 8.4) |
| `SubscriberEventuallyCloses` | a live subscriber with an undelivered terminal in its buffer eventually closes |
| `NoEventAfterTerminal` | within a turn, every envelope after a terminal one is terminal (spec 8.6) |
| `LogRefined` | the session implements `StreamLog` (below) under the refinement mapping `published <- emitted`, `log <- db`, `out <- got` |
| `StatusMatchesTerminal` | a finished turn's recorded status agrees with its terminal: `complete` → `completed`, `cancelled` → `interrupted`, `error` → `failed` (or `interrupted`); never `in_progress` (spec 4.5, 7) |

### StreamLog.tla: what a session promises, and the refinement

`StreamLog` is an abstract specification written from spec 4.6, 4.7, 8.1 and
8.3, with no tasks, flushes, pub/sub or buffers. Its state is the set of
published envelopes, the persisted log and, for each subscriber, its
`after_seq`, what it yielded and whether it is open. Its actions:

| Action | What it allows |
|---|---|
| `Publish(e)` | a turn publishes an envelope under a seq never used before, and nothing after its own terminal one |
| `Persist` | the log grows by appending published envelopes; the whole log stays in increasing seq order |
| `Open(s, n)` | a subscriber opens with `after_seq = n` and yields exactly the logged envelopes above `n` |
| `Yield(s, e)` | an open subscriber yields a published envelope above the last seq it passed on; a terminal one closes it |
| `Leave(s)` | the client goes away |

`ChatStream` instantiates it as `Log == INSTANCE StreamLog WITH published <-
emitted, log <- db, out <- got, after <- subAfter, phase <- SubPhase`, and
`LogRefined == Log!Spec` is a property of `stream_sequential`. Every
`ChatStream` step is a `StreamLog` step or a stutter:

- `Emit` is `Publish`;
- `FlushBatch` and `FlushRow` are `Persist`;
- `Open` is `Open`;
- a `Receive` that passes an envelope on is `Yield`, and one that drops a
  duplicate is a stutter;
- `Disconnect` is `Leave`;
- every other step leaves the abstract state alone.

The refinement says more than the invariants beside it. `Open` must yield
exactly `get_events_after(after_seq)`, and the log must stay sorted, which
no single invariant states. Where the client POSTs before the previous
task ended, or persistence fails, the refinement does not hold. The runs in
section 3 that break `SeqNeverReused` and `SubscriberGapFree` show how.

### SessionRegistry.tla: the registry and the lifecycle of turn tasks

One or more chats; turns `1..N` are the POSTs in order. A session is named by
the task whose `get_or_create` connected it. Closers are the turn tasks (a
restart inside `get_or_create`), `terminate_all`, the reaper and a caller of
`terminate`. What a turn emits is reduced to its outcome, since `ChatStream`
models `run` itself.

| Variable | Code |
|---|---|
| `pc[t]`, `cfg[t]`, `sess[t]`, `outcome[t]` | where task t is, its (sandbox, fingerprint), the session it borrows, the terminal it emitted |
| `cancelReq[t]` | an undelivered `task.cancel()` |
| `sstate`, `sfp`, `ready`, `active`, `cancelEvt` | per session: transport open/closed, fingerprint, `is_ready()`, `active_generation_task`, `cancel_event` |
| `regMap`, `pendingCancels`, `lock` | `_sessions`, `_pending_cancels`, the holder of `_lock` |
| `closing`, `waitee`, `cstep` | per closer: the session in `_close_session`, the task it awaits, the step |
| `todo`, `phase` | the sessions `terminate_all` / `reap_idle` still close; their progress |

| Action | Code |
|---|---|
| `StartTask` | POST: start the task and attach it to `get_session()` |
| `Acquire` | `get_or_create` under the lock: reuse, or close the stale session, or go on to create |
| `Closed`, `Connect` | the restart's close returned; `_create_session` (success, or failure with cleanup) |
| `RunEnd` | `run` ends: error if the session was closed, cancelled or nothing if the cancel event is set, else complete |
| `Raise` | a delivered cancel: before `run` the task ends (and a connect in progress leaks its transport) |
| `StartClose`, `CloseWait`, `CloseTimeout`, `CloseDisconnect` | `_close_session`: cancel the task, `wait_for` (5 s, then a second cancel), disconnect and close |
| `CancelGeneration`, `TransportDies` | DELETE; a sandbox process exits |
| `Terminate`, `ShutdownBegin`, `ReapBegin`, `CloseLoop` | `terminate`, `terminate_all`, `reap_idle`: the lock section and, with no await in between, the start of the first close; `CloseLoop` is the loop's next close (or its end), taken in the same step as the previous close's return, and `terminate` leaves the lock in that step too |

Time is abstracted: any session the reaper may take is old enough, and the
5 s timeout may fire whenever the awaited task is still running.
`terminate` and `reap_idle` have no caller under `src/`. They are modelled as
the spec describes their use, and are switched on by `TerminateCalls` and
`ReaperRuns`.

| Property | What it says |
|---|---|
| `TypeOK` | the type invariant |
| `NoLeakedSession` | every open session is in `_sessions` or being closed (spec 2) |
| `NoConcurrentClose` | no two closers are in `_close_session` for one session |
| `NoTurnOnClosedSession` | no turn runs on a closed session (spec 2) |
| `ShutdownClosesAll` | after `terminate_all` and all tasks end, no session is open (spec 4.4) |
| `DeleteHonoured` | a DELETE sent while the turn runs keeps it from completing (spec 4.5) |
| `EveryTaskEnds` | every started turn task ends (liveness) |

### StreamProcessor.tla: Stream Processor and Tool Handler Registry

One run's `StreamProcessor` with its `ToolHandlerRegistry`. Each action is one
call of `emit_events_for_message`; the events it yields are appended to
`events`. Text is a short sequence of character tokens, so `strip`, the first
line, truncation and the `<prompt_suggestions>` / `<local-command-stdout>`
unwrapping keep their effect. A tool name is a token sequence in which `__`
and `_` are separators, so the `mcp__<server>__<tool>` rule is modelled by
what it does.

| Variable | Code |
|---|---|
| `active` | `ToolHandlerRegistry._active` (id → title, parent; `NoTool` when absent) |
| `events` | the render events yielded, in order |
| `totalCost`, `usage` | `total_cost_usd`, `usage` |
| `msgs` | messages processed (bound only) |

| Action / operator | Code |
|---|---|
| `ReceiveSystem` | `_emit_system_events` |
| `ReceiveAssistant` | `_emit_assistant_events` over text, thinking, tool-use and tool-result blocks, with the message's `parent_tool_use_id` |
| `ReceiveUser` | `_emit_user_events`: text (stdout wrapper stripped) and tool results |
| `ReceiveResult` | `_emit_result_events`: add the cost, take `usage` only when it is a dict |
| `StartTool`, `FinishTool` | `start_tool`, `finish_tool` (pop, or the "Unknown tool" placeholder) |
| `Truncate`, `Description`, `FormatTitle` | `_truncate`, `_extract_tool_description`, `_format_tool_title` |

The JSON parse of a suggestions block is a choice between a list and not a
list. Result normalisation (`_normalize_result`, `_stringify_result`) only
reshapes the payload and is left out.

| Property | What it says |
|---|---|
| `TypeOK` | the type invariant (`usage` is always a dict) |
| `ToolEventsPaired` | a named finish answers the last tool event of its id, the `tool_started` with the same title and parent (spec 4.2) |
| `TruncationMeetsSpec` | `_truncate` meets spec 4.2, stated without the code's steps, on every text of up to four characters |

### Transport.tla: the docker and k8s sandbox transports

One transport of either backend, from `connect()` to `close()`. The process
and its stream are the environment: they write stdout or stderr chunks,
exit, or (for a backend in `BreakOn`) the stream fails. The reader and
monitor tasks take one step per action, and the consumer takes one chunk
per `Recv`. A chunk is numbered, so order and stdout/stderr can be told
apart. Frame boundaries belong to the channel and may fall inside a
multi-byte character (`cut`): a frame's bytes record whether they begin
or end with part of a character. The reader decodes each frame on its own
with `errors="replace"` (`Decode`), so such a frame reaches the consumer
as a str that is not intact. The base class `read_messages` is not under `src/` and is modelled
from spec 4.1 (`Recv`, `CloseBegin`, `Sentinel`).

| Variable | Code |
|---|---|
| `backend`, `proc`, `chan`, `cut`, `broken` | the backend; the process state; the exec stream or websocket frames in flight; whether the last stdout frame ended inside a character; a failed stream |
| `reader`, `monitor`, `cancelR`, `cancelM` | `_reader_task`, `_monitor_task` and the cancels pending on them |
| `q`, `got` | `_stdout_queue` of decoded strs (chunk number, intact or not; chunk 0 is the `None` sentinel); what the consumer received |
| `ready`, `exitError`, `errData`, `stdinClosed` | `_ready`, `_exit_error`, the k8s error-channel status, `end_input` |
| `res`, `owner` | the handles held (client, exec, channel); the connect/close phase |

| Action | Code |
|---|---|
| `DockerConnect`, `K8sConnect` | `connect()`; a docker failure part-way leaves the handles already opened |
| `DockerRead`, `K8sRead`, `ReaderCancelled` | `_read_loop` of each backend; the sentinel in its `finally` |
| `DockerPollExited`, `DockerPollFail`, `K8sMonitorEnd`, `MonitorCancelled` | `_monitor_loop` / `_monitor_process` |
| `CloseBegin`, `CloseMonitor`, `CloseReader`, `DockerKill`, `DockerCleanup`, `K8sCleanup` | `close()`: cancel and await the tasks, kill the exec (docker), the rest of each class's `_cleanup_resources` |

| Property | What it says |
|---|---|
| `TypeOK` | the type invariant |
| `StdoutFaithful` | the consumer receives one decoded str per stdout frame, in the order written, never stderr, and the sentinel last; after an exit on an open, intact stream it has every chunk the process wrote |
| `RecvEnds` | once the process has exited or `close()` has begun, the consumer eventually gets the sentinel |
| `ExitSurfaced` | a non-zero exit on a live stream is eventually recorded in `_exit_error`, unless the transport is closed |
| `StdoutIntact`, `ReadyFollowsStream`, `CloseKillsProcess`, `ExitKnownAtEnd` | what spec 4.1 promises and the code does not keep; each is violated (section 3) |

## 3. Runs

| Run | Expect | What it shows |
|---|---|---|
| `stream_sequential` | pass | Sequential client. One DELETE; Redis, agent and connect failures. `SeqNeverReused`, `SnapshotAgreesWithLog`, `AtMostOneTerminal`, `SubscriberInOrder` and `SubscriberEventuallyCloses` hold, and the session refines `StreamLog` (`LogRefined`). About 545k states, 85 s. |
| `stream_faults` | pass | Failing batch inserts, row inserts, snapshot updates and publishes. Rows stay unique by seq: the per-row fallback clears `pending_events`. About 5.7M states, 75 s. |
| `seq_reuse_after_terminal` | violation | A client that POSTs on the live terminal gets a turn whose `get_next_seq` runs before the previous turn's final flush. Seqs repeat. |
| `subscriber_gap` | violation | Events published between the backlog read and the subscribe are never delivered. Spec §4.7 says subscribe first. |
| `task_cancel` | pass | A `task.cancel()` from `_close_session` at any await, plus one DELETE: only terminals follow a terminal. About 807k states, 14 s. |
| `task_cancel_status` | violation | A task-cancelled turn ends `cancelled` with status `completed`, because the cancel event is not set. Spec section 5 (task-level cancellation) and section 7 say `interrupted`. |
| `registry_lifecycle` | pass | Overlapping POSTs, fingerprint changes, failed connects, sandbox deaths, a DELETE, the reaper, terminate and `terminate_all`: closers never overlap on a session, and every task ends. About 35k states, 5 s. |
| `shutdown_cancels_connect` | violation | Two chats. While `terminate_all` awaits the close of one chat's session, a turn of the other chat takes the lock and enters `client.connect()`; closing that chat's popped session then cancels the turn there, `except Exception` misses the `CancelledError`, and the new transport leaks. With one chat this cannot happen: the turn is cancelled before it can take the lock. |
| `reaper_closes_first_turn` | violation | The first turn of a chat is never attached, so the reaper closes its session under it. |
| `delete_lost` | violation | A DELETE during `get_or_create` is cleared by `execute_chat`, and `pending_cancels` is never read: the turn completes. |
| `processor_tools` | pass | Three agent messages over two tool ids, with starts and results in any order, repeated or unknown: every named finish pairs with its start, and truncation meets the spec. About 58k states, 30 s. |
| `transport_lifecycle` | pass | Docker and k8s transports, from a connect that may fail half-way to a repeated close, with exits, inspect failures, frame boundaries inside characters and either channel able to fail: `read_messages` yields one decoded str per stdout frame in order, never stderr, and always ends, and a non-zero exit on an intact channel is surfaced. About 63k states, 6 s. |

The findings in `PROJECT.json` give the code lines for each violation.

TLC also violates these properties, under the configuration named; they
are not among the runs above, and the hazards in `PROJECT.json` point here:

- `SeqNeverReused`, with `DbMayFail` and a sequential client. A dropped
  per-row insert at the end of a turn (runtime.py:252) leaves a hole, and
  `get_next_seq` (MAX+1) hands that seq out again. Spec §3 forbids this.
- `EveryTurnEndsWithTerminal`, with one DELETE and no faults. A DELETE
  during the last receive ends the loop without `cancelled`, and the
  `is_set()` check then skips `complete` (runtime.py:146): the turn has no
  terminal envelope. Spec 7 and 8.3 say exactly one.
- `EveryTurnEndsWithTerminal`, with `ConnectMayFail`. A connect failure
  escapes `execute_chat` before `run`'s try/finally (runtime.py:93). No
  `error` envelope is emitted, and the row stays `in_progress`.
- `PersistedSeqUnique`, with `MaxTaskCancels = 1` (and `DbMayFail`). A cancel after the batch
  insert committed skips `pending_events.clear()` (runtime.py:236), so the
  final flush inserts the rows again.
- `StatusMatchesTerminal`, with `MaxTaskCancels = 1`, by a second path.
  `_close_session`'s cancel lands in the `finally` flush (runtime.py:168).
  The row stays `in_progress`, and the terminal row is lost.
- `StatusMatchesTerminal`, with `AgentMayFail` and no cancels. An agent
  failure emits `error`, and the final flush records `completed`
  (runtime.py:264). Section 7 says `failed`.
- `StatusMatchesTerminal`, with `StartPolicy = "afterTerminal"` and one
  DELETE. Turn 1 emits `cancelled`. The client, on seeing it, POSTs turn 2,
  whose `execute_chat` clears the shared `cancel_event` (runtime.py:101)
  before turn 1's final flush reads it. The cancelled turn is recorded as
  `completed`, although scenario S3 says `interrupted`. In the same
  configuration, a DELETE that arrives after `complete` was emitted, before
  the final flush, records a completed turn as `interrupted`. That follows
  the flush rule of spec 4.5 to the letter, so it is a gap in the spec
  rather than a bug in the code.
- `AtMostOneTerminal`, with `MaxTaskCancels = 1`. A cancel delivered while
  `complete` is being published (runtime.py:156) is caught by the
  `CancelledError` handler, which emits a second terminal, `cancelled`.
- `StdoutIntact` (Transport), on both backends. A frame boundary inside a
  multi-byte character: each frame is decoded on its own with
  `errors="replace"` (docker.py:101, k8s.py:137), so the consumer gets
  U+FFFD in place of the character. Spec 4.1 calls `recv` a sequence of
  text chunks over stdout.
- `ReadyFollowsStream` (Transport), under `transport_lifecycle`'s own cfg. The exec
  stream fails under a live process: the reader ends and puts the
  sentinel, but the docker monitor polls only the process, so `_ready`
  stays true (docker.py:182). The registry keeps reusing the session.
- `CloseKillsProcess` (Transport), for k8s. `_cleanup_resources` closes the
  websocket and never signals the process (k8s.py:202). Spec 4.1 says close
  kills it. For docker this holds unless `exec.inspect()` fails in
  `_kill_exec_process`.
- `ExitKnownAtEnd` (Transport), on both backends. After a non-zero exit the
  consumer takes the sentinel before `_exit_error` is set. For k8s, the
  sentinel put in the reader's `finally` wakes the consumer before the
  shielded monitor parses the error channel. For docker, the error waits for
  the next 500 ms poll. Whether this loses the error depends on
  `read_messages` in the base class, which is not under `src/`.
- `ShutdownClosesAll`, with `ShutdownHappens`. `terminate_all` clears the
  map and closes outside the lock (session_registry.py:109). A turn queued
  on the lock then creates a session that nothing closes.

Every property of a passing run has a mutant in `PROJECT.json`. Each mutant
is a plausible bug in the mapped code that TLC catches under that run's cfg.

### Bounds

- **Two turns.** A second turn is what makes seq allocation across runs
  matter: its `get_next_seq` reads the first turn's rows.
- **Two agent messages with at most one event each, and `FLUSH_EVENT_COUNT = 2`.**
  This gives runs with 0 to 3 envelopes per turn. It reaches both the
  throttled flush and the final flush, a cancel between messages, and the
  cancel after the last message.
- **One subscriber.** Its `after_seq` is 0 or 2, which covers a fresh stream
  and a resume in the middle of a stream.
- **One DELETE.** The cancel flag is a boolean, so a second DELETE adds
  nothing.
- **One or two task cancels** (`MaxTaskCancels`). The first is
  `_close_session`'s cancel, and the second is the one `wait_for` sends on
  timeout.
- **Processor: three messages of one block, two tool ids, `MaxDescLen = 2`.**
  Two ids let a result for one tool arrive while the other is active, and an
  id be started twice; three messages reach start, finish and a repeated
  finish. A length bound of 2 stands in for 60: texts of up to four
  characters reach below, at and beyond it. Two blocks per message take more
  than five minutes and add only sequencing already reached across messages.
- **Transport: two stdout chunks and one stderr chunk.** Two chunks show
  order, and a boundary between them may split a character; a stderr chunk
  shows that stderr is kept out of stdout. Every
  close point is reached: before connect, after a failed connect, while the
  reader or monitor runs, and after the process exited. More chunks only
  lengthen the queue.
- **Registry: two turns of one chat and two configurations.** The second turn
  is attached to the first one's session, can find it stale (changed
  fingerprint or dead sandbox), restart it, and be cancelled by any closer.
  Three turns in `registry_lifecycle` exceed two million states without
  adding a new kind of step. `shutdown_cancels_connect` uses three turns of
  two chats, the least for its trace: one chat's session to close first,
  and a chat with a session and a second turn.

### Fairness

- Each turn's task is weakly fair. Once the event loop is running, a ready
  task gets scheduled. The external calls it awaits are modelled as steps that
  succeed or fail, never as steps that hang.
- Each subscriber's `Subscribe` and `Receive` are weakly fair. A pubsub
  message in the buffer is returned by the next `get_message`.
- The client, DELETE and `Disconnect` are not fair. Users need not act.
- In `SessionRegistry`, `Acquire` is strongly fair. `asyncio.Lock` wakes its
  waiters in FIFO order, so a task that keeps finding the lock free gets it.
  The other task steps and the closers' steps are weakly fair. Requests, sandbox deaths, the reaper and shutdown are not assumed to
  happen.
- In `Transport`, the reader, the monitor, the consumer and the steps of a
  `close()` already begun are weakly fair. They are event-loop tasks, and
  the docker monitor polls every 500 ms. The caller, the process and
  failures of inspect or of the channel are not assumed to act. A poll that
  finds the process running changes nothing, so fairness never forces an
  inspect failure. The run says `CHECK_DEADLOCK FALSE`, because a closed
  transport does nothing more.
- The registry runs say `CHECK_DEADLOCK FALSE`. A server whose tasks all wait
  still serves other chats, so a stuck task is a liveness failure, and
  `EveryTaskEnds` is the check for it.

## 4. Not modelled yet, and the plan

| Part | Why it is left out |
|---|---|
| Agent factory (`claude_agent.py`), `main.py`, config, db engine, Redis client | Construction only. `build_options` sets `continue_conversation` from `has_messages`. That flag is not part of the options fingerprint, so it never decides a restart, and no property tells it apart. The lifespan's shutdown is `ShutdownBegin` in `SessionRegistry`. |
| `has_messages` | A read-only query; it feeds only `continue_conversation` (above). |
| `consume_pending_cancel`, `get_session` | The first has no caller under `src/`. `get_session` is the lookup inside `StartTask` / `StartTurn`. |
| Time-based (200 ms) flush and the 30 s ping timer | Time is abstracted: a ping may occur whenever the buffer is empty. |
| `_options_fingerprint`, `to_render`, `content_text` | Pure functions. Only their results are modelled: a configuration is one of `Cfgs`, and a snapshot is the list of kinds. |

What is left for later work:

1. **Overlapping POSTs** (`StartPolicy = "any"`) as a run of its own. TLC
   finds `SeqNeverReused` violated under it, by the same cause as
   `seq_reuse_after_terminal`. It is not a run of its own, because it asks the
   same question as `seq_reuse_after_terminal`.
2. **`Transport` composed with `SessionRegistry`.** The registry sees a
   transport only through `ready` (`TransportDies`). A product model would
   put one `Transport` per session into the registry; `ReadyFollowsStream`
   being violated for docker is the case it would connect to the
   registry's reuse of a session.
