# Verification of cst-pilot

cst-pilot is an agent for technicians: a Rust core (`crates/`) that talks to model
providers, runs tools and keeps sessions on disk, and TypeScript extensions
(`agent/home/extensions/`) for the web interface, telemetry and diagnostics. This
directory holds TLA+ models of the parts of it that are concurrent or must survive
failures, the configurations that check them with TLC, and proofs checked with TLAPS.

Paths are relative to the repository's `src/`. `agent_loop.rs` and `agent.rs` are in
`crates/pi-agent/src/`; `agent_session.rs`, `session_store.rs`, `session_manager.rs`,
`execution_log.rs` and `nested_calls.rs` in `crates/pi-session/src/`; `web/` and
`telemetry/` in `agent/home/extensions/`.

- [1. The system](#1-the-system)
- [2. Modules](#2-modules)
- [3. How the modules correspond to the code](#3-how-the-modules-correspond-to-the-code)
- [4. What the runs check](#4-what-the-runs-check)
- [5. What is proved](#5-what-is-proved)
- [6. Where code and documentation disagree](#6-where-code-and-documentation-disagree)
- [7. What is not modelled](#7-what-is-not-modelled)
- [8. Plan](#8-plan)

To repeat the checks, in this directory:

    tlc -workers 2 -config MCTools.cfg MCTools.tla     # likewise every .cfg
    tlapm StoresProofs.tla                             # any *Proofs.tla, SeqFacts.tla

## 1. The system

A *part* below is a group of components that meet in one another's state; parts meet in
calls. For each component: what it keeps, what is hard about it, when it is correct.

### A run and its turns

**Agent run lifecycle** (`agent.rs`). *State:* `active_run` (id, cancel token, idle
notification), `is_streaming`, the transcript, a counter of run ids. *Operations:*
`prompt`, `continue_run`, `abort`, `reset`, `wait_for_idle`; a task spawned for each run;
the guard that aborts the run when the future of a prompt is dropped. *Hard:* callers, the
run's task, aborters and waiters meet at one lock and do things before and after they
hold it. *Correct if* runs are serial, a caller gets its answer after the run was cleaned
up, a dropped caller cancels its own run only, and nobody sleeps through the end of a run.

**Double loop and message queues** (`agent_loop.rs` `run_loop`; `PendingMessageQueue` in
`agent.rs`). *State:* two queues (steering and follow-up, each with a mode), the messages
a loop holds in local variables, the event sequence seen by subscribers. *Hard:* messages
arrive at any time; every hook may fail or panic while the loop holds messages that are in
no queue; a provider may ignore the cancel token. *Correct if* no message is lost, repeated
or overtaken, a turn takes as many steering messages as its mode says, subscribers see a
well-nested sequence that is closed, and a cancelled run ends.

**Tool batches** (`agent_loop.rs` `execute_tool_calls` and below). *State:* for each call
how far it is, the results, pending calls. *Hard:* tools of a parallel batch end in any
order, are cancelled at any time, and one tool may have to run alone. *Correct if* every
started call ends, results are in order, and a cancelled batch starts nothing.

**Tool progress updates** (`agent_loop.rs` `ToolUpdateGate`). *State:* a queue behind a
mutex, a flag, a counter of updates in flight, a notification. *Hard:* lock-free wake-ups
between threads of the tool, a worker and the executor, and a call that is dropped.
*Correct if* accepted updates are sent once, in order, promptly, and none after the call
has returned.

**Nested tool calls** (`nested_calls.rs`). *State:* scopes of running calls, a chain of
channel ends that is the queue of exclusive calls, recorders with limits. *Hard:* re-entry,
callers that return before the calls they made, scopes cleared while calls still run.
*Correct if* exclusive calls are serial, re-entry does not deadlock, and a record that says
it is complete is.

**Tools** (`crates/pi-runtime/src/tools/`). The shell tools run a command in a process
group with a polling thread and a reader per pipe, and keep the last part of its output in
memory and all of it in a file; edits and writes of one file take turns with a lock of that
file. *Hard:* descendants that keep pipes open, cancellation and drops of the caller, pieces
of output that cut characters and lines, links that resolve to another file. *Correct if* the
command is reaped and nothing of its group lives when the call ends, the end of the output is
shown, and no change of a file is lost.

### A session

**Session facade** (`agent_session.rs`). *State:* a slot with a cancellation token for each
kind of work (run, retry, compaction, branch summary, reload, input hooks, bash), flags, the
notification `idle_notify`, messages deferred while a run streams. *Hard:* operations look
at flags, then take a slot; `abort` and the runs themselves do not take part in the lock of
admission. *Correct if* the session closes only after its work, an abort reaches the run it
found, and no deferred message comes between a tool call and its result.

**Input delivery** (`agent_session.rs` `prompt` and the run worker; inputs in
`execution_log.rs`). *State:* the log of inputs in memory and on disk, the session file, the
active flag, worker count, queues of the agent, deferred actions. *Hard:* clients repeat
inputs after lost replies; workers overlap; saves and commits fail; the process dies
anywhere. *Correct if* an input reaches the session once, and log, file and replies never
contradict one another.

**Execution log of tools** (`execution_log.rs`, hooks in `agent_session.rs`). *State:* the
active run and its calls, interrupted calls of the past, in memory and on disk. *Hard:*
crashes between two files, nested calls that outlive their caller. *Correct if* nothing that
executed is ever missing both from the session file and from the log.

**Session persistence** (`session_store.rs`, committing methods of `session_manager.rs`).
*State:* a JSONL file and its copy in memory. *Hard:* any write, sync or rename may fail or
be cut short by a crash. *Correct if* what was acknowledged survives, what was refused does
not come back, a batch is whole, and memory agrees with the file.

**Session tree** (`session_manager.rs`, `compaction.rs`, `branch_summary.rs`). *State:* the
entries as a tree, the leaf. *Hard:* compactions upon compactions, edits of the context,
branches and restarts in any order. *Correct if* what the model is shown of a branch loses
and repeats nothing and is a transcript it can answer.

**Runtime host** (`crates/pi-runtime/src/runtime.rs`). *State:* a slot with the active
session. *Hard:* replacements and the disposal outlive who asked for them and overlap with
callbacks. *Correct if* one session at most is served, and no other stays open.

### What the session talks to

**Model providers** (`crates/pi-ai/src/`: `api.rs`, the wire formats, `types.rs`, `auth.rs`;
`crates/pi-agent/src/proxy.rs`; `ModelRuntime`). *State:* the blocks of an answer so far, the
bytes of a cut line, a queue of events, the credential file, models in memory, in a cache
and in a snapshot. *Hard:* connections that end anywhere; chunks that cut characters;
tokens that are rotated by the server while several processes refresh them; overlapping
refreshes. *Correct if* an answer that is acted upon is whole, events reach who waits for
them, the credential stays usable and a logout lasts, and shown models are the newest.

**MCP servers** (`crates/pi-runtime/src/extensions/mcp*`). *State:* tables of waiting
requests, a session id, a state per configuration, published tools. *Hard:* deadlines that
race replies, servers that forget sessions, runners that replace one another. *Correct if*
requests end with their own reply, a session is remade once, and the tools in a session are
those of the newest client.

**Cache warmer** (`crates/pi-runtime/src/cache_warmer.rs`). Replays the last request to keep
a provider's cache warm. *Hard:* timers, replays and commits of runs that were replaced.
*Correct if* the run that exists is the newest and something drives it.

### Clients

**JSON Lines mode** (`crates/pi-runtime/src/modes/rpc_mode.rs`). Pump, queues, handlers,
dialogs and one writer behind a bounded queue. *Hard:* limits of every queue, dialogs that
time out or are answered late, a client that goes away. *Correct if* every command is
answered once and the mode ends.

**Web sessions, inbox, receipts** (`web/server/session/`, `web/server/api.ts`). *State:* a
pool of sessions, an inbox file per session, a file of receipts. *Hard:* anything may happen
during an `await`; the server may die between marking and doing. *Correct if* there is one
writer, a deleted session stays deleted, an input is taken once, no pending input is
forgotten, and a key acts once.

**Telemetry** (`telemetry/`). *State:* drafts, a queue and a lock, all files shared by
processes. *Hard:* processes die with a lock or a draft in hand. *Correct if* one live
process is in the lock, a revision stands for one content, and what was saved is reported.

### How they interact

    browser ─ WebInbox, MutationReceipts, WebSessions      client ─ Rpc
                     └───────────────┬───────────────────────┘
                                     ▼
            SessionRuntime ── SessionWork ── prompt(client id) ──▶ InputDelivery
                                     │                                  │ run admission
              McpServers ── tools ──▶│                                  ▼
                                     │ commits                   AgentLifecycle
                                     ▼                                  │ one task per run
              SessionTree on SessionStore ◀──── messages ───────── AgentLoop ── ProviderStream
                                     ▲                                  │ tool calls
                                     │ results                          ▼
                                ToolJournal ◀─ begin/end of calls ── ToolBatch
                                     ▲                                  │ one call
                                     └── records ── NestedCalls ◀───────┼──▶ ToolUpdateGate
                                                                        ▼
                                          ChildProcess, OutputAccumulator, FileMutations, McpClient

The arrows are calls. Every module takes the one below it at the level of what that one is
checked to promise; the places where this matters are:

| module | takes as one step | justified by |
| --- | --- | --- |
| AgentLifecycle | what a run does: it writes, ends or fails | AgentLoop: a cancelled run ends (`TurnsEnd`) |
| AgentLoop | a batch of tools with at least one result | ToolBatch (`BatchEnds`, `ResultsMatchCalls`) |
| AgentLoop | an answer, whole or refused | ProviderStream (`AnswersArrive`) |
| ToolBatch | the execution of one tool, with its updates | ToolUpdateGate (`NoWakeUpLost`, `ImplementsChannel`), ChildProcess (`CommandsEndCleanly`) |
| InputDelivery | a commit to the session file: stored, or refused and absent | SessionStore (`CrashesKeepPromises`); its one exception, the first write of a session, is the step `CrashInFirstCommit` |
| InputDelivery | the agent's loop: it takes messages, commits them, ends | AgentLoop, AgentLifecycle |
| SessionTree | a commit | SessionStore |
| ToolJournal | a commit of a result; a record complete or not | SessionStore; NestedCalls (`NestedCallsKept`) |
| SessionRuntime, Rpc | the work and the shutdown of a session, which end | SessionWork (`ShutdownEnds`) |
| Telemetry | a change of draft or queue | FileLock (`LockIsExclusive`) |
| WebSessions | a request that creates | MutationReceipts (`KeyActsOnce`) |
| ProviderStream | reads of one event each | SseParser (`AnswersArrive`) |

## 2. Modules

| module | what it is |
| --- | --- |
| `Notify` | Tokio's `Notify::notify_waiters` with a future that is created, enabled, awaited: who is armed, who was woken |
| `UpdateDelivery` | abstract: a channel that accepts, delivers in order, closes; its owner ends only when all is out |
| `ToolUpdateGate` | the gate; implements `UpdateDelivery` |
| `SerialRuns` | abstract: one run at a time, which settles and then replies |
| `AgentLifecycle` | admission and the end of runs; implements `SerialRuns` |
| `AgentLoop` | `run_loop`, its entry points and both queues |
| `ToolBatch` | one batch of tool calls |
| `NestedCalls` | scopes, queue and recorders of nested calls |
| `ToolJournal` | the execution log of tool calls, across crashes |
| `ChildProcess`, `OutputAccumulator`, `FileMutations` | commands, what is kept of their output, changes of one file |
| `SessionWork` | the kinds of work of a session with their slots, abort, waits and shutdown |
| `InputDelivery` | inputs with client ids, run workers, start-up |
| `SessionStore` | a session, its file and what a crash leaves of it |
| `SessionTree` | entries as a tree, and the context that a branch gives the model |
| `SessionRuntime` | the host that replaces one session by another |
| `McpServers`, `McpClient`, `McpHttp` | who owns and publishes the tools of a server; requests; the HTTP session |
| `ProviderStream`, `SseParser`, `AnswerQueue` | an answer, its bytes, the queue of its events |
| `Credentials`, `ModelCatalog` | the credential of a provider; its models and their snapshot |
| `CacheWarmer` | replays that keep a cache warm |
| `Rpc` | the JSON Lines mode |
| `WebInbox`, `MutationReceipts`, `WebSessions` | the web server's inbox, receipts, pool |
| `Telemetry`, `FileLock` | statistics on their way to an endpoint; the lock of their files |
| `MCToolCalls`, `MCTools`, `MCSessions`, `MCStores`, `MCClients`, `MCServices` | sums: modules that share no state, checked in one run |
| `SeqFacts` | lemmas about sequences that the proofs share |
| `*Proofs` | the theorems |

A sum chooses one part in `Init`; that part moves and the others rest, so that a behaviour is
a behaviour of one module. The count of states of a run is the total of its parts.
`AgentLifecycle`, `InputDelivery` and `OutputAccumulator` are run directly; `MCSessionWork` only says which calls meet.

Definitions whose comment starts with "A slip" are not part of any next-state relation.
Each is a step of the module with the mistake that its name says, and shows that the
property listed with it in `PROJECT.json` ("mutants") is sensitive to it: with the slip in
place of the step TLC finds the property violated.

## 3. How the modules correspond to the code

The grain of an action is what the code does without letting another thread, task or
crash in: a critical section of one lock, the code between two awaits, or one operation on
the file system. `PROJECT.json` ("map") gives the lines of every definition.

**ToolUpdateGate.** `accepting`, `queue`, `inFlight` are the fields of `UpdateGateState`;
each critical section of its mutex is an action and the `notify_waiters` after the unlock
is another (`...Wake`). `workerPc` and `execPc` follow the worker task and
`execute_prepared_tool_call`; both use the arm–check–sleep sequence of `Notify`.
`DropFuture` may happen at any point of the executor; the drop guard then closes the gate.
An update is the number of the call that made it; the sink is one step that takes time
(`inFlight`).

**AgentLifecycle.** `TakeRunId`, `Admit`, `Refuse` are `run_with_lifecycle`, which takes an
id, then the lock. `Write`, `BodyEnds`, `ReportFailure`, `FinishRun`, `NotifyIdle`,
`SendResult` are the spawned task in the order of the code. `AbortRead`/`AbortCancel` are
the two halves of `abort`. The four `Wait...` actions are the loop of `wait_for_idle`.
The transcript is a sequence of the runs that wrote it.

**AgentLoop.** `pc` is the position in `run_loop`; `batch` are messages being committed,
`pending` the local `pending_messages`. `Check` to `Repoll` is the start of an inner turn,
`Request` to `AnswerAborted` the stream of one answer, `Tools` the batch, `Finish` and
`Poll` the end of the turn, `FollowUps` the outer loop. `HookPanics` stands for every callback
the loop does not guard, `FinalizeFails` for `finalize_message` returning an error on a
prompt, a queued message, an answer or a tool result. `seen` is what `process_event`
remembers of the events of a run; `frame` is a judgement on the sequence of events that
subscribers have received, made by `Nest`. Messages are numbers in the order in which they
were handed over, with a kind. `fate`, `lost` and `dropped` are history.

**ToolBatch.** `st` is where each call is; `phase` and `next` follow the dispatching loop,
`RunTask` and `ToolReturns` the futures of a parallel batch, `JoinAll` the end of
`join_all`, `CommitResult` the results that enter the transcript one by one. Configuration,
the set of exclusive tools and truncation are chosen in `Init`.

**NestedCalls.** `scopes` maps call ids to what the runner knows of them; an id that has
none is treated as the code does, with a fresh scope. `tail` is the last channel end in
`queue_tail`; `before` is the call whose end a queued call waits for. The limits of the
recorder are a number (`NESTED_MAX_CALLS`) and a choice (the byte limit may or may not be
hit). A tool may return while calls it made still run; it does not drop them, because no
tool of the repository does. The numbers in nested ids are not modelled.

**ToolJournal.** `pc` is where each call is between the loop's announcement and its stored
result. `RecordStart` is `record_tool_start` and its save, `TakeRecord`, `Persist`, `Clear`
are the three parts of `handle_finalize_message` for a result, `Reopen` is
`reconcile_on_startup`. The log in memory changes only if the save succeeded. A run that
is in the history as `Running` is not looked at by anything, which `Log` says by leaving it
out. Not modelled: the mark of a crash that is appended to the session for the reader, and
calls that a detached task would make only after the result of its caller was stored.

**SessionStore.** `file` is what the file system shows now; `survivors` is the set of
images that a crash at this moment may leave: every prefix of bytes that is not synced
(`WritePrefixes`, `AppendPrefixes`). `Crash` picks one. An operation of the store is a small machine
(`op`): write, sync, and after an error the way back (truncate, or remove the new
file), which may fail too and then poisons the store. `Open` is reading, tail repair and
load. Contents of entries are their numbers and kinds. One assumption is on the operating
system, not on the code: what was left unsynced by a process is written back before the
session is opened again (`WriteBack`); without it a second crash could take away what the
new process has read and built on, which no program can prevent that does not sync what it
reads.

**InputDelivery.** A call of `prompt` is a process whose `pc` names the stage it is at:
deduplication, hook, routing, admission, the worker (`prepare`, `log`, `submit`, `own`,
`accept`, `loop`), `finish_run`, the broadcast and the deferred calls, `leave`. A save of
the log either succeeds, or reports failure with the file changed or not (`SaveFails`), and the
memory is then as before. `Crash` ends every call; what remains are `disk`,
`stored`, `keyed` (the correlation entries) and the replies already given. The waits of
the code are the guards of the next stage.

**SessionWork.** A call of an operation is a process with a `kind`; `Mixes` says which kinds
meet. Its `pc` goes from the first look at flags over the slot it takes to its end;
`runToken`, `retryToken`, `compaction`, `branch`, `reload`, `inputs`, `bashes` are the slots,
`cancelled` the tokens. `CancelRun`, `CancelFlag`, `CancelRest` are `cancel_active_operations`
and `AgentIsIdle`, `LookAndArm`, `LookAgain`, `Woken` the waits of `abort`, which is part of
compaction, reload, replacement and shutdown as it is in the code. A run is its worker: from
`Admit` over the agent's runs, retries and compactions to `ActiveRunGuard` (`Leave`,
`LeaveClears`, `Left`). `Closer` is the detached task of `start_shutdown`. `targets` and `alone`
are history: the run an abort found, and the run that was admitted while no other was unsettled.
`ToolEnds` stores the result of a call; `FinalizeRefused` and `FinalizeFails` are the returns of
`handle_finalize_message` that end the agent's run in an error.

**SessionTree.** `ent` is the file, `leaf` the active branch. `Prompt` to `RunEnds` are what
a run appends, `Attempt` and `Omit` failed attempts and their removal from the context,
`Prepare` and `Compact` the two halves of a compaction, `Navigate...` a change of branch with
and without a summary (`entries` is what was collected, `covers` what the token budget let the
summary be told of), `Fork` and `Restart` the other ways to a branch. What the model is
shown is `Messages` (`build_session_context`), then `Transformed` (`transform_messages.rs`).

**SessionRuntime.** A task's `pc` follows one replacement or the disposal: ask the
extensions, prepare the target, tear the old session down, create, bind. `turn` is
`transition_lock`; `held` who holds a session file; `ears` and `bound` are the subscriptions
of the host. `Reopen` is the way back when the target cannot be made.

**McpServers, McpClient, McpHttp.** A state is one configuration of the server; its task
connects (`Enter`), lists, publishes and hears announcements; the owner of each runner
replaces it: `does` is where that task is, `owns` the state it has. In `McpClient`, `Receive`, `Deliver` and `EndReceiving` are the receiving task;
`WaitsBlindly` and `Deadline` the select of the caller. In `McpHttp` a message checks the
session, posts, and on a forgotten session waits at the `gate` where one of them has it made
anew. `stream` follows the task of `start_get`: it asks, reads, asks again, or is given up.

**ProviderStream, SseParser, AnswerQueue.** `Read...` is what the client makes of one event,
by wire format; `Finish` and `Accepts` how it decides that an answer was whole; `heard` is
what a listener that follows the events builds. The parser works on bytes of seven kinds, a
chunk at a time, and is compared with `Finish` of the whole input. In the queue `Push`,
`End`, `Poll` are steps under the lock; `Arm`, `Look`, `LookAgain` are `result()`.

**Credentials, ModelCatalog.** A user of a credential takes the locks of its process and of
the file, reads again, offers the token to the server (`Offer`, `Exchange`), saves; it may be
dropped (`Cancel`), its process may die (`Crash`). A job of the catalog is a refresh, a
change of the secret, a registration or a reader; `LockModels` and `LockCache` are the two
places where it asks whether it still is the newest.

**CacheWarmer.** A run has the number of its request; `task` is what its start, timer or
refresh does next. `Take` and `Keep` are the two ends of a refresh under the lock, `Check`,
`Decide`, `Replay`, `Commit` what is between.

**Rpc.** `main` is the pump and the end of the mode; `at` follows a command from the frame to
its answer, `dialog` a dialog with its generation; `out` is the bounded queue and `writer`
its task; `failed` are its closed and failure flags.

**WebInbox.** `held` is the list in memory and `file` the saved one. `Locked` operations are
transactions, `Look` and `Commit` the two halves of the drain, `CallStartsRun`, `CallSteers`,
`CallRefused` what the session answers, `Take` and `RunEnds` what it does later, and
`Delivered`, `Outcome`, `NotDelivered`, `NotSaved` what is made of an answer. `awaited` and
`ids` are the two maps of `input-messages.ts`; `WasAccepted` asks them.

**MutationReceipts, WebSessions.** A request is a process. With a key it begins or joins;
whoever begins reads the receipt, reserves it, acts, completes it. In the pool every await of
`sessions.ts` ends a step, and `seen` and `snap` are what such a read returned.

**Telemetry, FileLock.** `chain` is the owner's queue of tasks (`Submit`, `Persist`,
`Finalize`), `recovery` what another process does with a draft, `delivery` a sender's batch.
In the lock `Meet`, `Claim`, `LookAgain`, `Move`, `Clear` are the recovery of an abandoned
directory.

**ChildProcess, OutputAccumulator, FileMutations.** `main` is the polling thread, `reader`
each reader; `shell`, `kin` and `stray` are processes; `late` and `over` are clocks. The
accumulator is a pure state machine on bytes of four kinds, its `Decoded`, `TrimTail` and
`TruncateTail` functions of what was fed. A call that changes a file resolves its key, finds
or makes a lock, waits in its `queue`, and writes in a task of its own; `caller` may be gone
by then.

## 4. What the runs check

State counts are distinct states of the complete graph; times are those of two workers. Each
property is stated in words, with the code behaviour it is about, above its definition.

| run | states | properties |
| --- | --- | --- |
| `tool_calls` | 8 430 | `NoWakeUpLost` (an update does not wait for the tool to return; the drain ends), `ImplementsChannel` (refinement) of `ToolUpdateGate`; `StartedCallsEnd`, `ResultsMatchCalls`, `BatchEnds` of `ToolBatch` |
| `agent_lifecycle` | 523 394 | `LiveRunOwnsTail`, `ImplementsSerialRuns` (refinement), `WaitersWake` |
| `session_work` | 406 710 | `ClosedAfterWork`, `AbortReachesRun`, `BashKeepsPairs`, `ShutdownEnds` |
| `session_work_shutdown` | about 139 000 | finds that `ShutdownAlwaysEnds` is violated (section 6) |
| `stores` | 886 773 | `CrashesKeepPromises` (`SessionStore`), `InboxDelivers` (`WebInbox`), `KeyActsOnce` (`MutationReceipts`), `LockIsExclusive` (`FileLock`), `CredentialsKept` |
| `sessions` | 610 778 | `HistoryIsKept`, `ContextCanBeAnswered` (`SessionTree`), `ToolsFollowServer` (`McpServers`), `RuntimeServesOne` (`SessionRuntime`), `RunIsNewestAndDriven` (`CacheWarmer`), `WebSessionsKept` (`WebSessions`) |
| `clients` | 518 182 | `AnswersArrive` (`ProviderStream`, `SseParser`, `AnswerQueue`), `CatalogIsCurrent`, `McpServesCalls` (`McpClient`, `McpHttp`), `CommandsEndCleanly` (`ChildProcess`) |
| `input_delivery` | 450 335 | `RecordsAgree`, `ActiveFlagHasOwner`, `OutcomesAreFinal`, `WorkersReturn` |
| `tools` | 548 108 | `LoopIsOrderly` (`AgentLoop`), `NoEffectUnaccounted`, `EveryStartReports` (`ToolJournal`), `NothingIsLost` (`OutputAccumulator`, `FileMutations`), `TurnsEnd` (both loops of calls) |
| `output_end` | 282 | finds that `ShowsEnd` is violated (section 6) |
| `services` | 348 279 | `NestedCallsKept`, `ReportsArrive` (`Telemetry`), `RpcServes` |

The longest run takes four minutes. A property of a sum says what its part promises, and some
of them are conjunctions of what belongs together: `RecordsAgree` is that an input is in the
file once at most, that log and file agree, and that no reply was revised by what followed;
`LoopIsOrderly` is that each message enters once and in the order of its queue, one steering
message per turn in that mode, and that events are closed.

**Bounds.** What the code lets grow is stopped by a constant, and the processes are a
parameter. They are small, and large enough for the cases in question:

- *gate:* three updates let one be on its way, one wait and one be drained; two threads race
  for the queue and for the wake-up.
- *life cycle:* two runs let a late action of the first meet the second, which is what every
  property here is about; one write of a run, beside its report of a
  failure, shows whether a reset or another run cuts into what it wrote.
- *batch:* three calls are the smallest batch with a first, a middle and a last one.
- *session work:* three calls, in nine mixes: a run with an abort or a shutdown and with each
  other kind of work. `MaxLaps` is 2: an agent's run that follows another one of the same
  session run, after a retry or a compaction. Two runs that are both unsettled need a
  worker that leaves, a second that begins and a third, so the exceptions for them in
  `AbortReachesRun` and `BashKeepsPairs` are there for the proofs, which hold for any number.
- *stores:* five entries allow a first write, an append, a batch of two and an append after a
  repair; crashes, failures and reopenings are not bounded there. The inbox has two items and
  two mishaps, the receipts three requests of which two share a key, with any number of
  crashes; the lock three processes, so that a recovery can be recovered. Four users of a credential in two
  processes, three tokens, two failures.
- *sessions:* a tree deep enough for a compaction upon a compaction and a fork of it; two
  runners of MCP with three states of one version or two of two; four tasks at the host, so
  that two wait while one replaces; two requests of the cache warmer; two sets of three
  requests to the pool, one crash and one id that another process opens, too.
- *clients:* three blocks and one piece each, one retry; five bytes in chunks of two, which cut
  a line end and a character everywhere; three events; jobs of the catalog in sets of two or three, two
  lists after the first, so that an older one could replace a newer one, and one failed change of the
  cache, a write or a deletion; two MCP
  calls, one progress message, one reading failure; two messages over HTTP, a session
  forgotten twice, a stream asked for once more; three uses of a child process.
- *inputs:* two calls for one input are a repetition and a third is another user of the
  session: its run can overlap with the worker of the first, its message can be taken by the
  other's loop, and it can be deferred to it. Crashes are not bounded; a client makes a call
  once.
- *tools:* three messages let two wait in one queue while a third is in the loop, in each mode
  of one queue next to the other mode of the other; turns are not bounded. Two nested calls of
  one caller can be in different stages when its record is taken, and the other top-level
  call meets the leftovers. Limits of one or two lines and of one byte, with output up to
  seven, reach every pair of limits from below and above. Three changes of a file let one
  write, one wait and one find the lock gone.
- *services:* two top-level tools with a call inside a call and one beside it, all exclusive,
  and recorders with room for one. One use, two revisions and one fault in the telemetry; a prompt, an abort and a switch with one dialog.

**Deadlock** is checked for `input_delivery`, where a session that is down can be opened again.
Elsewhere the system may stop: a bounded number of calls comes to its end, or in a sum the
chosen part does.

**Fairness.** Tokio polls a task that was woken, and locks are held for a few statements, so a
task that can take a step takes one: weak fairness per task. What is not assumed matters as
much:

- *gate:* the tool need not return, threads need not call back, nobody need drop the call.
- *life cycle:* a run that is not cancelled may go on for ever; one that is cancelled ends, as
  is checked for the loop (`TurnsEnd`). Nobody has to prompt, abort or reset.
- *loop:* hooks, tools and listeners return. The provider may answer with tool calls for ever.
  For a cancelled run `AnswerAborted` has strong fairness: the 50 ms are started anew by each
  request, so the abort is enabled again and again and not continuously, and an answer within
  the period cannot win each time.
- *batch, nested calls:* tools return once the calls they wait for have; a top-level tool need not.
- *session work:* runs, aborts, the closer and the work that runs by itself go on; a bash command
  ends by itself or not, and does when it is cancelled.
- *inputs:* one condition for all calls: the process does not stop while some call can go on. A
  call takes finitely many steps, so this is enough and weaker than fairness of every task. It
  includes that an agent's loop ends, an assumption on the provider.
- *services:* each part its own. The telemetry's timer fires only after a failure, a sender that
  died is followed by another. Of the client of `Rpc` nothing is assumed but that it reads or is
  gone; nothing makes it answer a dialog. That a command ends relies on `session_work`.
- *clients:* a task that can go on does, and the clock of a deadline advances; MCP servers,
  providers and child processes need do nothing.
- *stores, sessions:* none; what could hang is stated as an invariant (`DisposalGoesOn`: a
  disposal that waits has something to wait for).

### Behaviour worth knowing

Some things the models show are neither properties nor disagreements.

*Agent.* A run that is cancelled while its tools run still polls the steering queue once and
commits what it finds before the next request notices the token. `AgentEnd` clears the
scopes of nested calls that still run: a tool that then makes a further nested call gets a
fresh scope, which does not know that its caller holds the exclusive queue, and both hang
(`NestedCallsKept` excepts exactly these callers). A call whose hooks return after `finish_run`
makes `record_tool_start` invent an active run, which the next start-up reports as a crash.

*Session.* Two places clear the flag of a run that is not theirs. The last worker counts
itself off and clears the flag in a second step (`ActiveRunGuard`, `agent_session.rs:863-886`); a
run admitted between the two is active without a flag. A preparation that is cancelled clears
the flag before it flushes (5266-5272). A third run may then be admitted beside the second, an
abort does not find the second by the flag, and a flush of one run can put a bash result
between a call and the result of the other, which `doc/rust/plan/3.session-and-extensions.md:510`
forbids. It takes four or five calls to get there, more than a run of TLC here has; the
property says it as an exception. The other exception is a call that never gets its result:
`handle_finalize_message` refuses every message of a session that is fatal (3537), the
agent's run ends in an error, and the run still flushes what was deferred as it ends (5364), so
a bash result follows a call whose answer only the next start-up writes, after it. The
proofs show that there is no third. A call of a batch that was cancelled before it began has no
result either; the context answers it (`ContextCanBeAnswered`). Custom messages
look at the flags without a lock and may be appended in a run that began meanwhile. Several
failures leave an input `Delivering` or `Queued` in the log of a living process until the next
start-up settles it. An omission of a failed attempt that a crash cuts hides only part of it. A branch
summary is told of the newest messages that its token budget has room for, and of no results
(`branch_summary.rs:152-260`): `HistoryIsKept` says that what it leaves out is older than all it
was told of, and that it repeats nothing of the new branch.

*Host and pool.* Two rebinds that overlap may both subscribe; a callback that is cancelled leaves
the committed session unbound (`runtime.rs:588-606`); a hook of `session_shutdown` that hangs
blocks a disposal. `deleteSaved` reads, changes and writes `created.json` and can drop a key that
was acknowledged meanwhile, contrary to the test at `sessions.test.ts:120`; a request begun
before a deletion can reopen a session that has no file yet; `close()` may dispose of a writer
that started after the look (`sessions.ts:478`); a deletion that fails after its tombstone
leaves the file hidden for good.

*Web.* `input-messages.ts:45-54` gives a user message the oldest id that waits and forgets all at
`agent_end`, so an id can be attributed wrongly and `wasAccepted` then denies it; a call that
throws is marked failed though it was taken, contrary to `api.ts:182`, and a retry sends twice.

*MCP.* Between `started.swap` and setting `generation` (`mcp_runtime.rs:217`) a start can be
taken for an older one's. While a session is made anew, a message that passed the check of
`expired` may be posted without an id, or with the new one before `notifications/initialized`;
`close()` then leaves the new session undeleted. The stream of the server's own messages is
given up for good, in a session that is otherwise good, when the server answers that it has none
or refuses it, when it cannot be decoded, and after `reconnect_max_retries` attempts that brought
nothing (`http.rs:497-563`); only a new session asks for it again.

*Providers and credentials.* `unfinished` text is kept by Responses only. After an uncertain
commit the generation of the credentials is not raised. A refresh of models that another change
overlaps skips the snapshot, and a cache write that fails lets an older list come back; one that
came too late and cannot be deleted stays until the next is written.

*Commands and files.* `EINTR` from `poll` ends a reader silently; a caller that is dropped may
still be called back until the thread sees its token. A call that goes by a dangling link gets
another key than the file will have, contrary to `file_mutation_queue.rs:90`; "Operation
aborted" may be reported though the file was written.

## 5. What is proved

TLAPS checks these for every value of the constants: any number of threads, callers, runs,
calls, messages, entries, requests and processes. `tlapm` proves every obligation; no step is
left without a proof. The only assumptions are the named ones on constants, which TLC
evaluates in the runs: counters are natural numbers, sets of processes and of special values
are distinct, and what the code gives an identity has one (a nested call has one top-level
call, a call of `prompt` one input).

| module | theorems (the property of a run that each states) | obligations |
| --- | --- | --- |
| `ToolCallsProofs` | the gate: `TypeCorrect`, `UpdatesConserved`, `AllSent`, `NothingLate`, `GateImplementsChannel` (`ImplementsChannel`); the batch: `BatchTypeCorrect`, `NoCallLeftOpen` (`StartedCallsEnd`), `ResultsInOrder` (`ResultsMatchCalls`), `ExclusiveAlone`, `StopNeedsAll` | 1 045 |
| `AgentLifecycleProofs` | `TypeCorrect`, `OneRunAtATime`, `TranscriptTail` (`LiveRunOwnsTail`), `RepliesFollowCleanup`, `LifecycleImplementsSerialRuns` (`ImplementsSerialRuns`) | 418 |
| `ToolsProofs` | the journal: `TypeCorrect`, `EffectsAccounted` (`NoEffectUnaccounted`), `StartsReport` (`EveryStartReports`); the double loop: `LoopKeepsOrder` (`LoopIsOrderly`), `LoopInvHolds`; the changes of a file: `ChangesAreKept`; the output of a command: `OutputInvHolds`; both: `NothingGetsLost` (`NothingIsLost`) | 8 081 |
| `SessionWorkProofs` | `WorkEndsFirst` (`ClosedAfterWork`), `AbortsReach` (`AbortReachesRun`), `PairsAreKept` (`BashKeepsPairs`) | 1 224 |
| `DeliveryProofs` | `RecordsAlwaysAgree` (`RecordsAgree`), `OutcomesNeverChange` (`OutcomesAreFinal`), `FlagIsOwned` (`ActiveFlagHasOwner`) | 1 017 |
| `StoresProofs` | `StoreKeepsPromises` (`CrashesKeepPromises`), `InboxHands` (`InboxDelivers`), `KeysActOnce` (`KeyActsOnce`), `OneHolder` (`LockIsExclusive`), `CredentialsStay` (`CredentialsKept`) | 2 847 |
| `SessionsProofs` | `ToolsFollow` (`ToolsFollowServer`), `OneIsServed` (`RuntimeServesOne`), `NewestRunIsDriven` (`RunIsNewestAndDriven`), `WebSessionsAreKept` (`WebSessionsKept`) | 3 624 |
| `SeqFacts` | lemmas on sequences: moving the head of one to the end of another, regrouping concatenations | 53 |

Each proof goes by an inductive invariant, with one lemma or step per action.

- **Gate** (`GateInv`). What was accepted is what was sent followed by what the worker, the
  executor and the queue hold, in that order. A worker that completes a send must not be
  overtaken, and a drained list must not stand beside a queue that is filled again:
  `WorkerHolds` ties the worker's item to its position and to `in_flight`, `ExecutorHolds` says
  that from the close on nothing enters the queue, and that nothing is in flight from the drain
  on. The refinement maps the three holders, concatenated, to the channel's pending updates.
- **Life cycle** (`LifecycleInv`). Ids that were not handed out belong to no task, and two
  callers never hold the same one, so that admission really starts a new task; a run that has
  not started has written nothing. In the refinement `finish_run` is the step that settles.
- **Batch** (`BatchInv`). Results are in order because they are as many as the commits so far,
  and a call may run only where the dispatching loop is or, in a parallel batch, after
  preparation. Pending calls are those under way, which is what is left to empty at the end.
- **Journal** (`JournalInv`). The property speaks of the log on disk, but every save is
  computed from the memory, and a failed save leaves the two different: each must account for
  every executed call, a call that may still execute must be in both, runs that are over must
  have left nothing unaccounted among the calls of the active run, and the record in a stored
  result must be the one that was taken, since `Clear` removes what that record answers for.
- **Double loop** (`LoopInv`). A message is in one of five parts: committed, in the batch, in
  what was polled, in either queue. Steps move it between neighbouring ones, and what was
  committed followed by the rest is in the order of its queue; a follow-up overtakes a steering
  message only because it is in another queue. What a place may hold follows from where the
  loop is: the first turn or a later one, before the poll or after it, one message or any
  number, by the mode of the queue. The events that are open are a stack that the place tells.
- **Session work** (`WorkInv`). A slot stands for the work that has it and the count of workers
  for the runs in their stages, so an idle look is true of everything that counts; and once the
  closer has had that look nothing begins any more. The agent's run belongs to the session
  run that is in it, so a call without its result means that the session is streaming. An abort
  on its way has set the request that later looks will find, or has done what they would do; this
  needs that the run it found was alone when it was admitted (`alone`), since another one
  would share its flag and retry slot. Without that, the invariant is not inductive, and the
  way there is the race described in section 4, found by the attempt to prove it.
- **Inputs** (`DeliveryInv`, `FlagInv`). An input that is on its way has one carrier: a call
  that holds it, the queue of the agent, or the loop. The log on disk is at least as truthful as
  the one in memory, as a failed save may have been written. Deferred calls are listed once and
  wait, so that a worker which wakes one never wakes an owner of the flag.
- **Store** (`StoreInv`). `survivors` is the set of files that a crash may leave; every one of
  them is sound, has what was acknowledged, and has a batch entirely or not at all. Memory and
  the operation under way have a way back to the file from which they began.
- **Inbox** (`InboxInv`). What was taken is known as sent, the item that is being handed over
  is the one that is marked, and the drain takes the first item that fits (`LeastNumber`);
  given these, no wake-up is lost.
- **Receipts** (`ReceiptInv`). Only the owner of a key writes its file, and the file tells how
  far the owner came, which is all that a crash leaves.
- **Credentials** (`CredentialsInv`). Who works on the file holds the lock between processes, and
  has in hand the token that the file has, or its successor; the token in the file is the
  server's last but while somebody writes its successor (`FileIsLatest`). That a token is offered
  once needs the history of offers: who offered one has it in hand, or has written its
  successor, so that the number in the file has passed it, or has failed (`Offers`).
- **MCP servers** (`ServersInv`). A state has one owner from its start until it is cancelled, and
  an owner cancels before it closes and closes before it takes another. What the task of a
  state that is not cancelled has listed is what the server has, unless a notice is on its way;
  that notices are heard from the entry on, before the list, is what makes this inductive.
- **Host** (`RuntimeInv`). The task that has the turn is between its turn and its commit and has no
  session yet; the old one is shut down by then and its own file is held (`OldIsDown`). A holder
  of a file is live, or at work on what will be; and the host listens, or a callback that is
  still to come will make it listen (`ListensSoon`).
- **Cache warmer** (`WarmerInv`). The tokens that are cancelled are those of requests that have
  come, so the newest request's is not when it becomes active.
- **Web sessions** (`WebInv`). A request makes one session, which is live or gone when another
  request works with it (`OneEach`), and no request has the session of another id (`OwnIds`).
  Whoever comes after the tombstone gets no further than its own look at it. The keys are the
  hard part, as two kinds of requests write them whole from what they read before: what one
  who creates has read has every key that is entered, since the others wait for the chain, and
  what one who deletes has read has no key that is gone since, unless its tombstone is on the
  disk (`KeysAgree`). That settles all but the keys that a deletion drops, which the model counts
  as `lost`.
- **File changes** (`FileInv`). As long as no call came by a link before there was a file, every
  task that waits for a lock or holds it has the one in the map (`OneLock`): the map holds it
  weakly, but a task that has it keeps it alive. The queue of the lock has who waits, once each,
  and first who holds it (`Queues`), so one task at most is between its read and its write, and
  what it has read is what the file holds (`ReadsAreFresh`), unless a failed write left it torn.
- **Output** (`OutputInv`). What is kept is the end of the text from a character on; trimming waits
  until there is four times what may be shown and leaves twice of it, but for the byte by which a
  character may be cut (`TailIsEnd`), so that what is shown lies in it: the last lines that
  fit begin there, or the last line is too long and its end is there. That the cut finds a character
  at once needs `WholeChars` and `TextIsRead`: text and waiting bytes are what would be decoded of
  all output at once, so no half of a character follows another, but at the end of an output
  that broke off. `FileHolds` is an equivalence: there is no file exactly as long as all can be
  shown, and until then all is held back, so a file that is begun late lacks nothing; the counts
  only grow, so it stays needed.
- **File lock** (`LockInv`). One live process at most clears an abandoned lock, and a lock that
  was seen abandoned stays so until it does.

**Only model-checked.** *Liveness* (`NoWakeUpLost`, `WaitersWake`, `BatchEnds`, `ShutdownEnds`,
`WorkersReturn`, `TurnsEnd` and the temporal parts of the properties of `services` and
`clients`): fairness and ENABLED are beyond the installed provers. The refinements are proved
for the safety parts, which is all that the abstract specifications have. *Induction over
data:* the installed provers do not do it, so what a recursive function computes for every
input is not proved: the projection of `SessionTree`, the descendants of `NestedCalls`. Modules
that are proved about have no recursive operator. *Not proved
yet:* `HistoryIsKept` and `ContextCanBeAnswered`, which are about that projection, and `AnswersArrive`,
which compares a parser with a recursive function of all its input.
## 6. Where code and documentation disagree

Two runs show such a disagreement.

- **A shutdown that does not end** (`session_work_shutdown`). The comment of `shutdown()`
  (`agent_session.rs:1571`) says that the session releases its lock and goes to Closed.
  `prepare_run` may compact before the first turn: `run_auto_compaction` puts its token in
  `compaction_cancel` (5876), and a cancellation of the run drops the future inside that await
  (5249). Nothing clears the slot then, `is_idle` is false for ever, and `finish_shutdown`,
  `abort`, `reload` and `compact` wait for it. `ShutdownEnds` holds: this is the only way.
- **A tail that does not show the end** (`output_end`). The shell tools say that output is
  truncated to its last lines or bytes (`bash.rs:621`). `trim_tail` may cut the kept text inside a
  line, and `get_snapshot_text` (`truncate.rs:572-580`) drops what precedes the first end of a
  line. When a last line longer than what is kept ends with a line feed, nothing is left, and the
  result says that there was no output.

Others are not worth a run of their own but are part of the models:

- `doc/rust/plan/2.agent-core.md:300` says that subscribers always receive a closed sequence of
  events when a run fails. When `finalize_message` fails, `run_loop` emits `AgentEnd` inside the
  open message and turn (`agent_loop.rs:373-387`), and `handle_run_failure` adds nothing because
  `AgentEnd` was seen. `LoopIsOrderly` has this as its one exception.
- The comment at `session_manager.rs:2026` says that an input and its correlation entry are one
  durable snapshot. The first message of a session goes straight into the new file (2066), and a
  crash between the two lines leaves it alone (`CrashInFirstCommit`). The start-up then calls
  the input uncertain and it is not tried again, so `RecordsAgree` holds.
- The comment at `agent_session.rs:4271` says that a prompt made during the broadcast of
  `agent_settled` is executed when that ends. The flag is read and the action is pushed under
  different locks: a push after the one drain was answered `Started` and waits for a next run.
- Those that section 4 quotes: `3.session-and-extensions.md:510`, `api.ts:182`,
  `sessions.test.ts:120`, `file_mutation_queue.rs:90`.

## 7. What is not modelled

`PROJECT.json` lists every component with its sources and the reason. In short:

- *Data.* JSON-schema validation of tool arguments, exports, usage totals, system prompts, slash
  commands, virtual models, image processing, diagnostics and runbooks, parsing of
  configuration: conversions without a state that interleaves; unit tests suit them better.
- *Plumbing without a protocol.* The extension runner and its event bus (their calls appear as
  choices where they are made), print mode, assembly of the runtime and resources, clipboard,
  front end, packaging, vendored libraries.
- *External protocols.* OAuth and accounts: what a refresh does to the stored credential is
  modelled, the exchange is not.
- *Parts of modelled components.* Of the session: settings, tool selection, skills. Of the
  store: the in-memory store and version migration. Of the tree: summaries that an extension writes. Of the loop: changes of queue modes during a run
  and the declaration of tool changes. Of the journal: what a start-up reads off the session
  file alone. Of MCP: several servers at once, time limits of `wait()`, OAuth's 401, resumption
  of a stream. Of the host: hooks refused at once, copies made by an import, sessions in memory.
  Of the pool: forks, handoff, listing. Of credentials and models: overrides at run time, isolated
  views, refreshes that are dropped. Of commands: reuse of a process id. Of output: invalid UTF-8.

Hazards that no property covers have a note in `PROJECT.json`. A few more are too unlikely in
this code to be listed there: dropping a nested call that waits in the exclusive queue (no
tool does), a nested call made after its caller's result was finalised that reuses an id (no
tool does), the second append of the crash mark when a start-up fails between mark and save
(harmless), and a session refused as locked while another task is dropping its lock
(`session_store.rs:262`; spurious, never two writers).

## 8. Plan

The core, the session, the clients and the services are modelled; what is left is to prove more
of what the runs check. In the order of what a failure would cost:

1. `AnswersArrive` for the queue of events; for the wire formats and the lines only what does
   not need induction over data.
2. `HistoryIsKept` and `ContextCanBeAnswered`: the steps of the tree that do not compact first,
   since a compaction's projection is a recursive function over the branch.

Proofs about the parts of a sum belong into one module beside it (`StoresProofs`, `ToolsProofs`).
