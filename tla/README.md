# AwesomeClaude: formal verification

AwesomeClaude is an agent server. Clients connect over TCP, speak newline
delimited JSON-RPC, share named sessions, and start chats; each chat is a *run*
in which an agent loop talks to a language model, calls tools, asks its users
for permission, keeps a plan, and writes a trace. Everything runs in one asyncio
event loop, so the difficulty of the program is not data races but what may
happen between two suspension points: connections drop, runs are cancelled,
answers arrive late, trace writes fail, in any order.

This directory models that core in TLA+, checks it with TLC on small instances
and proves its main properties with TLAPS for every value of the constants.
Paths below are relative to `src/src/awesome_claude/`.

| Modules | Models | Checked by | Proved in |
| --- | --- | --- | --- |
| `SessionRuns`, `RunService`, `MCSessionRuns` | connections, sessions, runs, cancellation; what clients are promised | `SessionRuns_*.cfg` | `SessionRunsProofs` |
| `AgentLoop` | the conversation with the model, tool calls, step trace | `AgentLoop.cfg` | `AgentLoopProofs` |
| `PermissionBroker`, `MCPermissionBroker` | policy, approval requests, answers, timeouts | `PermissionBroker.cfg` | `PermissionBrokerProofs` |
| `ClientWait` | the waits of the command line client | `ClientWait.cfg` | `ClientWaitProofs` |
| `TerminalPrompts` | who gets the next line of the terminal, and who gets which response | `TerminalPrompts.cfg` | `TerminalPromptsProofs` |
| `TaskGraph`, `MCTaskGraph` | the plan of a run and how it is announced | `TaskGraph.cfg` | `TaskGraphProofs` |
| `ServerShutdown`, `MCServerShutdown` | SessionRuns with the server around it: accept, signals, `stop()` | `ServerShutdown.cfg` | `SessionRunsProofs` |
| `Delivery`, `MCDelivery`, `JsonRpc` | what clients read and in which order: answers, send locks, fan-out; the decisions about one line | `Delivery.cfg` | `DeliveryProofs` |
| `FileTools`, `MCFileTools` | read_file, write_file and edit_file in their threads | `FileTools.cfg` | `FileToolsProofs` |

Run a configuration with `tlc -config <X>.cfg <module>`, the module being the
`MC...` module where there is one, and check a proof with `tlapm <module>.tla`.

## 1. Inventory

| Component | State | Operations | What makes it correct |
| --- | --- | --- | --- |
| **Connection handling**: `ClientSession` (`core/server/session.py`) | its channel, the tasks of its own runs, a send lock | read loop, acceptance of a chat, execution task with heartbeat, terminal notice, clean-up of a leaving connection | every accepted run ends and its outcome is told once; no run survives its audience |
| **Session registry, channels, runs** (`core/session/`) | sessions with `sinks`, `active_run`, `history`; the state of each run | attach, detach, cancel_run, record_turn, broadcast, cancel_all_active_runs | one running run per session, terminal states are final, nothing is left behind |
| **Chat handler** (`core/handlers/chat.py`) | per run: recorder, task graph, permission manager | run the agent, record, notify, finish or fail the run | trace, state, history and notices agree in every branch |
| **Control handlers** (`core/handlers/{session,permission,shutdown,echo,ping}.py`) | none | session.attach, session.detach, permission.respond, shutdown | |
| **TCP server and graceful shutdown** (`core/server/tcp.py`, `core/app.py`) | connection tasks, writers, stop event | accept, request_shutdown, stop | stop leaves no run running and no connection open |
| **Agent loop** (`core/agent/loop.py`) | the messages, the step | one request per step, tool calls, results, finalizing step | requests the API accepts, truthful stop reason, termination |
| **LLM client** (`core/llm/anthropic_client.py`) | blocks of the streaming response | assemble tool calls and the message from stream events | a call is whole or marked as truncated |
| **Tool registry** (`core/tools/registry.py`) | the tools | execute: look up, ask, run, turn exceptions into results | never raises, never runs what was denied |
| **Permissions** (`core/permissions/`) | policy; table of open requests with a future each | evaluate, authorize, ask, respond, cancel_for_run | nothing runs unallowed, the table does not leak, every check ends |
| **Task graph and plan tools** (`core/task/`, `core/tools/builtin/plan.py`) | tasks with dependencies, status, attempts | add, update_deps, start, complete, reopen, suspend | acyclic, dependencies first, trace and audience know the plan |
| **Trace recording** (`core/observability/trace_recorder.py`, `shared/logging/trace_store.py`) | a JSON lines file | append an event | complete, in order |
| **File system and time tools** (`core/tools/builtin/`) | the files; the threads that work on them | read, write, edit, list | a call does what its result says, no file outgrows the limit |
| **Request routing** (`core/router/`) | method table | dispatch | every request is answered once, in order |
| **Wire protocol** (`protocol/`) | none | encode, decode, validate messages | every line is a request, a response or an error |
| **Client transport** (`client/transport/`) | response futures, last activity | read loop, wait for a response, close | every wait ends |
| **Client command line** (`client/cli/`) | pending terminal notice, the coroutine of each permission prompt | send a chat, wait for its end, watch heartbeats, ask the user for permission | the end of a chat is not missed, an answer reaches its request |
| **Configuration and logging** (`core/config.py`, `shared/`) | settings | | |

How they interact: a client's **request** is answered by the connection that
read it; a chat is only *accepted* by its response, and everything after that
is told by **notices** that are broadcast to the endpoints in the `sinks` of the
session. The **registry** is shared by all connections, which change `sinks` and
`active_run` and cancel each other's runs. A run is an **asyncio task** that
calls the agent loop, and the loop calls back (`on_event`, `on_step`,
`on_task_change`) to record and notify. A tool call that needs approval waits
for a **future** that another connection's handler sets.

The hard behaviours: a leaving connection cancels runs and waits for them while
others subscribe; a task may be cancelled before its first step, while it sends
its last notice, or while it cleans up; two connections race for one session;
an approval may be answered by several clients, by nobody, or at the moment of
its timeout; a response of the model may be cut off inside a tool call; any
write to the trace store may raise; a shutdown cancels coroutines that are
cancelling others; a slow client holds a send lock that three kinds of
coroutines want; the thread of a file tool goes on when its run is cancelled. `PROJECT.json` lists these hazards at the
lines where they bite, with the properties that watch them.

## 2. The event loop, and what a step is

The models rest on these facts about asyncio:

- One coroutine runs at a time, and only until it really suspends. An `await`
  that finds its result ready does not suspend, so a step may span several of
  them: `readline` with buffered data or end of file, the broker's lock (never
  held across a suspension), and the trace store, whose writes are synchronous
  behind an `async def`. A trace write cannot yield, but it can raise.
- `task.cancel()` takes effect when the task is resumed next: `CancelledError`
  is raised at its suspension point. A task cancelled before its first step
  runs neither its body nor its `finally` block.
- `asyncio.gather` on a finished task still yields once.
- `asyncio.wait_for` is built on `asyncio.timeout` (Python 3.12 and later): its
  timeout cancels the *waiting task*, even if the future got a result in the
  same turn of the loop.
- The ready queue is first-in first-out.
- Cancelling a task that waits in `asyncio.gather` cancels what it gathers.
- `asyncio.to_thread` hands a call to the default executor. Cancelling the task
  that waits for it removes the call if no thread has taken it yet, and does not
  stop the thread otherwise. Threads are the one place where steps of the
  program interleave at any point.

An action is therefore what a coroutine does between two suspensions, with
every record, notice and state change in between. There is one exception: a
clean-up loop that runs over several sessions without suspending is written one
iteration per action, and the variable `holder` keeps the event loop for its
connection until it waits.

## 3. The modules and the code

**SessionRuns** (`core/server/session.py`, `core/session/*`, the run-visible
part of `core/handlers/chat.py`). `conn` is where the coroutine of a connection
is: `reading` (in `readline`), `accepting` (sending the accept response; the run
exists, its task does not), `detaching` (in `session.detach`), `closing` and
`sweeping` (the two loops of the `finally` block), `gone`. `task` is where the
execution of a run is: `scheduled`, `agent`, `final_stream`,
`interrupted_notice`, `stop_heartbeat`, `terminal_notice`, `unwind` (the
`finally` block after a cancellation), `done`. The other variables are fields of
the code: `channel` is `SessionChannel._session_id`, `sinks`, `activeRun` and
`history` those of `Session`, `state`, `sessionId`, `initiator` those of `Run`;
`trace` and `notices` are logs of what was written and sent. Client operations
are `Attach`, `Detach`, `StartChat`, `StartEphemeralChat`, `ChatBusy`,
`ChatNotRecorded`, `Disconnect`. The clean-up is `LeaveSessions`,
`OnSessionEmpty`, `CancelRunIfUnobserved` and `RunCancelled` or
`CancelNotRecorded`; the execution is `ExecuteChat` to `ExecuteDone`, with
`CancelDelivered` at every suspension and `NeverStarted` before the first. The
agent loop is one step with the outcomes answer, step limit and error. A
broadcast is one notice; the sender suspends there and may be cancelled. The
fan-out to single endpoints is the subject of Delivery.

**RunService** is the abstract specification: a session runs one chat at a
time, an accepted chat ends in exactly one of four ways, and unless it was
cancelled its outcome is told once and truthfully. SessionRuns implements it with
`phase <- state`, `home <- sessionId` and `told <- Outcome`, the last notice if
it is an outcome.

**AgentLoop** (`core/agent/loop.py`, `chat_stream` of
`core/llm/anthropic_client.py`, `execute` of `core/tools/registry.py`, `on_step`
of `core/handlers/chat.py`). `pc` is the suspension point of the coroutine. A
response is a sequence of tool-call blocks, each with how much of its arguments
has arrived (`nothing`, `part`, `all`) and whether its stop event came; text
carries no control. `BlockStart`, `ArgumentsDelta`, `BlockStop`, `MessageStop`
and `StreamCloses` are the stream events, `torn` (a history variable) the steps
whose stream ended without `message_stop`, so that the code has no response; `StepFinished` is the end of
`_chat_once`; `ToolStarted`, `Refuse` (truncated, unknown or denied), `Execute`,
`HandlerEnds`, `ReturnResults` work off the calls. The permission check is an
outcome here and a module of its own below.

**PermissionBroker** (`core/permissions/*`, `core/handlers/permission.py`).
Every call passes `new`, `sending` (the broadcast), `waiting` (on its future),
`done`. A future is `open`, `allow`, `deny` or `void` (cancelled by the
timeout, by the run or by `cancel_for_run`). Clients answer any request at any
time, subscribe and leave; a run may be cancelled at any moment, since
SessionRuns decides when that happens. The terms of a call are the results of
its resource rules, its tool default and the global default; how one pattern
matches one resource is an input.

**TaskGraph** (`core/task/graph.py`, `core/tools/builtin/plan.py`,
`on_task_change`). The plan tools of one run are called one after the other; an
operation changes the graph first and then announces one change per affected
task, each with a trace event and a snapshot to the audience, suspending in
between. The cycle check is Kahn's algorithm as the code has it, in-degrees
counting repeated dependencies; the definition it is compared with says that every
set of tasks has one that waits for none of them.

**ClientWait** (`client/cli/app.py`, `client/transport/`). The client is an event
loop as well, with the coroutine of the prompt (`ui`), the read loop (`reading`)
and the watchdog. A request has a number and a future; the answer to a chat is
only its acceptance, and its end is a notice that may be read before the prompt
has taken the acceptance from the future: then it waits in `_pending_terminal`
(`pending`), which has one place. The server side of the module is what
SessionRuns allows: one running chat per session, of this client or of another,
settled before it is told, a cancelled run without a notice. Messages keep their
order and take any time; `silent` says that three heartbeat intervals passed
without one. `heard` and `displaced` are history variables.

**TerminalPrompts** (`client/cli/app.py`, `client/transport/`) is the same client
seen from the terminal. `place` is where each coroutine is, that of `CLIApp.run`
(`Main`) and the one `_handle_permission_requested` starts for each request
(`Asks`): `input` (a thread reads the terminal for it), `draining` and `waiting`
(the two suspensions of `send_request`), `watching` (for the end of a chat). A
line typed by the user goes to any thread that reads (`TypeLine`: `TakenByMain`,
`TakenByAsk`). `Send` numbers the request from the counter all coroutines share,
`ReadResponse` finds its future by the number. The server and the other clients of
the session are what this client can see of them: chats of either, requests that
are asked, answered by others or expire, and responses. Lost connections and
missing notices are in ClientWait only; the watchdog (`Watchdog`) may give up the
wait for a run at any time, which the history variable `warned` remembers.

**ServerShutdown** (`core/server/tcp.py`, `core/app.py`,
`cancel_all_active_runs` of `core/session/registry.py`,
`core/handlers/shutdown.py`) extends SessionRuns. A connection is accepted
(`Accept`) and its task takes its first step (`Serve`); from there on the
actions of SessionRuns apply (`Served`, `Executed`). `RequestShutdown` and
`Signal` set the stop event, and `stop` is the place of `TCPServer.stop()`:
`runs` (`BeginStop`, `VisitSession`, `RunStopped`: the loop of
`cancel_all_active_runs` over its snapshot of the sessions, `holder` being
`Server` while it does not wait), `connections` (`CancelConnections`: every
connection task is cancelled and gathered), `writers` (`CloseWriters`),
`listener` (`CloseListener`, `Return`). A cancelled connection continues in
`NeverServed`, `LoopCancelled` or `CleanupCancelled`, by where it was. One that
was waiting for the task of a run hands its cancellation on to it; if that task
is cleaning up already, it is interrupted there (`UnwindInterrupted`).
`leaked` are the connections that ended without closing their writer, which
`Server.wait_closed` waits for. `interrupted`, `inFlight`, `abandoned` and
`skipped` are history variables; the last one has the runs that a clean-up was
still to look at when it was cancelled (`Unvisited`, `Unswept`). Trace writes succeed in this module: one that
raises ends `stop()` with its exception.

**Delivery** and **JsonRpc** (`core/server/session.py`, `protocol/jsonrpc.py`,
`core/router/`, `broadcast`, `state` and `on_session_empty` of
`core/session/registry.py`, the notices of `core/handlers/chat.py`). JsonRpc
has no state: `Lines` are all that can be said about a line of input, and `Parse`
and `Dispatched` what parser, dispatcher and the handlers without effect make of
it. Delivery is one session seen from its clients. `reader` and `then` are the
place of the read loop, `stage` and `beat` those of the task of a run and of its
heartbeat, `left` the subscribers a broadcast has still to visit. `lock[c]`
holds the messages of the coroutine that has the send lock of `c` (its head,
already written to `wire[c]`) and of those that want it; `Drained` is the
client reading enough, `BreaksDown` the connection breaking in `drain`.
Where SessionRuns has a broadcast as one notice, Delivery has it endpoint by
endpoint (`Tell`), in any order, with subscribers that come and go meanwhile.
What it leaves to SessionRuns: other sessions, the trace and its failures. The
outcome `completed` stands for `chat.interrupted` too, and a run has one
heartbeat. When the lock is passed on, the next message is written in the same
step; `wire` is emptied when nobody reads it any more.

**FileTools** (`core/tools/builtin/fs.py`). The handlers of two runs work on one
path: each call goes to the queue of the executor (`Call`), a thread takes it
(`Begin`), reads (`Read`) or computes and checks what it will write (`Write`,
`Edit` up to the end of the checks of `_write_bytes_guarded`), opens the file,
which empties it (`Open`), and writes (`WriteOut`); opening and writing may fail,
the latter half way. `Cancel` is the cancellation of the run while it waits.
A text is a sequence of characters of one byte each, the file may also be
absent, a directory or without one (`Blocked`) or undecodable (`Opaque`). `Lines` is
`str.splitlines` on a text that was decoded as it is: each character of `Breaks`
(in Python LF, CR, VT, FF and the separators FS, GS, RS) ends a line, a CR LF ends one,
and the last line may do without. The breaks U+0085, U+2028 and U+2029 behave alike but
take more than a byte, as do the other characters left out. The page joins its lines
with LF, so that which break a line had is lost: `PagesMakeTheFile` compares what the
reads of an undisturbed run gave, joined, with the file in which every line break is a
newline (`AsNewlines`). Occurrences and replacements are computed as Python does it;
splitting and joining are recursive functions on the length that is done (`upTo`).

`base` and `alone` are history variables. `base[r]` is the file that the thread of `r`
worked from: as its call began, or as `edit_file` read it. `alone[r]` says that nobody
else changed the file since, or, once the thread has opened it, since it was opened.

The modules meet where one's outcome is the other's step: SessionRuns takes the
agent loop as a step and decides when a cancellation comes, which AgentLoop,
PermissionBroker and TaskGraph accept wherever they suspend; PermissionBroker
decides between `Refuse` and `Execute` of AgentLoop; ClientWait sees the notices
of SessionRuns in the order Delivery establishes; ServerShutdown contains
SessionRuns and adds a coroutine that cancels what is in it; FileTools is what
`Execute` of AgentLoop may do, also after the run was cancelled.

## 4. The runs

| Run | Configuration | Distinct states | Shows |
| --- | --- | --- | --- |
| `sessions_safety` | `SessionRuns_safety.cfg` | 810,200 | no orphaned run, but for a session that has a dead endpoint; a cancellation is recorded once, by who cancelled; a settled run has let go of its session; history and notices agree |
| `sessions_faults` | `SessionRuns_faults.cfg` | 1,666,983 | the same server when trace writes raise: the running run is the active one, notices stay in order, RunService is implemented |
| `sessions_live` | `SessionRuns_live.cfg` | 7,729 | every closing connection is released, every accepted run ends and every outcome owed is told (the fair refinement of RunService) |
| `agent_loop` | `AgentLoop.cfg` | 119,716 | requests well formed but for the results of torn steps, no call with partial arguments runs, the trace accounts for every call, the stop reason is true or that of the last whole response, the loop ends |
| `permissions` | `PermissionBroker.cfg` | 250,852 | nothing runs unallowed or unrecorded, refusals have a cause, the table is exact, every check ends |
| `plan_graph` | `TaskGraph.cfg` | 195,091 | the cycle check is exact, work follows dependencies and never gets stuck, trace and audience know the plan |
| `client_wait` | `ClientWait.cfg` | 388,216 | the client shows the outcome of its own run once, misses the end of a chat only when it was displaced, reports every chat, and every wait ends |
| `server_shutdown` | `ServerShutdown.cfg` | 1,836,726 | the shutdown never gets stuck, runs settle before connections are cancelled, no run outlives it but those nobody is left to cancel, every end is recorded but those a cancelled connection was waiting for |
| `delivery` | `Delivery.cfg` | 1,328,830 | every end reaches its audience, notices are read in order, a snapshot agrees with the notices around it, every line gets its answer |
| `file_tools` | `FileTools.cfg` | 3,910,577 | a call has done what its result says, whatever others wrote before it opened the file; the pages that a run reads one behind the other while nobody writes have every line of the file once, and the last one ends it |
| `terminal_prompts` | `TerminalPrompts.cfg` | 373,946 | while a run of this client waits for an answer no other prompt reads the terminal; whoever sends a request gets the response to it or gives it up, whatever others send and whether or not the user answers a prompt |

One more run, `sessions_stale`, ends in a counterexample: it states what a document
of the repository says and the code does not do (section 7).

The runs check what could be wrong. Type invariants and a few facts that are
easy to see, `TerminalIsFinal`, `CompletedIsFrozen` and `AwaitsOwnRun` among them,
stand in the modules and, where section 5 says so, are proved, as is
`SizeBounded` of FileTools; they are not repeated as properties of a run.

**Bounds.** The interesting cases of SessionRuns need two connections (one
leaves while the other subscribes or shares the session) and two runs (an old
run cleans up while a new one takes its session). `sessions_safety` has two
named sessions as well, since the stale clean-up needs one to wait for while the
other changes; `sessions_faults` has one named session, where the second run is
forced to collide with the first, plus a heartbeat and failing trace writes. An
ephemeral session belongs to one run, so two runs give two of them. A
connection is used once, a run has one id: new ones start with fresh state, and
the sets bound how many. `sessions_live` has one run and no symmetry. Symmetry
is used in the safety runs and for task identifiers only. `MaxBeats` bounds the
heartbeats of one run; one is enough to come too late.

`agent_loop` has two steps and the finalizing one (the limit is reached with and
without pending calls, and stop reasons can go stale from one step to the next)
and two calls in a response (one complete, one cut off). `permissions` has two
runs (one with subscribers, one ephemeral), two clients that answer and two
calls, with four kinds of terms: allowed, denied, and asked for by either
source. `client_wait` has three requests, so that two chats follow each other or a
late response meets the next request, one run of another client, and a bound
`MaxActivity` on heartbeats. `plan_graph` has three tasks and all dependency lists up to length two
with repetitions: cycles of length one, two and three, and the double edge that
the in-degree count is about; `MaxAttempts` bounds failures and `MaxLost` lost
trace events.

`server_shutdown` has two connections, one named session and two runs, as
`sessions_faults`, without heartbeats: one connection can be cleaning up, or not
be served yet, while the other asks for the end, and one run can be told to end
by a connection and another by `stop()`. A clean-up that is cancelled with runs
left to look at needs a third run, so `skipped` never excuses a run here; the
theorem `NothingOutlivesStop` covers any number. `delivery` has two connections, one run
and `MaxLines` = 3 lines in all, of seven kinds: a chat with and without id,
attach, detach, an answer to a permission request, a line that is no request, and
a shutdown without id; three suffice for an attach before, during and after a
run whose chat the other connection sent, and for a chat that is refused.
`terminal_prompts` has two permission requests, which may both be prompted for next
to the main prompt because the first expired, and `MaxLines` = 4 lines of seven
kinds: enough for a chat, a refused input, and an answer to each request. `file_tools` has two runs with two calls each, two threads,
limits of three characters, and files in which a string occurs twice, overlaps
itself or is cut by empty lines, with LF, CR LF and form feeds as line breaks. A run reads a file of two lines in its two calls
while the other writes. Symmetry permutes connections
and runs in the first two.

**Deadlock** checking is off in every configuration because the modelled systems
do stop: connections are gone, calls are used up, the run is over. That nothing
stops too early is what the liveness properties, `NeverStuck` and
`StopNeverStuck` say.

**Fairness.** A coroutine that is ready gets its turn, because the ready queue
is first-in first-out: strong fairness of `ConnStep` and `TaskStep` in
SessionRuns (`holder` takes the loop away from a ready coroutine again and
again, so weak fairness would not say it), weak fairness of the steps of the
checks in PermissionBroker and of `Advance` in AgentLoop. In SessionRuns this
includes that an agent loop ends, which `agent_loop` and the limits of the LLM
client justify, and that a client takes its notices or its connection breaks.
Nothing is assumed of clients: nobody has to answer a permission request, send,
or disconnect, and heartbeats need not come. The timers assumed to fire are the
permission timeout and, in ClientWait, the request timeout and the watchdog; a
silence is assumed only when no message is left to read, and server and user owe
nothing. TerminalPrompts
assumes that read loop, server and coroutines go on, and no timer at all; the user
need not type. ServerShutdown, Delivery and FileTools state safety only; that the
shutdown gets on is `StopNeverStuck`, by ENABLED and without fairness, since with
a client that reads nothing the real one does not end.

Every property of a passing run has a mutant in `PROJECT.json`: a change to one
definition, of the kind a programmer could make, under which TLC finds the
property violated. The operators preceded by a comment "Mutation" serve only
this purpose.

## 5. The proofs

The theorems hold for all sets of connections, sessions, runs, clients, calls
and tasks, and all limits. They assume only the named assumptions about
constants (`ConstantsAssumption`, `LoopAssumption`, `BrokerAssumption`,
`TermsAssumption`, `GraphAssumption`, `ClientAssumption`, `FileToolsAssumption`,
`ServerAssumption`, `DeliveryAssumption`, `PromptsAssumption`, `NoneAssumption`),
which TLC evaluates in every run.

**SessionRunsProofs.** `TypeCorrect`; `OneRunPerSession` (`RunningIsActive`);
`RunsAreCovered` (`NoOrphanedRun`, for trace writes that do not fail);
`EndsAreFinal` (`TerminalIsFinal`). `RunningIsActive` is not inductive: that a
finishing run cannot clear the `active_run` of its successor needs to know that
a run with a task is homed in its session (`HomeSession`), that an active run is
at home in the session it is active in (`ActiveRunHome`), how the state of a run
and the phase of its task belong together (`TaskPhase`), and who may wait for it
(`AwaitedRun`, `OneAcceptor`). Together with the property they form `RunInv`.
`NoOrphanedRun` adds `CoveredBut(X)`, with no run excepted (`X` empty): a connection is subscribed to the session of
its channel (`ChannelSubscribed`), a running run of an empty session has a
connection that is about to visit it (`NamedRunCovered`), which only the
clean-up of a leaving connection does (`NothingEmptied`), a run without a task
belongs to a connection that is still accepting it (`BeingAccepted`), and an
ephemeral run is on the list of its leaving connection (`EphemeralRunCovered`). That a
session with subscribers has a live one is not so; `DeadEndpoints` says where a dead one
comes from: a chat of its connection that has begun subscribed it (`Began`). A
connection leaves its session in the step in which it drops, so nothing else puts one
there (`DeadConnStep`, `DeadTaskStep`).
When a record of a cancellation may fail, the rest of a clean-up is abandoned
and the property is false, hence the assumption `TraceMayFail = FALSE` in that
theorem.

The same module has `ServesAsPromised` (`KeepsPromises`, the refinement of
RunService); `NoticesAreInOrder` (`NoticesInOrder`);
`CancellationsAreRecordedOnce` (`CancelRecordedOnce`); `SettledRunsAreReleased`
(`SettledRunReleased`); `HistoryIsAsTold` (`HistoryAgreesWithNotices`). The first
two rest on `TellInv`: before the terminal notice nothing is told, at that notice
the heartbeat has stopped and the state of the run is what is going to be told,
and the acceptance comes first and the outcome last. Each action is then a step of
RunService (`Accept`, `Finish`, `Tell`) or a stutter (`AcceptStep`, `Finishes`,
`Tells`, `GoesOn`, `QuietKeeps`). The other three follow a cancellation: one
connection waits for it and counts it once (`CancelInv`), it waits until the task
that was told to end has ended, or there was none (`WaitInv`), and what a run
leaves in the history and the registry is settled at each place of its task
(`LeaveInv`). They assume `TraceMayFail = FALSE`: a connection that fails to record
a cancellation does not release the session either, and a run that fails to record
its end is told as failed while its turn is in the history.

**AgentLoopProofs.** `TypeCorrect`; `RequestsAreWellFormed`
(`RequestsWellFormed`); `NothingPartialRuns` (`NoPartialCallRuns`). The
invariant joins what the stream knows (`StreamInv`: while the response streams
exactly the ended blocks are calls, and one that is not marked as truncated
could be parsed, and the present step is torn exactly if its stream was closed) with
whose turn it is at every place of the loop (`TurnInv`: before a request the user
spoke last; while calls are worked off, the last message is the response with exactly
these calls, or still one of the user if the stream was torn). Two lemmas about appending
to a conversation (`ResponseFollows`, `ResultsFollow`) carry the induction over
its length.

`AuditIsComplete` (`AuditTrail`) and `StopReasonIsTrue` (`OutcomeIsTrue`) count
events, so their invariant `TrailInv` is about numbers: what the trace has of a
step that is over (`PastInv`: as many calls started as finished, at least one,
and a response for the request), what it has of the present one (`PresentInv`:
the calls answered so far and the open one), that results enter the conversation
once they are all in the trace (`ResultsInv`), and what the stop reason may be
(`ReasonInv`: unknown until a response came whole, then that of the last one that
did). `Recorded` and `HandlerCounted` say that a record or an execution
adds one to one count; the actions are grouped by what they record.

**ClientWaitProofs.** `TypeCorrect`; `WaitsForOwn` (`AwaitsOwnRun`);
`ShowsOwnOnce` (`OutcomeIsOwn`); `MissesOnlyDisplaced` (`EndNotMissed`);
`ReportsEveryChat` (`EveryChatReported`). The messages under way are part of the
invariant: requests on the wire were sent and are not served yet (`WireInv`,
`AcceptedInv`), a response belongs to a request that was served and names the run
it was accepted as (`ResponseInv`), the notice of an end is under way at most
once, is true, and was not read before (`NoticeInv`, `HeardInv`). `FutureInv` and
`PromptInv` say what the future, the awaited run and the kept notice are at each
place of the prompt.

**PermissionBrokerProofs.** `TypeCorrect`, `NothingRunsUnallowed`,
`RefusalsHaveCause`, `NoLeak`, `GrantsAreOnRecord`: all safety properties of the
run. The invariant says for each stage of a call which future, table entry,
record and verdict go with it (`NewInv`, `ActiveInv`, `VoidInv`, `AnswerInv`,
`DoneInv`), and that a call is under way only as the current one of its run
(`CurrentInv`). Only `DenyingRule` and `EvaluateType` look into the precedence of
the policy; the steps cite them.

**TaskGraphProofs.** `TypeCorrect`, `WorkInOrder` (`StartedInOrder`),
`TraceIsFaithful` (`TraceTellsPlan`), `PlanIsCurrent` (`PlanUpToDate`),
`CompletedStays` (`CompletedIsFrozen`), for plans of any size. The first is
inductive together with the types; the next two need the record of the change
being announced (`ChangeIsSo`).

`CycleCheckIsExact` (`CycleCheckExact`) and `PlanNeverStuck` (`NeverStuck`) rest on
`KahnIsExact`, which is about the algorithm: for every finite graph it visits all
tasks exactly if no set of tasks waits for itself. The prover has no induction over
data that it can instantiate, so each induction is by the least counterexample
(`Least`, from the well-foundedness of `<` on Nat). `CountingDefines` shows that a
recursion that counts steps along a decreasing measure defines a function, and
`VisitsEnd` that the measure of a visit decreases: the queue and the tasks with an
edge left. `Kahn` is the invariant between two visits: a set `D` was visited, the
in-degree of a task is the number of its edges from outside `D`, and the queue is
the tasks outside `D` without one. `VisitKeeps` is one visit, `VisitsReach` the rest
of them. What remains for the plan is `PlanInv` (dependencies exist and are well
founded): only `add_tasks`, whose batch is a list and so finite, and `update_deps`
change the graph, and both check it.

**FileToolsProofs.** `TypeCorrect`; `FilesStayBounded` (`SizeBounded`) and
`ResultsAreTrue` (`ResultIsTrue`), for files, limits and texts of any size and any
number of runs and threads. The invariant follows the thread: what it is going to write
is short enough and is exactly what its call asks for, whatever others do (`Meant`); as
long as nobody else changes the file it is `base` until it is opened, and empty from
then until it is written. `OverlayType` and `ReplacedIsEdited` say what writing and
replacing make of a text; `DoneKeepsInv`, `GuardedKeepsInv` and `ChangeKeepsInv` are the
cases the actions share.

`PagesAreTheFile` (`PagesMakeTheFile`) is about texts. That `Lines`, `AsNewlines` and
`Join` are what their recursion says is shown once, for any recursion along the naturals
(`Recursion`, from the library's theorem on well-founded recursion); what is said of
every text is shown by its least counterexample (`Least`). `LinesMakeText` is the
round trip: the lines of a text, joined, are the text with newlines for its line breaks
and without the one at its end, whatever empty lines it has. It compares the two scans
character by character (`FoundStep`: what is told up to `n` is the lines done up to
`n`, joined, and the open one), and both pass over the LF of a CR LF. `JoinAdjacent`
joins two ranges of lines that meet, and `PageFacts` says of one page which range it is, at and beyond the end of the file
too. `PagesInv` then needs no text: the reads of a run were made of one file, each
one begins where the one before it ended, and each has what `PageFacts` says.

**DeliveryProofs.** `DeliveryTypeCorrect`; `NoticesInOrder` (`RunReadInOrder`);
`SnapshotsInOrder` (`SnapshotFitsNotices`); `EndReachesEveryone`
(`EndReachesAudience`); `EveryLineAnswered` (`LinesAnswered`): all properties of
the run, for any number of connections, runs and lines. What a client reads is its
wire and then the queue of its send lock, and both grow at the end only. Whether two
messages may be read in this order (`Fits`) is therefore decided when the later one
is sent: `SaidInv` says how far a run was when something was said of it, and
`OrderInv` that every pair fits. `EndInv` says which subscribers of a run have its
outcome on the way to them while the broadcast goes through the others, and `WhoInv`
that a coroutine waits for a lock once. `AccountInv` keeps the answers of a
connection as a ledger: those on the wire are the first of those owed, and at most
one more is in the queue of the lock or waits for a run that is being cancelled.
An action says something (`StepSpeech`) or moves a coroutine (`Controlled`); the
invariant is shown for the two kinds of change apart.

**SessionRunsProofs, second part.** `ShutdownTypeCorrect`; `OneRunPerSessionToTheEnd`
(`RunningIsActive`, under `ShutdownSpec`); `EndsStayFinal` (`TerminalIsFinal`);
`RunsAreSettledFirst` (`RunsSettleFirst`); `EndsAreRecorded` (`EndsRecorded`);
`NothingOutlivesStop` (`NoRunOutlivesStop`); what clients hear to the end:
`ServesAsPromisedToTheEnd` (`KeepsPromises`), `NoticesStayInOrder` (`NoticesInOrder`)
and `HistoryStaysAsTold` (`HistoryAgreesWithNotices`); and `StopIsNeverStuck`. A step of SessionRuns needs the event
loop, which the server has while it visits sessions, so the step lemmas of the
first part apply to it as they are; only the steps of `stop()` and of cancelled
connections are new. That trace writes succeed is part of `ShutdownInit`. `StopInv` adds to `RunInv` that only a served
connection has subscriptions and runs (`Linked`) and what holds between two waits of
`stop()` (`Phase`). `Settling` says that a run in flight which has not ended is in a
session the loop of `stop()` still has to visit. `Ends` says that a terminal run
is recorded, or somebody still waits who will record it, or that one was cancelled
while waiting. `Cover` is `CoveredBut` with exceptions: the runs a cancelled clean-up
skipped, and runs without a task whose acceptance was cancelled. That the former are
exceptions was learned from the proof: without them the property fails as soon as a
connection has three runs, one more than the run of the model has.

That the server keeps the promises of RunService while it stops needs `TellInv` and
nothing new: a visit of `stop()` cancels as a leaving connection does (`StopPromised`).
Of `LeaveInv` only the half about the history survives (`StopRemembers`, with
`LeaveBut(Runs)`): a run whose clean-up is interrupted stays in the registry, so
`SettledRunReleased` and `CancelRecordedOnce` are not claimed under `ShutdownSpec`.

`StopIsNeverStuck` is `StopNeverStuck` with the guards of the actions written out
(`StopCanMove`, `ConnCanMove`, `CancelledCanMove`, `TaskCanMove`) where the checked
property says ENABLED, which the prover cannot reason about. It is stronger in that it
counts on no connection that is still to be served and on no client that reads. The
invariant `Waits` says for whom each coroutine waits: `stop()` for a task that was
created, or for connections that are on their way out or about to be cancelled;
such a connection for a created task or for nothing; and a created task that is not
over can go on, which is where `TellInv` comes in (it knows the result of its agent
loop) and the interrupted tasks (they are in their clean-up). So the chain ends.

**TerminalPromptsProofs.** `TypeCorrect`; `AnswersAreOwn` (`AnswerIsOwn`, the part of
`EveryRequestReturns` that is no liveness); `AnswersAreNotChats` (`PromptIsAlone`). The
ids are given out in their order (`IdInv`), so that the id a coroutine waits for is
on its own request and on the response to it only (`OwnInv`). While a request of the
prompt is on the wire nothing was said to it (`PromptInv`), so its acceptance comes
after every notice of an earlier run. `RunInv` says where the chat of a running run
is: its acceptance is under way and no end behind it (`AcceptanceComes`), or it was
read and no end is under way (`EndAwaited`); in both cases the prompt waits. An end
of an earlier run that is read before the acceptance finds no answer and changes
nothing. After the end of the program nothing holds but the types and `OwnInv`.

**Only model-checked.** Liveness (`EveryCloseEnds`, `EveryCheckEnds`, `LoopEnds`,
`EveryWaitEnds`, `EveryRequestReturns`) and the fair refinement
`KeepsPromisesFairly`, which are out of the prover's reach; `StopNeverStuck` in the
form with ENABLED. `ObservedRunNotCancelled` is false.

## 6. What is not modelled

- The rendering of notices and the token sums of `/stats` in the client.
- `list_dir` and the time tool, which change nothing; the resolution of a path
  inside the workspace, which is a function of one path and the links on the
  disk; encodings and the checks of argument types.
- The text chunks of `chat.stream`. They are broadcasts like the others, between
  the user message and the end.
- **Wire protocol**: JSON itself, and the parameter and result records of
  `protocol/methods.py`. **Configuration, logging, prompts**: no behaviour over
  time.
- In SessionRuns, a `session_id` that is no name (empty, or not a string). The run is
  ephemeral, but its task subscribes the connection to that value all the same
  (`core/handlers/chat.py:196`), and a value that cannot be hashed raises there: the
  run fails without `run_failed`.
- In TerminalPrompts, the moment between the end of a run and its notice, in which the
  next chat may be accepted. The client tells the two apart by their `run_id`.
- In AgentLoop, texts, token counts and prompts; in TaskGraph, goals, results
  and error texts; in PermissionBroker, the pattern match of a single resource.
  `NonInteractiveBroker` and the non-streaming `chat` of the LLM client are not
  used by the server. Retries of a request are inside the vendor's SDK.

## 7. Where code and documents disagree

This one is a run that TLC ends with a counterexample; `PROJECT.json` quotes the
document.

| Run | What happens |
| --- | --- |
| `sessions_stale` | A clean-up decides which sessions are empty before it waits, and then cancels the run of a session that got a subscriber meanwhile. |

Read in the code, most of them an exception of a property, but without a run of
their own:

- A chat without session whose connection drops before its task takes its first
  step leaves its ephemeral session in the registry, since the `finally` block
  that removes it never runs (`SettledRunReleased` has the exception).
- `handle_chat` subscribes the initiating connection again when its task starts
  (`core/handlers/chat.py:197`). If that connection has left meanwhile and another
  subscriber kept the run alive, a dead endpoint stays in `sinks`: the session never
  looks empty again, and when its last client leaves the run goes on.
  `openspec/specs/session-run-lifecycle/spec.md:56` says that the run of a session
  without subscribed connections is cancelled. `NoOrphanedRun` counts live subscribers
  only and has these sessions as its exception (`SubscribedWhenDead`); so has
  `NoRunOutlivesStop`.
- The turn of a run at the step limit is appended before `chat.interrupted` is
  sent; cancelled while sending, the run is cancelled and in the history
  (`HistoryAgreesWithNotices` has the exception).
- An allowance is confirmed to the client and then dropped when the timeout fires
  before the waiting task runs again (`core/permissions/broker.py:118`).
- `docs/protocol.md:11` and `:18` say a notification is never answered. A chat
  without id is: with `SESSION_BUSY` (`core/server/session.py:198`) or
  `INTERNAL_ERROR` (`:230`) and a null id. `LinesAnswered` has the exception.
- `edit_file` counts occurrences that do not overlap: "aa" is taken for unique
  in "aaa" (`core/tools/builtin/fs.py:239`). `Ambiguous` counts as the code does.
- The thread of a cancelled file tool goes on and may write after the run has
  ended. Two writers of one path may mix their contents, and a reader may see
  the file emptied: `write_bytes` is not atomic. `ResultIsTrue` speaks of calls whose
  file nobody else changed after they had opened it (`alone`).
- `edit_file` reads the file and opens it for writing later; what another thread wrote
  in between is undone, and the result is ok. `Edited` compares with the text it read.
- `read_file` splits the file at every line break Python knows and joins the lines with
  LF (`core/tools/builtin/fs.py:133`, `:141`): whoever writes back what was read turns
  CR LF into LF, and a form feed into a line. `PagesMakeTheFile` says so (`AsNewlines`).
- An interrupted run that is cancelled during its notice has both a
  `run_interrupted` and a `run_cancelled` event.
- If `run_cancelled` raises, the remaining emptied sessions are not visited
  (`core/session/registry.py:145`); SessionRuns has the step, and
  `RunsAreCovered` its assumption, because of it.
- Progress notices of an ephemeral run also go to the session its initiator is
  subscribed to (`core/handlers/chat.py:201`).
- A broadcast waits for each subscriber in turn, so one that does not read
  delays the others and the run (in Delivery a lock that is never `Drained`).
- A client that subscribes after a permission request was broadcast is not asked;
  and the request of a chat without session goes to nobody, since an ephemeral
  session has no subscribers (`core/permissions/broker.py:99`).
- `stop()` cancels the active runs itself so that their clean-up is not interrupted
  (`core/server/tcp.py:100`), but does not wait for a run that a connection is
  cancelling, since that is terminal already (`core/session/registry.py:181`). The
  connection is then cancelled while it waits, the record of the end is skipped and
  its writer stays open. A client that sends `shutdown` while its own chat runs is
  enough. `openspec/specs/connection-lifecycle/spec.md:43` says that a cancellation
  is not cut short by that of its context, and `:48` that every end is recorded
  before the process exits; `EndsRecorded` has the exception (`abandoned`). What that
  clean-up had still to visit keeps running (`skipped` in `NoRunOutlivesStop`).
- A permission prompt reads the terminal in its own thread
  (`client/cli/app.py:241`) and goes on reading when its request has expired.
  `openspec/changes/interactive-permission-broker/design.md:57` rules out a race
  with the main prompt because the run cannot end during the approval. A timeout
  of the approval, a request that comes from another client's run, and a wait that
  the watchdog ended allow it: two threads read, an answer may be sent as a chat and
  a message be taken for an answer. `PromptIsAlone` says that there are no others.
- The end of a chat that is read before the client waits for it can be replaced in
  `_pending_terminal` by that of another run; the client then waits for the
  watchdog (`displaced` in ClientWait).
- A tool call that `max_tokens` cuts off before the first character of its
  arguments arrives is taken for a call without arguments and executed
  (`core/llm/anthropic_client.py:286`); AgentLoop has the case (`got = "nothing"`),
  and `NoPartialCallRuns` speaks of arguments that cannot be parsed.
- A response whose stream ends without `message_stop` is missing from the
  conversation while its calls are executed (`StreamCloses`). The next request holds
  results without their response, and the stop reason is that of an earlier step, or
  unknown. `RequestsWellFormed` and `OutcomeIsTrue` allow exactly this, for exactly these
  steps (`torn`).

## 8. Plan

Done, in this order: SessionRuns with RunService (the centre of the server),
TaskGraph, PermissionBroker and AgentLoop, each with its runs and first proofs,
ClientWait with its run, then ServerShutdown, Delivery with JsonRpc, FileTools
with its proofs, the proofs of ClientWait and of the trace of AgentLoop, the
refinement of RunService with the other properties of SessionRuns,
TerminalPrompts, the proofs of Delivery and ServerShutdown, of the cycle check of
TaskGraph, and of TerminalPrompts, then those about texts in FileTools and about what
clients hear and who waits for whom while the server stops.

Of the invariants and action properties that the passing runs check, each is a
theorem, `StopNeverStuck` up to the meaning of ENABLED. What is left is liveness. A
next step that the prover could take: for each of the liveness properties, a rank
that falls with every step of the coroutine concerned and that nobody else raises,
as an action property.
