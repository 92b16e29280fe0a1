------------------------------ MODULE SessionRuns ------------------------------
(***************************************************************************)
(* Connections, sessions and runs of the chat server: core/server/session, *)
(* core/session/{registry,channel,run} and the run-visible part of         *)
(* core/handlers/chat.                                                     *)
(*                                                                         *)
(* The server is one asyncio event loop.  A step of this module is what a  *)
(* coroutine does between two suspension points.  The clean-up of a        *)
(* leaving connection loops over several sessions and suspends only when   *)
(* it has to wait for a cancelled task, so it is written one iteration per *)
(* step, and `holder' names the connection whose coroutine has the event   *)
(* loop meanwhile: no other coroutine moves until it suspends.             *)
(*                                                                         *)
(* A named session exists for ever once it is used.  The session of a chat *)
(* without session_id is identified with its run.                          *)
(***************************************************************************)
EXTENDS Naturals, Sequences, FiniteSets

CONSTANTS Conns,         \* client connections, each used once
          Named,         \* session ids that clients choose
          Runs,          \* run ids; a run is also the id of its ephemeral session
          None,          \* no run, no session, no connection
          MaxBeats,      \* bound on the heartbeats of one run
          TraceMayFail   \* can a write to the trace store raise?

ASSUME ConstantsAssumption ==
    /\ Named \cap Runs = {}
    /\ None \notin Conns \cup Named \cup Runs
    /\ MaxBeats \in Nat
    /\ TraceMayFail \in BOOLEAN

VARIABLES
  holder,           \* the connection coroutine that has the event loop, or None
  conn,             \* where the coroutine of each connection is
  channel,          \* SessionChannel._session_id
  emptied,          \* sessions SessionRegistry.detach has still to visit
  own,              \* own runs the closing connection has still to visit
  awaiting,         \* the run being accepted, or being cancelled, by the connection
  ephemeral,        \* ephemeral sessions in the registry
  sinks,            \* Session.sinks of the named sessions
  activeRun,        \* Session.active_run
  history,          \* runs with a turn in Session.history
  state,            \* Run.state, "none" before the run is created
  sessionId,        \* Run.session_id
  initiator,        \* the connection of Run.initiator
  task,             \* where the coroutine of Run.task is
  cancelRequested,  \* Run.task.cancel() was called
  result,           \* how the agent loop ended
  heartbeat,        \* is the heartbeat task alive and not cancelled?
  trace,            \* run-level events in the trace store
  notices           \* what was sent about the run, in order

connVars    == <<conn, channel, emptied, own, awaiting>>
sessionVars == <<ephemeral, sinks, activeRun, history>>
runVars     == <<state, sessionId, initiator, task, cancelRequested, result,
                 heartbeat, trace, notices>>
vars        == <<holder, connVars, sessionVars, runVars>>

Sessions == Named \cup Runs

Terminal == {"completed", "failed", "interrupted", "cancelled"}

RunStates == {"none", "running"} \cup Terminal

(* "reading": readline; "accepting": sending the accept response;         *)
(* "detaching": session.detach; "closing" and "sweeping": the finally      *)
(* block, before and after its detach.                                     *)
ConnStates == {"reading", "accepting", "detaching", "closing", "sweeping", "gone"}

(* The suspension points of the task that executes a chat.  *)
TaskStates == {"none", "scheduled", "agent", "final_stream", "interrupted_notice",
               "stop_heartbeat", "terminal_notice", "unwind", "done"}

Results == {"none", "answer", "max_steps", "error"}

TraceStages == {"created"} \cup Terminal

Notices == {"accepted", "heartbeat", "interrupted", "completed", "failed"}

TypeOK ==
    /\ holder \in Conns \cup {None}
    /\ conn \in [Conns -> ConnStates]
    /\ channel \in [Conns -> Named \cup {None}]
    /\ emptied \in [Conns -> SUBSET Named]
    /\ own \in [Conns -> SUBSET Runs]
    /\ awaiting \in [Conns -> Runs \cup {None}]
    /\ ephemeral \in SUBSET Runs
    /\ sinks \in [Named -> SUBSET Conns]
    /\ activeRun \in [Sessions -> Runs \cup {None}]
    /\ history \in [Named -> SUBSET Runs]
    /\ state \in [Runs -> RunStates]
    /\ sessionId \in [Runs -> Sessions \cup {None}]
    /\ initiator \in [Runs -> Conns \cup {None}]
    /\ task \in [Runs -> TaskStates]
    /\ cancelRequested \in [Runs -> BOOLEAN]
    /\ result \in [Runs -> Results]
    /\ heartbeat \in [Runs -> BOOLEAN]
    /\ trace \in [Runs -> Seq(TraceStages)]
    /\ notices \in [Runs -> Seq(Notices)]

Init ==
    /\ holder = None
    /\ conn = [c \in Conns |-> "reading"]
    /\ channel = [c \in Conns |-> None]
    /\ emptied = [c \in Conns |-> {}]
    /\ own = [c \in Conns |-> {}]
    /\ awaiting = [c \in Conns |-> None]
    /\ ephemeral = {}
    /\ sinks = [s \in Named |-> {}]
    /\ activeRun = [s \in Sessions |-> None]
    /\ history = [s \in Named |-> {}]
    /\ state = [r \in Runs |-> "none"]
    /\ sessionId = [r \in Runs |-> None]
    /\ initiator = [r \in Runs |-> None]
    /\ task = [r \in Runs |-> "none"]
    /\ cancelRequested = [r \in Runs |-> FALSE]
    /\ result = [r \in Runs |-> "none"]
    /\ heartbeat = [r \in Runs |-> FALSE]
    /\ trace = [r \in Runs |-> <<>>]
    /\ notices = [r \in Runs |-> <<>>]

-----------------------------------------------------------------------------
(* Helpers *)

(* Mutation: CANCELLED is missing in TERMINAL_RUN_STATES. *)
IsActiveIfCancelled(r) == r # None /\ state[r] \in {"running", "cancelled"}

(* Mutation: a run counts only once its task exists. *)
IsActiveOnceScheduled(r) == r # None /\ state[r] = "running" /\ task[r] # "none"

IsActive(r) == r # None /\ state[r] = "running"

IsNamed(r) == sessionId[r] \in Named

Record(r, stage) == trace' = [trace EXCEPT ![r] = Append(@, stage)]

Notify(r, kind) == notices' = [notices EXCEPT ![r] = Append(@, kind)]

Beats(r) == Cardinality({i \in DOMAIN notices[r] : notices[r][i] = "heartbeat"})

(* The connection is in readline and the event loop is free. *)
Reading(c) == holder = None /\ conn[c] = "reading"

(* SessionChannel.attach: earlier subscriptions of the endpoint stay. *)
Subscribe(c, s) ==
    /\ channel' = [channel EXCEPT ![c] = s]
    /\ sinks' = [sinks EXCEPT ![s] = @ \cup {c}]

SubscribeUnlessCurrent(c, s) ==
    IF channel[c] # s THEN Subscribe(c, s) ELSE UNCHANGED <<channel, sinks>>

(* Mutation: active_run is cleared without the identity check. *)
ReleaseAny(r) == activeRun' = [activeRun EXCEPT ![sessionId[r]] = None]

(* Session.active_run goes back to None if it still is this run. *)
Release(r) ==
    activeRun' = [activeRun EXCEPT ![sessionId[r]] = IF @ = r THEN None ELSE @]

-----------------------------------------------------------------------------
(* What a client can ask for *)

(* session.attach *)
Attach(c, s) ==
    /\ Reading(c)
    /\ Subscribe(c, s)
    /\ UNCHANGED <<holder, conn, emptied, own, awaiting, ephemeral, activeRun,
                   history, runVars>>

(* A chat for a session that already has an active run: SESSION_BUSY.  The *)
(* connection is subscribed before the check.                              *)
ChatBusy(c, s) ==
    /\ Reading(c)
    /\ IsActive(activeRun[s])
    /\ channel[c] # s
    /\ Subscribe(c, s)
    /\ UNCHANGED <<holder, conn, emptied, own, awaiting, ephemeral, activeRun,
                   history, runVars>>

(* recorder.run_created raises: the run is dropped before it is visible.   *)
ChatNotRecorded(c, s) ==
    /\ TraceMayFail
    /\ Reading(c)
    /\ ~IsActive(activeRun[s])
    /\ SubscribeUnlessCurrent(c, s)
    /\ activeRun' = [activeRun EXCEPT ![s] = None]
    /\ UNCHANGED <<holder, conn, emptied, own, awaiting, ephemeral, history, runVars>>

(* The part of _start_chat from the new Run to the accept response.        *)
CreateRun(c, s, r) ==
    /\ state[r] = "none"
    /\ state' = [state EXCEPT ![r] = "running"]
    /\ sessionId' = [sessionId EXCEPT ![r] = s]
    /\ initiator' = [initiator EXCEPT ![r] = c]
    /\ activeRun' = [activeRun EXCEPT ![s] = r]
    /\ conn' = [conn EXCEPT ![c] = "accepting"]
    /\ awaiting' = [awaiting EXCEPT ![c] = r]
    /\ Record(r, "created")
    /\ Notify(r, "accepted")
    /\ UNCHANGED <<holder, emptied, own, history, task, cancelRequested, result,
                   heartbeat>>

StartChat(c, s, r) ==
    /\ Reading(c)
    /\ ~IsActive(activeRun[s])
    /\ CreateRun(c, s, r)
    /\ SubscribeUnlessCurrent(c, s)
    /\ UNCHANGED ephemeral

(* A chat without session_id: a fresh ephemeral session without subscriber. *)
StartEphemeralChat(c, r) ==
    /\ Reading(c)
    /\ CreateRun(c, r, r)
    /\ ephemeral' = ephemeral \cup {r}
    /\ UNCHANGED <<channel, sinks>>

(* The accept response is out: create_task and set_task. *)
CreateTask(c) ==
    /\ holder = None
    /\ conn[c] = "accepting"
    /\ task' = [task EXCEPT ![awaiting[c]] = "scheduled"]
    /\ conn' = [conn EXCEPT ![c] = "reading"]
    /\ awaiting' = [awaiting EXCEPT ![c] = None]
    /\ UNCHANGED <<holder, channel, emptied, own, sessionVars, state, sessionId,
                   initiator, cancelRequested, result, heartbeat, trace, notices>>

(* Mutation: emptiness is tested before the endpoint is removed. *)
LeaveSessionsTestFirst(c) ==
    /\ channel' = [channel EXCEPT ![c] = None]
    /\ sinks' = [s \in Named |-> sinks[s] \ {c}]
    /\ emptied' = [emptied EXCEPT ![c] = {s \in Named : sinks[s] = {}}]
    /\ holder' = c

(* SessionRegistry.detach up to its second loop: the endpoint leaves every *)
(* session, and those it leaves empty are to be visited.                   *)
LeaveSessions(c) ==
    /\ channel' = [channel EXCEPT ![c] = None]
    /\ sinks' = [s \in Named |-> sinks[s] \ {c}]
    /\ emptied' = [emptied EXCEPT ![c] = {s \in Named : sinks[s] = {c}}]
    /\ holder' = c

(* session.detach *)
Detach(c) ==
    /\ Reading(c)
    /\ LeaveSessions(c)
    /\ conn' = [conn EXCEPT ![c] = "detaching"]
    /\ UNCHANGED <<own, awaiting, ephemeral, activeRun, history, runVars>>

(* End of file or a broken connection: the finally block begins. *)
Disconnect(c) ==
    /\ Reading(c)
    /\ LeaveSessions(c)
    /\ conn' = [conn EXCEPT ![c] = "closing"]
    /\ UNCHANGED <<own, awaiting, ephemeral, activeRun, history, runVars>>

-----------------------------------------------------------------------------
(* Cancellation by a leaving connection *)

(* SessionRegistry.cancel_run up to its await.  Without a task there is    *)
(* nothing to wait for, and the coroutine keeps the event loop.            *)
CancelRun(c, r) ==
    /\ state' = [state EXCEPT ![r] = "cancelled"]
    /\ cancelRequested' = [cancelRequested EXCEPT ![r] = task[r] # "none"]
    /\ awaiting' = [awaiting EXCEPT ![c] = r]
    /\ holder' = IF task[r] = "none" THEN c ELSE None

(* One iteration over the emptied sessions: _on_session_empty. *)
OnSessionEmpty(c, s) ==
    /\ holder = c
    /\ conn[c] \in {"detaching", "closing"}
    /\ awaiting[c] = None
    /\ s \in emptied[c]
    /\ emptied' = [emptied EXCEPT ![c] = @ \ {s}]
    /\ \/ IsActive(activeRun[s]) /\ CancelRun(c, activeRun[s])
       \/ ~IsActive(activeRun[s]) /\ UNCHANGED <<holder, awaiting, state, cancelRequested>>
    /\ UNCHANGED <<conn, channel, own, sessionVars, sessionId, initiator, task,
                   result, heartbeat, trace, notices>>

(* Where the coroutine goes after registry.detach: back to reading, or on  *)
(* to its own runs, of which it takes a snapshot.                          *)
AfterDetach(c) ==
    /\ emptied' = [emptied EXCEPT ![c] = {}]
    /\ \/ /\ conn[c] = "detaching"
          /\ conn' = [conn EXCEPT ![c] = "reading"]
          /\ holder' = None
          /\ UNCHANGED own
       \/ /\ conn[c] = "closing"
          /\ conn' = [conn EXCEPT ![c] = "sweeping"]
          /\ holder' = c
          /\ own' = [own EXCEPT ![c] = {r \in Runs : /\ initiator[r] = c
                                                     /\ task[r] \notin {"none", "done"}}]

DetachDone(c) ==
    /\ holder = c
    /\ awaiting[c] = None
    /\ emptied[c] = {}
    /\ AfterDetach(c)
    /\ UNCHANGED <<channel, awaiting, sessionVars, runVars>>

(* No subscriber sees the run.  An ephemeral session has no subscribers.   *)
Unobserved(r) == IsNamed(r) => sinks[sessionId[r]] = {}

(* One iteration over the own runs: _cancel_run_if_unobserved. *)
CancelRunIfUnobserved(c, r) ==
    /\ holder = c
    /\ conn[c] = "sweeping"
    /\ awaiting[c] = None
    /\ r \in own[c]
    /\ own' = [own EXCEPT ![c] = @ \ {r}]
    /\ \/ IsActive(r) /\ Unobserved(r) /\ CancelRun(c, r)
       \/ /\ ~(IsActive(r) /\ Unobserved(r))
          /\ UNCHANGED <<holder, awaiting, state, cancelRequested>>
    /\ UNCHANGED <<conn, channel, emptied, sessionVars, sessionId, initiator, task,
                   result, heartbeat, trace, notices>>

ConnectionClosed(c) ==
    /\ holder = c
    /\ conn[c] = "sweeping"
    /\ awaiting[c] = None
    /\ own[c] = {}
    /\ conn' = [conn EXCEPT ![c] = "gone"]
    /\ holder' = None
    /\ UNCHANGED <<channel, emptied, own, awaiting, sessionVars, runVars>>

(* The connection is cancelling a run whose task, if any, has ended. *)
CancelLanded(c) ==
    /\ conn[c] \in {"detaching", "closing", "sweeping"}
    /\ awaiting[c] # None
    /\ \/ holder = c
       \/ holder = None /\ task[awaiting[c]] = "done"

(* The rest of cancel_run. *)
RunCancelled(c) ==
    /\ CancelLanded(c)
    /\ Record(awaiting[c], "cancelled")
    /\ Release(awaiting[c])
    /\ awaiting' = [awaiting EXCEPT ![c] = None]
    /\ holder' = c
    /\ UNCHANGED <<conn, channel, emptied, own, ephemeral, sinks, history, state,
                   sessionId, initiator, task, cancelRequested, result, heartbeat,
                   notices>>

(* recorder.run_cancelled raises.  The exception ends registry.detach, or  *)
(* the finally block itself: what was left to visit is not visited.        *)
CancelNotRecorded(c) ==
    /\ TraceMayFail
    /\ CancelLanded(c)
    /\ awaiting' = [awaiting EXCEPT ![c] = None]
    /\ \/ AfterDetach(c)
       \/ /\ conn[c] = "sweeping"
          /\ conn' = [conn EXCEPT ![c] = "gone"]
          /\ own' = [own EXCEPT ![c] = {}]
          /\ holder' = None
          /\ UNCHANGED emptied
    /\ UNCHANGED <<channel, sessionVars, runVars>>

-----------------------------------------------------------------------------
(* The task of a run: _execute_chat and handle_chat *)

At(r, where) == holder = None /\ task[r] = where /\ ~cancelRequested[r]

Goto(r, where) == task' = [task EXCEPT ![r] = where]

(* Mutation: the heartbeat task is waited for but not cancelled. *)
StopHeartbeatLater(r, where) == Goto(r, where) /\ UNCHANGED heartbeat

(* stop_heartbeat, up to its wait for the heartbeat task. *)
StopHeartbeat(r, where) ==
    /\ heartbeat' = [heartbeat EXCEPT ![r] = FALSE]
    /\ Goto(r, where)

(* Mutation: active_run is left to the next chat. *)
LeaveSessionHeld(r) ==
    /\ ephemeral' = ephemeral \ {sessionId[r]}
    /\ UNCHANGED activeRun

(* What the finally block of _execute_chat does to the session. *)
LeaveSession(r) ==
    /\ Release(r)
    /\ ephemeral' = ephemeral \ {sessionId[r]}

(* The first step: heartbeat, subscription of the initiating connection,   *)
(* chat.user_message, and into the agent loop.  Session ids are names: the *)
(* code subscribes for whatever else a client sends as session_id, too,    *)
(* although the run is ephemeral then, and for what cannot be hashed it    *)
(* raises here, which ends the run as failed without run_failed.           *)
ExecuteChat(r) ==
    /\ At(r, "scheduled")
    /\ state[r] = "running"
    /\ Goto(r, "agent")
    /\ heartbeat' = [heartbeat EXCEPT ![r] = TRUE]
    /\ IF IsNamed(r)
       THEN SubscribeUnlessCurrent(initiator[r], sessionId[r])
       ELSE UNCHANGED <<channel, sinks>>
    /\ UNCHANGED <<holder, conn, emptied, own, awaiting, ephemeral, activeRun, history,
                   state, sessionId, initiator, cancelRequested, result, trace, notices>>

(* The run was cancelled before it had a task. *)
ExecuteCancelled(r) ==
    /\ At(r, "scheduled")
    /\ state[r] \in Terminal
    /\ Goto(r, "done")
    /\ LeaveSession(r)
    /\ UNCHANGED <<holder, connVars, sinks, history, state, sessionId, initiator,
                   cancelRequested, result, heartbeat, trace, notices>>

(* Mutation: the cancellation of a task that has not started is lost. *)
NeverStartedLost(r) == task[r] = "scheduled" /\ UNCHANGED vars

(* A task cancelled before its first step ends without running its body:   *)
(* its finally block does not run either.                                  *)
NeverStarted(r) ==
    /\ holder = None
    /\ task[r] = "scheduled"
    /\ cancelRequested[r]
    /\ Goto(r, "done")
    /\ UNCHANGED <<holder, connVars, sessionVars, state, sessionId, initiator,
                   cancelRequested, result, heartbeat, trace, notices>>

(* The agent loop returns: the final chat.stream is sent. *)
AgentReturns(r) ==
    /\ At(r, "agent")
    /\ \E res \in {"answer", "max_steps"} : result' = [result EXCEPT ![r] = res]
    /\ Goto(r, "final_stream")
    /\ UNCHANGED <<holder, connVars, sessionVars, state, sessionId, initiator,
                   cancelRequested, heartbeat, trace, notices>>

(* Mutation: a failed run leaves without chat.failed. *)
FailSilently(r) ==
    /\ result' = [result EXCEPT ![r] = "error"]
    /\ StopHeartbeat(r, "unwind")
    /\ Record(r, "failed")
    /\ state' = [state EXCEPT ![r] = "failed"]

(* The except branches of handle_chat.  If run_failed raises as well, the  *)
(* exception leaves handle_chat with the run still RUNNING.                *)
Fail(r) ==
    /\ result' = [result EXCEPT ![r] = "error"]
    /\ StopHeartbeat(r, "stop_heartbeat")
    /\ \/ Record(r, "failed") /\ state' = [state EXCEPT ![r] = "failed"]
       \/ TraceMayFail /\ UNCHANGED <<trace, state>>

AgentRaises(r) ==
    /\ At(r, "agent")
    /\ Fail(r)
    /\ UNCHANGED <<holder, connVars, sessionVars, sessionId, initiator,
                   cancelRequested, notices>>

(* Mutation: the turn goes to the current session of the connection. *)
RecordTurnInCurrent(r) ==
    history' = [s \in Named |-> IF s = channel[initiator[r]] THEN history[s] \cup {r}
                                                            ELSE history[s]]

RecordTurn(r) ==
    history' = [s \in Named |-> IF s = sessionId[r] THEN history[s] \cup {r}
                                                    ELSE history[s]]

(* An answer: run_completed and COMPLETED. *)
RunCompleted(r) ==
    /\ At(r, "final_stream")
    /\ result[r] = "answer"
    /\ RecordTurn(r)
    /\ Record(r, "completed")
    /\ state' = [state EXCEPT ![r] = "completed"]
    /\ StopHeartbeat(r, "stop_heartbeat")
    /\ UNCHANGED <<holder, connVars, ephemeral, sinks, activeRun, sessionId, initiator,
                   cancelRequested, result, notices>>

(* The step limit: run_interrupted, then chat.interrupted is sent ... *)
RunInterrupted(r) ==
    /\ At(r, "final_stream")
    /\ result[r] = "max_steps"
    /\ RecordTurn(r)
    /\ Record(r, "interrupted")
    /\ Notify(r, "interrupted")
    /\ Goto(r, "interrupted_notice")
    /\ UNCHANGED <<holder, connVars, ephemeral, sinks, activeRun, state, sessionId,
                   initiator, cancelRequested, result, heartbeat>>

(* ... and only then does the run become INTERRUPTED. *)
FinishInterrupted(r) ==
    /\ At(r, "interrupted_notice")
    /\ state' = [state EXCEPT ![r] = "interrupted"]
    /\ StopHeartbeat(r, "stop_heartbeat")
    /\ UNCHANGED <<holder, connVars, sessionVars, sessionId, initiator,
                   cancelRequested, result, trace, notices>>

(* run_completed or run_interrupted raises: on to the except branch. *)
OutcomeNotRecorded(r) ==
    /\ TraceMayFail
    /\ At(r, "final_stream")
    /\ RecordTurn(r)
    /\ Fail(r)
    /\ UNCHANGED <<holder, connVars, ephemeral, sinks, activeRun, sessionId, initiator,
                   cancelRequested, notices>>

(* The heartbeat task is gone: the terminal notice is sent. *)
TerminalNotice(r) ==
    /\ At(r, "stop_heartbeat")
    /\ Notify(r, IF result[r] = "error" THEN "failed" ELSE "completed")
    /\ Goto(r, "terminal_notice")
    /\ UNCHANGED <<holder, connVars, sessionVars, state, sessionId, initiator,
                   cancelRequested, result, heartbeat, trace>>

(* The finally block of a task that was not cancelled. *)
ExecuteDone(r) ==
    /\ At(r, "terminal_notice")
    /\ state' = [state EXCEPT ![r] = IF @ = "running" THEN "failed" ELSE @]
    /\ LeaveSession(r)
    /\ Goto(r, "done")
    /\ UNCHANGED <<holder, connVars, sinks, history, sessionId, initiator,
                   cancelRequested, result, heartbeat, trace, notices>>

(* CancelledError at a suspension point: wait for the heartbeat task ... *)
CancelDelivered(r) ==
    /\ holder = None
    /\ cancelRequested[r]
    /\ task[r] \in {"agent", "final_stream", "interrupted_notice", "stop_heartbeat",
                    "terminal_notice"}
    /\ StopHeartbeat(r, "unwind")
    /\ UNCHANGED <<holder, connVars, sessionVars, state, sessionId, initiator,
                   cancelRequested, result, trace, notices>>

(* ... and the rest of the finally block. *)
Unwind(r) ==
    /\ holder = None
    /\ task[r] = "unwind"
    /\ LeaveSession(r)
    /\ Goto(r, "done")
    /\ UNCHANGED <<holder, connVars, sinks, history, state, sessionId, initiator,
                   cancelRequested, result, heartbeat, trace, notices>>

(* One round of heartbeat_loop. *)
Heartbeat(r) ==
    /\ holder = None
    /\ heartbeat[r]
    /\ state[r] = "running"
    /\ Beats(r) < MaxBeats
    /\ Notify(r, "heartbeat")
    /\ UNCHANGED <<holder, connVars, sessionVars, state, sessionId, initiator, task,
                   cancelRequested, result, heartbeat, trace>>

-----------------------------------------------------------------------------
ClientStep(c) ==
    \/ \E s \in Named : Attach(c, s) \/ ChatBusy(c, s) \/ ChatNotRecorded(c, s)
    \/ \E s \in Named, r \in Runs : StartChat(c, s, r)
    \/ \E r \in Runs : StartEphemeralChat(c, r)
    \/ Detach(c)
    \/ Disconnect(c)

ConnStep(c) ==
    \/ CreateTask(c)
    \/ \E s \in Named : OnSessionEmpty(c, s)
    \/ DetachDone(c)
    \/ \E r \in Runs : CancelRunIfUnobserved(c, r)
    \/ ConnectionClosed(c)
    \/ RunCancelled(c)
    \/ CancelNotRecorded(c)

TaskStep(r) ==
    \/ ExecuteChat(r)
    \/ ExecuteCancelled(r)
    \/ NeverStarted(r)
    \/ AgentReturns(r)
    \/ AgentRaises(r)
    \/ RunCompleted(r)
    \/ RunInterrupted(r)
    \/ FinishInterrupted(r)
    \/ OutcomeNotRecorded(r)
    \/ TerminalNotice(r)
    \/ ExecuteDone(r)
    \/ CancelDelivered(r)
    \/ Unwind(r)

Next ==
    \/ \E c \in Conns : ClientStep(c) \/ ConnStep(c)
    \/ \E r \in Runs : TaskStep(r) \/ Heartbeat(r)

(* The ready queue of the event loop is first-in first-out, so a coroutine *)
(* that is ready again and again gets its turn: strong fairness.  Nothing  *)
(* is assumed of clients and of the heartbeat timer.                       *)
Fairness ==
    /\ \A c \in Conns : SF_vars(ConnStep(c))
    /\ \A r \in Runs : SF_vars(TaskStep(r))

Spec == Init /\ [][Next]_vars

FairSpec == Spec /\ Fairness

-----------------------------------------------------------------------------
(* Safety *)

Settled(r) == task[r] = "done" /\ \A c \in Conns : awaiting[c] # r

Count(seq, kinds) == Cardinality({i \in DOMAIN seq : seq[i] \in kinds})

(* A running run is the active run of its session, and its session is in   *)
(* the registry: the busy check, SessionRegistry.state and the lookup by   *)
(* run id all find it.  So a session never has two running runs, whatever  *)
(* an older run of the session still has to clean up.                      *)
RunningIsActive ==
    \A r \in Runs : state[r] = "running" =>
        /\ activeRun[sessionId[r]] = r
        /\ ~IsNamed(r) => r \in ephemeral

(* The connection has dropped: nobody reads what is sent to its endpoint.  *)
Dropped(c) == conn[c] \in {"closing", "sweeping", "gone"}

(* A client sees the run, or a connection that emptied the session is      *)
(* about to cancel it.                                                     *)
Attended(r) ==
    \/ \E c \in sinks[sessionId[r]] : ~Dropped(c)
    \/ \E c \in Conns : sessionId[r] \in emptied[c]

(* A chat whose connection had dropped when its task began has subscribed  *)
(* the dead endpoint again, and nobody will remove it.                     *)
SubscribedWhenDead(s) ==
    \E c \in sinks[s], q \in Runs :
        Dropped(c) /\ initiator[q] = c /\ sessionId[q] = s
                   /\ task[q] \notin {"none", "scheduled"}

(* No run is left alone: a running run of a named session has a client     *)
(* that sees it or a connection about to cancel it, and that of an         *)
(* ephemeral session still has its connection.  The one exception is a     *)
(* session that has a dead endpoint again.                                 *)
NoOrphanedRun ==
    \A r \in Runs : state[r] = "running" =>
        IF IsNamed(r)
        THEN Attended(r) \/ SubscribedWhenDead(sessionId[r])
        ELSE conn[initiator[r]] # "gone"

(* A cancelled run has run_cancelled in its trace exactly once, or the one *)
(* connection that cancelled it is still waiting for the task.             *)
CancelRecordedOnce ==
    \A r \in Runs :
        LET waiting == {c \in Conns : awaiting[c] = r /\ conn[c] # "accepting"}
        IN  /\ Cardinality(waiting) <= 1
            /\ Count(trace[r], {"cancelled"}) =
                  IF state[r] = "cancelled" /\ waiting = {} THEN 1 ELSE 0

(* The accept response precedes everything, chat.completed and             *)
(* chat.failed exclude each other and nothing follows them: in particular  *)
(* no heartbeat.  A notice never contradicts the state of the run.         *)
NoticesInOrder ==
    \A r \in Runs : \A i \in DOMAIN notices[r] :
        /\ notices[r][i] = "accepted" <=> i = 1
        /\ notices[r][i] \in {"completed", "failed"} => i = Len(notices[r])
        /\ notices[r][i] = "completed" => state[r] \in {"completed", "interrupted"}
        /\ notices[r][i] = "failed" => state[r] \notin {"completed", "interrupted"}

(* When the task of a run has ended and nobody waits for it, the run is in *)
(* a terminal state and no session holds it as active run.  Its ephemeral  *)
(* session is gone too, unless the run was cancelled before the client     *)
(* heard more than the acceptance: if the task never began, the finally    *)
(* block that removes the session did not run.  (session-run-lifecycle     *)
(* says that the session is removed in any case.)                          *)
SettledRunReleased ==
    \A r \in Runs : Settled(r) =>
        /\ state[r] \in Terminal
        /\ \A s \in Sessions : activeRun[s] # r
        /\ r \in ephemeral => state[r] = "cancelled" /\ notices[r] = <<"accepted">>

(* A client told chat.completed for a named session finds the turn when it *)
(* subscribes again, and no turn of a failed run.  The turn of a cancelled *)
(* run is there only if the run was cancelled at the step limit, between   *)
(* run_interrupted and its end.  (session-run-lifecycle says that it is    *)
(* never there.)                                                           *)
HistoryAgreesWithNotices ==
    \A r \in Runs : IsNamed(r) =>
        /\ Count(notices[r], {"completed"}) > 0 => r \in history[sessionId[r]]
        /\ Count(notices[r], {"failed"}) > 0 => r \notin history[sessionId[r]]
        /\ state[r] = "cancelled" /\ r \in history[sessionId[r]] =>
               Count(trace[r], {"interrupted"}) = 1 /\ Count(notices[r], {"interrupted"}) = 1

(* A run leaves a terminal state never again, even when a late outcome of  *)
(* its task or a second cancellation arrives.                              *)
TerminalIsFinal ==
    [][\A r \in Runs : state[r] \in Terminal => state'[r] = state[r]]_state

(* What the specifications of the repository promise and the code breaks.  *)

(* session-run-lifecycle: a session that still has subscribers keeps its   *)
(* run when one of them disconnects.                                       *)
ObservedRunNotCancelled ==
    [][\A r \in Runs : state[r] = "running" /\ IsNamed(r) /\ state'[r] = "cancelled"
           => sinks[sessionId[r]] = {}]_vars

-----------------------------------------------------------------------------
(* Liveness *)

(* A connection that drops is released, whatever runs it has to wait for.  *)
EveryCloseEnds == \A c \in Conns : conn[c] = "closing" ~> conn[c] = "gone"

-----------------------------------------------------------------------------
(* Refinement *)

(* The outcome notice of a run, if it was sent.  It is the last notice.    *)
Outcome(r) ==
    IF notices[r] # <<>> /\ notices[r][Len(notices[r])] \in {"completed", "failed"}
    THEN notices[r][Len(notices[r])]
    ELSE "nothing"

Service == INSTANCE RunService
           WITH phase <- state, home <- sessionId, told <- [r \in Runs |-> Outcome(r)]

(* The server keeps the promises of RunService, whatever clients do and    *)
(* however cancellation races the end of a run.                            *)
KeepsPromises == Service!Spec

(* It also ends every run and tells every outcome it owes.                 *)
KeepsPromisesFairly == Service!FairSpec

=============================================================================
