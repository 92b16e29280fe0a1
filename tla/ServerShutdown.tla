----------------------------- MODULE ServerShutdown -----------------------------
(***************************************************************************)
(* SessionRuns with the TCP server around it: connections are accepted,    *)
(* a client or a signal asks for the end, and TCPServer.stop() cancels     *)
(* first the runs and then the connections (core/server/tcp, core/app).    *)
(*                                                                         *)
(* While stop() works through the sessions without waiting, `holder' is    *)
(* Server.  Cancelling the task of a connection that waits for a run in    *)
(* asyncio.gather cancels the task of that run once more.  Trace writes    *)
(* succeed here: one that raises ends stop() with its exception.           *)
(***************************************************************************)
EXTENDS SessionRuns

CONSTANT Server   \* the coroutine of run_server, as holder of the event loop

ASSUME ServerAssumption == Server \notin Conns \cup Named \cup Runs \cup {None}

VARIABLES
  link,         \* has the listening socket accepted the connection, and its task begun?
  stop,         \* where run_server is
  visiting,     \* sessions cancel_all_active_runs has still to visit
  stopping,     \* the run cancel_all_active_runs waits for
  cancelled,    \* connections whose task is cancelled and does not know it yet
  gathered,     \* the connections whose tasks stop() waits for
  closed,       \* connections whose writer stop() closed
  leaked,       \* connections that ended without closing their writer
  interrupted,  \* runs whose task was cancelled again while it cleaned up
  inFlight,     \* history: the runs that had not ended when stop() began
  abandoned,    \* history: the runs a cancelled connection was waiting for
  skipped       \* history: the runs a cancelled clean-up was still to look at

progressVars == <<stop, visiting, stopping>>
closeVars    == <<cancelled, gathered, closed, leaked>>
pastVars     == <<interrupted, inFlight, abandoned, skipped>>
stopVars     == <<link, progressVars, closeVars, pastVars>>

shutdownVars == <<vars, stopVars>>

(* "runs" to "listener" are the waits of TCPServer.stop, in order. *)
StopStates == {"serving", "requested", "runs", "connections", "writers", "listener",
               "returned"}

ShutdownTypeOK ==
    /\ holder \in Conns \cup {None, Server}
    /\ link \in [Conns -> {"none", "accepted", "served"}]
    /\ stop \in StopStates
    /\ visiting \in SUBSET Sessions
    /\ stopping \in Runs \cup {None}
    /\ cancelled \in SUBSET gathered
    /\ gathered \in SUBSET Conns
    /\ closed \in SUBSET (Conns \ gathered)
    /\ leaked \in SUBSET {c \in Conns : conn[c] = "gone"}
    /\ interrupted \in SUBSET abandoned
    /\ inFlight \in SUBSET Runs
    /\ abandoned \in SUBSET Runs
    /\ skipped \in SUBSET Runs

ShutdownInit ==
    /\ Init
    /\ ~TraceMayFail
    /\ link = [c \in Conns |-> "none"]
    /\ stop = "serving"
    /\ visiting = {}
    /\ stopping = None
    /\ cancelled = {}
    /\ gathered = {}
    /\ closed = {}
    /\ leaked = {}
    /\ interrupted = {}
    /\ inFlight = {}
    /\ abandoned = {}
    /\ skipped = {}

-----------------------------------------------------------------------------
(* Connections of the server *)

Listening == stop \notin {"listener", "returned"}

(* The transport of the connection is open. *)
Open(c) == /\ link[c] # "none"
           /\ c \notin closed
           /\ conn[c] = "gone" => c \in leaked

(* _spawn_client_handler: accepted until the very end of stop(). *)
Accept(c) ==
    /\ holder = None
    /\ Listening
    /\ link[c] = "none"
    /\ link' = [link EXCEPT ![c] = "accepted"]
    /\ UNCHANGED <<vars, progressVars, closeVars, pastVars>>

(* The first step of _handle_client. *)
Serve(c) ==
    /\ holder = None
    /\ link[c] = "accepted"
    /\ c \notin cancelled
    /\ link' = [link EXCEPT ![c] = "served"]
    /\ UNCHANGED <<vars, progressVars, closeVars, pastVars>>

(* A step of SessionRuns by a connection that is not cancelled. *)
Served(c) ==
    /\ link[c] = "served"
    /\ c \notin cancelled
    /\ ClientStep(c) \/ ConnStep(c)
    /\ UNCHANGED stopVars

(* The writer was closed by stop(): readline returns the end of file. *)
EndOfFile(c) ==
    /\ c \in closed \ cancelled
    /\ Disconnect(c)
    /\ UNCHANGED stopVars

(* A step of SessionRuns by the task of a run. *)
Executed(r) ==
    /\ task[r] = "unwind" => r \notin interrupted
    /\ TaskStep(r) \/ Heartbeat(r)
    /\ UNCHANGED stopVars

-----------------------------------------------------------------------------
(* The request to end, and the runs *)

(* The shutdown request: the stop event is set, and the read loop ends. *)
RequestShutdown(c) ==
    /\ link[c] = "served"
    /\ c \notin cancelled
    /\ Disconnect(c)
    /\ stop' = IF stop = "serving" THEN "requested" ELSE stop
    /\ UNCHANGED <<link, visiting, stopping, closeVars, pastVars>>

(* SIGINT or SIGTERM. *)
Signal ==
    /\ stop = "serving"
    /\ stop' = "requested"
    /\ UNCHANGED <<vars, link, visiting, stopping, closeVars, pastVars>>

(* Mutation: cancel_all_active_runs visits the named sessions only. *)
BeginStopNamed ==
    /\ stop = "requested"
    /\ holder = None
    /\ stop' = "runs"
    /\ holder' = Server
    /\ visiting' = Named
    /\ inFlight' = {r \in Runs : state[r] = "running" \/ task[r] \notin {"none", "done"}}
    /\ UNCHANGED <<connVars, sessionVars, runVars, link, stopping, closeVars,
                   interrupted, abandoned, skipped>>

(* wait_for_shutdown returns, and cancel_all_active_runs takes its snapshot *)
(* of the sessions.                                                        *)
BeginStop ==
    /\ stop = "requested"
    /\ holder = None
    /\ stop' = "runs"
    /\ holder' = Server
    /\ visiting' = Named \cup ephemeral
    /\ inFlight' = {r \in Runs : state[r] = "running" \/ task[r] \notin {"none", "done"}}
    /\ UNCHANGED <<connVars, sessionVars, runVars, link, stopping, closeVars,
                   interrupted, abandoned, skipped>>

(* One iteration of cancel_all_active_runs, up to the wait of cancel_run. *)
VisitSession(s) ==
    /\ stop = "runs"
    /\ holder = Server
    /\ stopping = None
    /\ s \in visiting
    /\ visiting' = visiting \ {s}
    /\ LET r == activeRun[s]
       IN  \/ /\ IsActive(r)
              /\ state' = [state EXCEPT ![r] = "cancelled"]
              /\ cancelRequested' = [cancelRequested EXCEPT ![r] = task[r] # "none"]
              /\ stopping' = r
              /\ holder' = IF task[r] = "none" THEN Server ELSE None
           \/ /\ ~IsActive(r)
              /\ UNCHANGED <<state, cancelRequested, stopping, holder>>
    /\ UNCHANGED <<connVars, sessionVars, sessionId, initiator, task, result,
                   heartbeat, trace, notices, link, stop, closeVars, pastVars>>

(* Mutation: cancel_run returns early when the run has no task yet. *)
RunStoppedUnrecorded ==
    /\ stopping # None
    /\ \/ holder = Server /\ UNCHANGED trace
       \/ holder = None /\ task[stopping] = "done" /\ Record(stopping, "cancelled")
    /\ Release(stopping)
    /\ stopping' = None
    /\ holder' = Server
    /\ UNCHANGED <<connVars, ephemeral, sinks, history, state, sessionId, initiator,
                   task, cancelRequested, result, heartbeat, notices, link, stop,
                   visiting, closeVars, pastVars>>

(* The rest of cancel_run in the coroutine of stop(). *)
RunStopped ==
    /\ stopping # None
    /\ \/ holder = Server
       \/ holder = None /\ task[stopping] = "done"
    /\ Record(stopping, "cancelled")
    /\ Release(stopping)
    /\ stopping' = None
    /\ holder' = Server
    /\ UNCHANGED <<connVars, ephemeral, sinks, history, state, sessionId, initiator,
                   task, cancelRequested, result, heartbeat, notices, link, stop,
                   visiting, closeVars, pastVars>>

-----------------------------------------------------------------------------
(* The connections *)

Waiting(c) == conn[c] \in {"detaching", "closing", "sweeping"} /\ awaiting[c] # None

(* task.cancel() for every connection.  One that waits for a run in        *)
(* asyncio.gather hands its cancellation on to the task of the run, which  *)
(* notices only if the first one has already been delivered to it.         *)
CancelConnections ==
    /\ stop = "runs"
    /\ holder = Server
    /\ stopping = None
    /\ visiting = {}
    /\ gathered' = {c \in Conns : link[c] # "none" /\ conn[c] # "gone"}
    /\ stop' = IF gathered' = {} THEN "listener" ELSE "connections"
    /\ holder' = None
    /\ cancelled' = gathered'
    /\ abandoned' = {r \in Runs : \E c \in gathered' : Waiting(c) /\ awaiting[c] = r}
    /\ interrupted' = {r \in abandoned' : task[r] = "unwind"}
    /\ UNCHANGED <<connVars, sessionVars, runVars, link, visiting, stopping, closed,
                   leaked, inFlight, skipped>>

(* Mutation: the end of a task that never began goes unnoticed. *)
NeverServedLost(c) ==
    /\ c \in cancelled
    /\ link[c] = "accepted"
    /\ leaked' = leaked \cup {c}
    /\ cancelled' = cancelled \ {c}
    /\ UNCHANGED <<vars, link, progressVars, gathered, closed, pastVars>>

(* A task that is cancelled before its first step closes nothing. *)
NeverServed(c) ==
    /\ holder = None
    /\ c \in cancelled
    /\ link[c] = "accepted"
    /\ conn' = [conn EXCEPT ![c] = "gone"]
    /\ leaked' = leaked \cup {c}
    /\ cancelled' = cancelled \ {c}
    /\ UNCHANGED <<holder, channel, emptied, own, awaiting, sessionVars, runVars,
                   link, progressVars, gathered, closed, pastVars>>

(* Mutation: a cancelled read loop leaves without its finally block. *)
LoopCancelledAtOnce(c) ==
    /\ holder = None
    /\ c \in cancelled
    /\ link[c] = "served"
    /\ conn[c] \in {"reading", "accepting", "detaching"}
    /\ conn' = [conn EXCEPT ![c] = "gone"]
    /\ cancelled' = cancelled \ {c}
    /\ UNCHANGED <<holder, channel, emptied, own, awaiting, sessionVars, runVars, link,
                   progressVars, gathered, closed, leaked, pastVars>>

(* Still running runs that nobody watches, of the sessions that the        *)
(* connection emptied and has not visited.                                 *)
Unvisited(c) == {r \in Runs : IsActive(r) /\ Unobserved(r) /\ sessionId[r] \in emptied[c]}

(* Its own running runs in ephemeral sessions: only its clean-up looks at  *)
(* them.                                                                   *)
Unswept(c) == {r \in Runs : IsActive(r) /\ ~IsNamed(r) /\ initiator[r] = c}

(* CancelledError in the read loop, in the accept response (whose task is  *)
(* then not created) or in session.detach: the finally block begins.       *)
LoopCancelled(c) ==
    /\ holder = None
    /\ c \in cancelled
    /\ link[c] = "served"
    /\ \/ conn[c] \in {"reading", "accepting"}
       \/ conn[c] = "detaching" /\ task[awaiting[c]] = "done"
    /\ LeaveSessions(c)
    /\ conn' = [conn EXCEPT ![c] = "closing"]
    /\ awaiting' = [awaiting EXCEPT ![c] = None]
    /\ cancelled' = cancelled \ {c}
    /\ skipped' = skipped \cup Unvisited(c)
    /\ UNCHANGED <<own, ephemeral, activeRun, history, runVars, link, progressVars,
                   gathered, closed, leaked, interrupted, inFlight, abandoned>>

(* CancelledError in the finally block: the rest of it is skipped, the     *)
(* record of the cancelled run and the close of the writer included.       *)
CleanupCancelled(c) ==
    /\ holder = None
    /\ c \in cancelled
    /\ conn[c] \in {"closing", "sweeping"}
    /\ task[awaiting[c]] = "done"
    /\ conn' = [conn EXCEPT ![c] = "gone"]
    /\ awaiting' = [awaiting EXCEPT ![c] = None]
    /\ emptied' = [emptied EXCEPT ![c] = {}]
    /\ own' = [own EXCEPT ![c] = {}]
    /\ leaked' = leaked \cup {c}
    /\ cancelled' = cancelled \ {c}
    /\ skipped' = skipped \cup Unvisited(c) \cup Unswept(c)
    /\ UNCHANGED <<holder, channel, sessionVars, runVars, link, progressVars,
                   gathered, closed, interrupted, inFlight, abandoned>>

(* The second CancelledError, in the finally block of the task of a run:   *)
(* the session keeps its active run.                                       *)
UnwindInterrupted(r) ==
    /\ holder = None
    /\ task[r] = "unwind"
    /\ r \in interrupted
    /\ Goto(r, "done")
    /\ UNCHANGED <<holder, connVars, sessionVars, state, sessionId, initiator,
                   cancelRequested, result, heartbeat, trace, notices, stopVars>>

(* All connection tasks have ended: the writers of those accepted since    *)
(* are closed.                                                             *)
CloseWriters ==
    /\ stop = "connections"
    /\ holder = None
    /\ \A c \in gathered : conn[c] = "gone"
    /\ closed' = {c \in Conns : link[c] = "served" /\ conn[c] # "gone"}
    /\ stop' = IF closed' = {} THEN "listener" ELSE "writers"
    /\ UNCHANGED <<vars, link, visiting, stopping, cancelled, gathered, leaked,
                   pastVars>>

(* Server.close(): no connection is accepted any more. *)
CloseListener ==
    /\ stop = "writers"
    /\ holder = None
    /\ stop' = "listener"
    /\ UNCHANGED <<vars, link, visiting, stopping, closeVars, pastVars>>

(* Server.wait_closed() waits for the transports of all connections. *)
Return ==
    /\ stop = "listener"
    /\ holder = None
    /\ \A c \in Conns : ~Open(c)
    /\ stop' = "returned"
    /\ UNCHANGED <<vars, link, visiting, stopping, closeVars, pastVars>>

(* The client of a connection without a reader goes away. *)
PeerCloses(c) ==
    /\ c \in leaked
    /\ leaked' = leaked \ {c}
    /\ UNCHANGED <<vars, link, progressVars, cancelled, gathered, closed, pastVars>>

-----------------------------------------------------------------------------
StopStep ==
    \/ BeginStop
    \/ \E s \in Sessions : VisitSession(s)
    \/ RunStopped
    \/ CancelConnections
    \/ CloseWriters
    \/ CloseListener
    \/ Return

Cancelled(c) == NeverServed(c) \/ LoopCancelled(c) \/ CleanupCancelled(c)

(* After the return of stop() the process ends. *)
ShutdownNext ==
    /\ stop # "returned"
    /\ \/ \E c \in Conns : \/ Accept(c) \/ Serve(c) \/ Served(c) \/ EndOfFile(c)
                           \/ RequestShutdown(c) \/ Cancelled(c) \/ PeerCloses(c)
       \/ \E r \in Runs : Executed(r) \/ UnwindInterrupted(r)
       \/ Signal
       \/ StopStep

ShutdownSpec == ShutdownInit /\ [][ShutdownNext]_shutdownVars

-----------------------------------------------------------------------------
(* What the coroutines of the server do next, clients apart. *)
ServerStep ==
    \/ StopStep
    \/ \E c \in Conns : \/ Serve(c) \/ EndOfFile(c) \/ Cancelled(c)
                        \/ c \notin cancelled /\ ConnStep(c) /\ UNCHANGED stopVars
    \/ \E r \in Runs : \/ UnwindInterrupted(r)
                       \/ r \notin interrupted /\ TaskStep(r) /\ UNCHANGED stopVars

-----------------------------------------------------------------------------
(* The connections that stop() does not know of and that are still open. *)
Late == {c \in Conns \ gathered : link[c] # "none" /\ conn[c] # "gone"}

(* stop() cancels the runs, waits for their tasks, cancels connections     *)
(* that wait for runs themselves, and waits for those: nobody ever waits   *)
(* for everybody else.  Until run_server has returned some coroutine of    *)
(* the server can move, whatever clients do; at the very end stop() may    *)
(* have to wait for the client of a connection it did not close.           *)
StopNeverStuck ==
    stop \notin {"serving", "returned"} =>
        \/ ENABLED ServerStep
        \/ stop = "listener" /\ \E c \in leaked \cup Late : Open(c)

(* "First cancel all runs in flight, then the connections": when stop()    *)
(* turns to the connections, every run that had not ended when it began,   *)
(* ephemeral and just accepted ones too, is in a terminal state.           *)
RunsSettleFirst ==
    stop \in {"connections", "writers", "listener", "returned"} =>
        \A r \in inFlight : state[r] \in Terminal

(* Runs accepted while stop() waits for others are left to the clean-up of *)
(* their connections.  Without connections from after that point, no run   *)
(* is still running when stop() returns, unless its session has a dead     *)
(* endpoint among its subscribers, or the clean-up that would have         *)
(* cancelled it was itself cancelled while it waited for another run.      *)
NoRunOutlivesStop ==
    stop = "returned" /\ Late = {} => \A r \in Runs \ skipped :
        state[r] = "running" /\ task[r] # "none" =>
            IsNamed(r) /\ \E c \in sinks[sessionId[r]] : conn[c] = "gone"

(* A run that has ended by the return of stop() has its end in the trace,  *)
(* unless the connection that cancelled it was cancelled while it waited   *)
(* for the task (ClientSession.handle_connection, TCPServer.stop).         *)
EndsRecorded ==
    stop = "returned" => \A r \in Runs :
        state[r] \in Terminal /\ Settled(r) =>
            Count(trace[r], Terminal) > 0 \/ r \in abandoned

=============================================================================
