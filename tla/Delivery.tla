-------------------------------- MODULE Delivery --------------------------------
(***************************************************************************)
(* What the clients of one named session read from their connections, and  *)
(* in which order: the read loop of ClientSession with its answers, the    *)
(* send lock of a connection, and the fan-out of the notices of a run      *)
(* (core/server/session, core/session/{registry,channel}, the emit         *)
(* functions and core/handlers).                                           *)
(*                                                                         *)
(* Three kinds of coroutines send: the read loop of a connection, the task *)
(* of a run and its heartbeat.  To send they line up for the lock of the   *)
(* connection; the first one writes its message and keeps the lock until   *)
(* the client has read enough, when the next one writes.  A broadcast      *)
(* visits the subscribers it found at its beginning, one after the other,  *)
(* in any order.                                                           *)
(***************************************************************************)
EXTENDS Naturals, SequencesExt, FiniteSets, JsonRpc

CONSTANTS Conns,      \* connections, each used once
          Runs,       \* runs of the session
          None,       \* no run
          Input,      \* the lines that clients send
          MaxLines    \* bound on the lines of all clients

ASSUME DeliveryAssumption ==
    /\ None \notin Conns \cup Runs
    /\ Input \subseteq Lines
    /\ MaxLines \in Nat

VARIABLES
  reader,     \* where the read loop of each connection is
  then,       \* what it does when its answer is out
  pending,    \* the run it accepts or cancels
  lines,      \* how many lines it has read
  closed,     \* connections with _closed
  lock,       \* the messages of the coroutine that holds the send lock and of those that want it
  wire,       \* what was written to the client, as long as somebody reads it
  sinks,      \* Session.sinks
  history,    \* runs with a turn in Session.history
  state,      \* Run.state, "none" before the run is created
  initiator,  \* the connection of Run.initiator
  stage,      \* where the task of each run is
  beat,       \* where the heartbeat of each run is
  left,       \* subscribers that the broadcast of a coroutine has still to visit
  owed,       \* history: the answers a client may expect, in order
  ended       \* history: the runs that had ended when the connection subscribed

connVars == <<reader, then, pending, lines, closed>>
sendVars == <<lock, wire>>
runVars  == <<state, initiator, stage, beat, left>>
pastVars == <<owed, ended>>
vars     == <<connVars, sendVars, sinks, history, runVars, pastVars>>

Speakers == ({"conn"} \X Conns) \cup ({"run", "beat"} \X Runs)

Reader(c) == <<"conn", c>>

Task(r) == <<"run", r>>

Pulse(r) == <<"beat", r>>

Init ==
    /\ reader = [c \in Conns |-> "reading"]
    /\ then = [c \in Conns |-> "read"]
    /\ pending = [c \in Conns |-> None]
    /\ lines = [c \in Conns |-> 0]
    /\ closed = {}
    /\ lock = [c \in Conns |-> <<>>]
    /\ wire = [c \in Conns |-> <<>>]
    /\ sinks = {}
    /\ history = {}
    /\ state = [r \in Runs |-> "none"]
    /\ initiator = [r \in Runs |-> None]
    /\ stage = [r \in Runs |-> "none"]
    /\ beat = [r \in Runs |-> "off"]
    /\ left = [s \in {"run", "beat"} \X Runs |-> {}]
    /\ owed = [c \in Conns |-> <<>>]
    /\ ended = [c \in Conns |-> {}]

-----------------------------------------------------------------------------
(* Messages.  The id of an answer is the number of the line, 0 for null.   *)

Answer(what, id) == [id |-> id, kind |-> what]

Accepted(r, id) == [id |-> id, kind |-> "accepted", run |-> r]

(* Mutation: a run is active as long as the session holds it. *)
SnapshotOfHeld(id) ==
    [id |-> id, kind |-> "attached", history |-> history,
     active |-> {r \in Runs : state[r] # "none" /\ stage[r] # "done"}]

(* SessionRegistry.state *)
Snapshot(id) == [id |-> id, kind |-> "attached", history |-> history,
                 active |-> {r \in Runs : state[r] = "running"}]

Notice(what, r) == [kind |-> what, run |-> r]

NoticeKinds == {"user_message", "heartbeat", "completed", "failed"}

Outcomes == {"completed", "failed"}

-----------------------------------------------------------------------------
(* ClientSession._send *)

Sending(s) == \E c \in Conns : \E i \in DOMAIN lock[c] : lock[c][i][1] = s

(* The messages that wait for the lock of c become `queue', the first of   *)
(* them gets the lock and is written; on a closed connection all are       *)
(* dropped.                                                                *)
Queue(c, queue) ==
    [lock |-> IF c \in closed THEN <<>> ELSE queue,
     wire |-> IF c \in closed \/ queue = <<>> \/ (lock[c] # <<>> /\ lock[c][1] = queue[1])
              THEN wire[c] ELSE Append(wire[c], queue[1][2])]

Set(c, queued) ==
    /\ lock' = [lock EXCEPT ![c] = queued.lock]
    /\ wire' = [wire EXCEPT ![c] = queued.wire]

Send(c, s, m) ==
    IF lock[c] = <<>> THEN Set(c, Queue(c, <<<<s, m>>>>))
    ELSE /\ lock' = [lock EXCEPT ![c] = Append(@, <<s, m>>)]
         /\ UNCHANGED wire

(* The client has read enough, and the next coroutine gets the lock.       *)
Drained(c) ==
    /\ lock[c] # <<>>
    /\ Set(c, Queue(c, Tail(lock[c])))
    /\ UNCHANGED <<connVars, sinks, history, runVars, pastVars>>

(* Nobody reads the wire any more: what was on it plays no role.           *)
Unread(c) ==
    /\ wire' = [wire EXCEPT ![c] = <<>>]
    /\ owed' = [owed EXCEPT ![c] = <<>>]
    /\ ended' = [ended EXCEPT ![c] = {}]

(* The client is gone: drain raises, and whatever waits is dropped.        *)
BreaksDown(c) ==
    /\ lock[c] # <<>>
    /\ lock' = [lock EXCEPT ![c] = <<>>]
    /\ closed' = closed \cup {c}
    /\ Unread(c)
    /\ UNCHANGED <<reader, then, pending, lines, sinks, history, runVars>>

(* Those that wait when s does not any more: nobody waits twice.           *)
Without(queue, s) ==
    IF \E i \in DOMAIN queue : queue[i][1] = s
    THEN RemoveAt(queue, CHOOSE i \in DOMAIN queue : queue[i][1] = s)
    ELSE queue

(* CancelledError in a coroutine that sends: what it wrote stays written.  *)
Silence(s) ==
    LET queued == [c \in Conns |-> Queue(c, Without(lock[c], s))]
    IN  /\ lock' = [c \in Conns |-> IF lock[c] = <<>> THEN <<>> ELSE queued[c].lock]
        /\ wire' = [c \in Conns |-> IF lock[c] = <<>> THEN wire[c] ELSE queued[c].wire]
        /\ left' = [left EXCEPT ![s] = {}]

-----------------------------------------------------------------------------
(* The read loop *)

Id(c, line) == IF line.id = "valid" THEN lines[c] + 1 ELSE 0

(* The message is sent, and the loop goes on with `next' when it is out. *)
Reply(c, m, next) ==
    /\ Send(c, Reader(c), m)
    /\ reader' = [reader EXCEPT ![c] = "answering"]
    /\ then' = [then EXCEPT ![c] = next]

GoOn(c) ==
    /\ reader' = [reader EXCEPT ![c] = "reading"]
    /\ then' = [then EXCEPT ![c] = "read"]
    /\ UNCHANGED sendVars

(* _send_result: the result of a notification is not sent. *)
ReplyResult(c, line, m, next) ==
    \/ line.id = "valid" /\ Reply(c, m, next)
    \/ line.id # "valid" /\ next = "read" /\ GoOn(c)

Active == {r \in Runs : state[r] = "running"}

Ended == {r \in Runs : state[r] \notin {"none", "running"}}

Subscribe(c) ==
    /\ sinks' = sinks \cup {c}
    /\ ended' = [ended EXCEPT ![c] = IF c \in sinks THEN @ ELSE Ended]

(* Mutation: only what can be parsed is answered. *)
RejectSilently(c, line) ==
    /\ Parse(line) # "request"
    /\ GoOn(c)
    /\ UNCHANGED <<pending, closed, sinks, history, runVars, ended>>

(* Not a request: an error without id. *)
Reject(c, line) ==
    /\ Parse(line) # "request"
    /\ Reply(c, Answer(IF Parse(line) = "response" THEN "invalid_request" ELSE Parse(line), 0),
             "read")
    /\ UNCHANGED <<pending, closed, sinks, history, runVars, ended>>

(* Whatever changes nothing, the shutdown request included.  Shutdown ends *)
(* the loop.                                                               *)
Dispatch(c, line) ==
    /\ line.method \in {"ping", "echo", "permission.respond", "unknown", "chat", "session.attach"}
    /\ line.method \in {"chat", "session.attach"} => line.params # "complete"
    /\ \E what \in Dispatched(line) : ReplyResult(c, line, Answer(what, lines[c] + 1), "read")
    /\ UNCHANGED <<pending, closed, sinks, history, runVars, ended>>

(* session.attach *)
Attach(c, line) ==
    /\ line.method = "session.attach"
    /\ line.params = "complete"
    /\ Subscribe(c)
    /\ ReplyResult(c, line, Snapshot(lines[c] + 1), "read")
    /\ UNCHANGED <<pending, closed, history, runVars>>

(* A chat while a run is active.  This error is sent without an id too. *)
Refuse(c, line) ==
    /\ IsChat(line)
    /\ Active # {}
    /\ Subscribe(c)
    /\ Reply(c, Answer("session_busy", Id(c, line)), "read")
    /\ UNCHANGED <<pending, closed, history, runVars>>

(* A chat that cannot be recorded in its trace. *)
CreateFails(c, line) ==
    /\ IsChat(line)
    /\ Active = {}
    /\ Subscribe(c)
    /\ Reply(c, Answer("internal_error", Id(c, line)), "read")
    /\ UNCHANGED <<pending, closed, history, runVars>>

(* A chat is accepted; its task is created when the answer is out. *)
Accept(c, line, r) ==
    /\ IsChat(line)
    /\ Active = {}
    /\ state[r] = "none"
    /\ Subscribe(c)
    /\ state' = [state EXCEPT ![r] = "running"]
    /\ initiator' = [initiator EXCEPT ![r] = c]
    /\ IF line.id = "valid"
       THEN /\ Reply(c, Accepted(r, lines[c] + 1), "create")
            /\ stage' = [stage EXCEPT ![r] = "accepting"]
            /\ pending' = [pending EXCEPT ![c] = r]
       ELSE /\ GoOn(c)
            /\ stage' = [stage EXCEPT ![r] = "scheduled"]
            /\ UNCHANGED pending
    /\ UNCHANGED <<closed, history, beat, left>>

(* The endpoint leaves the session, and the active run of a session that   *)
(* nobody sees is cancelled: when the last subscriber leaves, or when the  *)
(* connection of the run itself goes.                                      *)
Leave(c, going) ==
    LET unseen == {r \in Active : /\ sinks \ {c} = {}
                                  /\ c \in sinks \/ (going /\ initiator[r] = c)}
    IN  /\ sinks' = sinks \ {c}
        /\ state' = [r \in Runs |-> IF r \in unseen THEN "cancelled" ELSE state[r]]
        /\ pending' = [pending EXCEPT ![c] =
                           IF \E r \in unseen : stage[r] # "accepting"
                           THEN CHOOSE r \in unseen : TRUE ELSE None]

(* session.detach *)
Detach(c, line) ==
    /\ line.method = "session.detach"
    /\ Leave(c, FALSE)
    /\ IF pending'[c] = None
       THEN ReplyResult(c, line, Answer("result", lines[c] + 1), "read")
       ELSE /\ reader' = [reader EXCEPT ![c] = "detaching"]
            /\ then' = [then EXCEPT ![c] = IF line.id = "valid" THEN "answer" ELSE "read"]
            /\ UNCHANGED sendVars
    /\ UNCHANGED <<closed, history, initiator, stage, beat, left, ended>>

(* The finally block of handle_connection. *)
Close(c) ==
    /\ closed' = closed \cup {c}
    /\ Leave(c, TRUE)
    /\ reader' = [reader EXCEPT ![c] = IF pending'[c] = None THEN "gone" ELSE "closing"]
    /\ then' = [then EXCEPT ![c] = "read"]
    /\ Unread(c)
    /\ UNCHANGED <<lock, history, initiator, stage, beat, left>>

(* shutdown with an id: the loop ends after the answer. *)
Shutdown(c, line) ==
    /\ line.method = "shutdown"
    /\ line.id = "valid"
    /\ Reply(c, Answer("result", lines[c] + 1), "quit")
    /\ UNCHANGED <<pending, closed, sinks, history, runVars, ended>>

(* A line that ends the loop at once. *)
Ends(line) ==
    \/ line.text = "overlong"
    \/ Parse(line) = "request" /\ line.method = "shutdown" /\ line.id # "valid"

(* What the protocol owes for a line: one answer with its id to a request, *)
(* none to a notification, an error without id to everything else.         *)
Owed(c, line) ==
    LET request == /\ line.text = "object" /\ line.version
                   /\ line.method \notin {"absent", "invalid"} /\ line.params # "scalar"
                   /\ ~line.result /\ line.error = "absent" /\ line.id # "invalid"
    IN  IF ~request THEN <<0>> ELSE IF line.id = "valid" THEN <<lines[c] + 1>> ELSE <<>>

Request(c, line) ==
    /\ Parse(line) = "request"
    /\ \/ Dispatch(c, line)
       \/ Attach(c, line)
       \/ Detach(c, line)
       \/ Shutdown(c, line)
       \/ Refuse(c, line)
       \/ CreateFails(c, line)
       \/ \E r \in Runs : Accept(c, line, r)

Read(c, line) ==
    /\ reader[c] = "reading"
    /\ FoldFunction(LAMBDA a, b : a + b, 0, lines) < MaxLines
    /\ lines' = [lines EXCEPT ![c] = @ + 1]
    /\ \/ /\ Ends(line)
          /\ Close(c)
       \/ /\ ~Ends(line)
          /\ owed' = [owed EXCEPT ![c] = IF c \in closed THEN <<>> ELSE @ \o Owed(c, line)]
          /\ Reject(c, line) \/ Request(c, line)

(* End of file. *)
Disconnect(c) ==
    /\ reader[c] = "reading"
    /\ Close(c)
    /\ UNCHANGED lines

(* The answer is out. *)
Answered(c) ==
    /\ reader[c] = "answering"
    /\ ~Sending(Reader(c))
    /\ \/ /\ then[c] = "read"
          /\ GoOn(c)
          /\ UNCHANGED <<pending, closed, sinks, history, runVars, pastVars>>
       \/ /\ then[c] = "create"
          /\ GoOn(c)
          /\ stage' = [stage EXCEPT ![pending[c]] = "scheduled"]
          /\ pending' = [pending EXCEPT ![c] = None]
          /\ UNCHANGED <<closed, sinks, history, state, initiator, beat, left, pastVars>>
       \/ then[c] = "quit" /\ Close(c)
    /\ UNCHANGED lines

(* The cancelled run has ended. *)
CancelLanded(c) ==
    /\ reader[c] \in {"detaching", "closing"}
    /\ stage[pending[c]] = "done"
    /\ pending' = [pending EXCEPT ![c] = None]
    /\ \/ /\ reader[c] = "detaching"
          /\ then[c] = "answer"
          /\ Reply(c, Answer("result", lines[c]), "read")
       \/ /\ reader[c] = "detaching"
          /\ then[c] = "read"
          /\ GoOn(c)
       \/ /\ reader[c] = "closing"
          /\ reader' = [reader EXCEPT ![c] = "gone"]
          /\ UNCHANGED <<then, sendVars>>
    /\ UNCHANGED <<lines, closed, sinks, history, runVars, pastVars>>

-----------------------------------------------------------------------------
(* The task of a run, and its broadcasts *)

(* registry.broadcast takes a copy of the subscribers. *)
Broadcast(s, audience) == left' = [left EXCEPT ![s] = audience]

(* The broadcast of a coroutine is over. *)
Told(s) == left[s] = {} /\ ~Sending(s)

(* Mutation: an endpoint that is gone ends the broadcast. *)
TellUntilGone(s, m) ==
    /\ ~Sending(s)
    /\ \E c \in left[s] : /\ left' = [left EXCEPT ![s] = IF c \in closed THEN {} ELSE @ \ {c}]
                          /\ Send(c, s, m)
    /\ UNCHANGED <<connVars, sinks, history, state, initiator, stage, beat, pastVars>>

(* The next endpoint of a broadcast. *)
Tell(s, m) ==
    /\ ~Sending(s)
    /\ \E c \in left[s] : /\ left' = [left EXCEPT ![s] = @ \ {c}]
                          /\ Send(c, s, m)
    /\ UNCHANGED <<connVars, sinks, history, state, initiator, stage, beat, pastVars>>

Says(r) ==
    CASE stage[r] = "user_message" -> Notice("user_message", r)
      [] stage[r] = "outcome"      -> Notice(state[r], r)

Speak(r) ==
    /\ stage[r] \in {"user_message", "outcome"}
    /\ Tell(Task(r), Says(r))

(* The first step of the task: it subscribes its connection again.         *)
Begin(r) ==
    /\ stage[r] = "scheduled"
    /\ state[r] = "running"
    /\ stage' = [stage EXCEPT ![r] = "user_message"]
    /\ beat' = [beat EXCEPT ![r] = "idle"]
    /\ Subscribe(initiator[r])
    /\ Broadcast(Task(r), sinks \ {initiator[r]})
    /\ UNCHANGED <<connVars, sendVars, history, state, initiator, owed>>

(* Mutation: the heartbeat is left to notice that the run is over. *)
LeaveHeartbeat(r) ==
    beat' = [beat EXCEPT ![r] = IF @ = "telling" THEN "telling" ELSE "off"]

(* stop_heartbeat *)
StopHeartbeat(r) ==
    beat' = [beat EXCEPT ![r] = IF @ = "off" THEN "off" ELSE "cancelled"]

(* The agent loop has an answer: the turn is added to the history, before  *)
(* chat.interrupted is sent if the steps did not suffice ...               *)
RecordTurn(r) ==
    /\ stage[r] = "user_message"
    /\ Told(Task(r))
    /\ state[r] = "running"
    /\ stage' = [stage EXCEPT ![r] = "answered"]
    /\ history' = history \cup {r}
    /\ UNCHANGED <<connVars, sendVars, sinks, state, initiator, beat, left, pastVars>>

(* ... and when the trace is written the run has its terminal state, which *)
(* ends the heartbeat.  The agent loop or the trace may fail.              *)
Finish(r) ==
    /\ state[r] = "running"
    /\ Told(Task(r))
    /\ \/ stage[r] = "answered" /\ state' = [state EXCEPT ![r] = "completed"]
       \/ stage[r] \in {"user_message", "answered"} /\ state' = [state EXCEPT ![r] = "failed"]
    /\ stage' = [stage EXCEPT ![r] = "stopping"]
    /\ StopHeartbeat(r)
    /\ UNCHANGED <<connVars, sendVars, sinks, history, initiator, left, pastVars>>

(* The cancelled heartbeat has ended: chat.completed or chat.failed. *)
BeginOutcome(r) ==
    /\ stage[r] = "stopping"
    /\ beat[r] # "cancelled"
    /\ stage' = [stage EXCEPT ![r] = "outcome"]
    /\ Broadcast(Task(r), sinks)
    /\ UNCHANGED <<connVars, sendVars, sinks, history, state, initiator, beat, pastVars>>

Done(r) ==
    /\ stage[r] = "outcome"
    /\ Told(Task(r))
    /\ stage' = [stage EXCEPT ![r] = "done"]
    /\ UNCHANGED <<connVars, sendVars, sinks, history, state, initiator, beat, left, pastVars>>

(* CancelledError in the task, in the middle of a broadcast or not ... *)
CancelDelivered(r) ==
    /\ state[r] = "cancelled"
    /\ stage[r] \in {"user_message", "answered"}
    /\ Silence(Task(r))
    /\ StopHeartbeat(r)
    /\ stage' = [stage EXCEPT ![r] = "unwind"]
    /\ UNCHANGED <<connVars, sinks, history, state, initiator, pastVars>>

(* ... or before its first step, or the run is over when the task begins, *)
(* or its heartbeat has ended.                                            *)
Unwound(r) ==
    /\ state[r] = "cancelled"
    /\ \/ stage[r] = "scheduled"
       \/ stage[r] = "unwind" /\ beat[r] = "off"
    /\ stage' = [stage EXCEPT ![r] = "done"]
    /\ UNCHANGED <<connVars, sendVars, sinks, history, state, initiator, beat, left, pastVars>>

-----------------------------------------------------------------------------
(* The heartbeat of a run: one at most is modelled *)

Beat(r) ==
    /\ beat[r] = "idle"
    /\ state[r] = "running"
    /\ beat' = [beat EXCEPT ![r] = "telling"]
    /\ Broadcast(Pulse(r), sinks)
    /\ UNCHANGED <<connVars, sendVars, sinks, history, state, initiator, stage, pastVars>>

SpeakBeat(r) ==
    /\ beat[r] = "telling"
    /\ Tell(Pulse(r), Notice("heartbeat", r))

(* CancelledError in the heartbeat. *)
BeatEnds(r) ==
    /\ beat[r] = "cancelled"
    /\ Silence(Pulse(r))
    /\ beat' = [beat EXCEPT ![r] = "off"]
    /\ UNCHANGED <<connVars, sinks, history, state, initiator, stage, pastVars>>

-----------------------------------------------------------------------------
Client(c) ==
    \/ \E line \in Input : Read(c, line)
    \/ Disconnect(c)
    \/ BreaksDown(c)

Connection(c) == Drained(c) \/ Answered(c) \/ CancelLanded(c)

Run(r) ==
    \/ Begin(r)
    \/ Speak(r)
    \/ RecordTurn(r)
    \/ Finish(r)
    \/ BeginOutcome(r)
    \/ Done(r)
    \/ CancelDelivered(r)
    \/ Unwound(r)

HeartbeatStep(r) == SpeakBeat(r) \/ BeatEnds(r)

Next ==
    \/ \E c \in Conns : Client(c) \/ Connection(c)
    \/ \E r \in Runs : Run(r) \/ HeartbeatStep(r) \/ Beat(r)

Spec == Init /\ [][Next]_vars

-----------------------------------------------------------------------------
(* Properties *)

Messages == [kind : {"accepted"}, id : Nat, run : Runs]
            \cup [kind : {"attached"}, id : Nat, history : SUBSET Runs, active : SUBSET Runs]
            \cup [kind : NoticeKinds, run : Runs]
            \cup [kind : {"parse_error", "invalid_request", "session_busy", "internal_error",
                          "method_not_found", "invalid_params", "result"}, id : Nat]

(* Every variable keeps its type, and no coroutine waits in two queues, or *)
(* twice in one (ClientSession._send and its callers).                     *)
DeliveryTypeOK ==
    /\ reader \in [Conns -> {"reading", "answering", "detaching", "closing", "gone"}]
    /\ then \in [Conns -> {"read", "create", "quit", "answer"}]
    /\ pending \in [Conns -> Runs \cup {None}]
    /\ lines \in [Conns -> Nat]
    /\ closed \subseteq Conns
    /\ lock \in [Conns -> Seq(Speakers \X Messages)]
    /\ wire \in [Conns -> Seq(Messages)]
    /\ \A c, d \in Conns : \A i \in DOMAIN lock[c], j \in DOMAIN lock[d] :
           lock[c][i][1] = lock[d][j][1] => c = d /\ i = j
    /\ sinks \subseteq Conns
    /\ history \subseteq Runs
    /\ state \in [Runs -> {"none", "running", "completed", "failed", "cancelled"}]
    /\ initiator \in [Runs -> Conns \cup {None}]
    /\ stage \in [Runs -> {"none", "accepting", "scheduled", "user_message", "answered",
                          "stopping", "outcome", "unwind", "done"}]
    /\ beat \in [Runs -> {"off", "idle", "telling", "cancelled"}]
    /\ left \in [{"run", "beat"} \X Runs -> SUBSET Conns]
    /\ owed \in [Conns -> Seq(Nat)]
    /\ ended \in [Conns -> SUBSET Runs]

Positions(c, what, r) == {i \in DOMAIN wire[c] : wire[c][i] = Notice(what, r)}

(* The end of a run reaches everybody: when its task is done, every        *)
(* endpoint of the session that is not closed has read one chat.completed  *)
(* or chat.failed of it, or subscribed when the run was over already, and  *)
(* then found the turn of a completed run in the history.  It says that    *)
(* one endpoint that is slow, gone or leaving takes nothing from the       *)
(* others (SessionRegistry.broadcast, SessionChannel.record_turn).         *)
EndReachesAudience ==
    \A r \in Runs : stage[r] = "done" /\ state[r] \in Outcomes =>
        \A c \in sinks \ closed :
            \/ Cardinality(Positions(c, state[r], r)) = 1
            \/ r \in ended[c] /\ (state[r] = "completed" => r \in history)

(* What one client reads of a run is in order: its own acceptance first,   *)
(* one outcome at most, and nothing after it, no late heartbeat either     *)
(* (stop_heartbeat before the outcome, the task created after the answer). *)
RunReadInOrder ==
    \A c \in Conns : \A i, j \in DOMAIN wire[c] :
        (i < j /\ wire[c][i].kind \in NoticeKinds /\ wire[c][j].kind \in NoticeKinds \cup {"accepted"}
         /\ wire[c][i].run = wire[c][j].run) =>
            wire[c][i].kind \notin Outcomes /\ wire[c][j].kind # "accepted"

(* The answer to session.attach and the notices fit together as the client *)
(* reads them: a run that the answer calls active has not been reported    *)
(* over on the same connection before, and one that was reported completed *)
(* is in its history (the state is built before the answer waits for its   *)
(* turn to be sent).                                                       *)
SnapshotFitsNotices ==
    \A c \in Conns : \A i \in DOMAIN wire[c] : wire[c][i].kind = "attached" =>
        \A j \in 1 .. i - 1 : wire[c][j].kind \in Outcomes =>
            /\ wire[c][j].run \notin wire[c][i].active
            /\ wire[c][j].kind = "completed" => wire[c][j].run \in wire[c][i].history

(* An answer, but for the refusals of a chat that was sent as a            *)
(* notification: these are sent without an id.                             *)
IsAnswer(m) ==
    m.kind \notin NoticeKinds /\ (m.id = 0 => m.kind \notin {"session_busy", "internal_error"})

(* Where the answers are on the wire w, and how many there are up to i. *)
Places(w) == {i \in DOMAIN w : IsAnswer(w[i])}

Upto(w, i) == Cardinality({j \in Places(w) : j <= i})

(* Every line is answered as the protocol wants it and in order: requests  *)
(* once and with their id, notifications never, everything else with an    *)
(* error without id.  While the loop reads the next line nothing is owed   *)
(* (_process_line, _dispatch_inline, _start_chat, _send_result).           *)
LinesAnswered ==
    \A c \in Conns :
        /\ \A i \in Places(wire[c]) : /\ Upto(wire[c], i) <= Len(owed[c])
                                     /\ wire[c][i].id = owed[c][Upto(wire[c], i)]
        /\ reader[c] = "reading" /\ c \notin closed => Cardinality(Places(wire[c])) = Len(owed[c])

=============================================================================
