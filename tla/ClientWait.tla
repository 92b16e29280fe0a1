------------------------------ MODULE ClientWait -------------------------------
(***************************************************************************)
(* The waiting of the command line client: client/cli/app with its         *)
(* request and completion waits, client/transport/connection and           *)
(* client/transport/receiver.                                              *)
(*                                                                         *)
(* The client is one event loop with three coroutines: the prompt, the     *)
(* read loop of the receiver, and a watchdog while a chat is waited for.   *)
(* The server is modelled by what SessionRuns lets it do with the session  *)
(* of the client: it runs one chat at a time, of this client or another,   *)
(* and settles a run before it tells its outcome.  Messages arrive in      *)
(* order and after any delay.                                              *)
(***************************************************************************)
EXTENDS Naturals, Sequences, FiniteSets

CONSTANTS Own,           \* runs of this client
          Foreign,       \* runs of other clients of the session
          None,          \* no run
          MaxRequests,   \* bound on the requests of the client
          MaxActivity    \* bound on the progress notices and heartbeats

ASSUME ClientAssumption ==
    /\ Own \cap Foreign = {}
    /\ None \notin Own \cup Foreign
    /\ MaxRequests \in Nat \ {0}
    /\ MaxActivity \in Nat

VARIABLES
  phase,      \* of each run on the server
  outcome,    \* how it ended, "cancelled" without a notice
  wire,       \* requests under way to the server
  inbox,      \* messages under way to the client
  beats,      \* progress notices and heartbeats sent
  accepted,   \* the run the server accepted for a request
  ui,         \* where the coroutine of the prompt is
  command,    \* what the request asks for
  requestId,  \* ClientConnection._request_id
  future,     \* the response future of the request
  answer,     \* its result
  awaiting,   \* CLIApp._awaiting_run_id
  pending,    \* the run of CLIApp._pending_terminal
  completion, \* CLIApp._completion_event
  reading,    \* is the read loop running?
  silent,     \* has nothing been received for three heartbeat intervals?
  heard,      \* runs whose terminal notice was read
  displaced,  \* runs whose notice was replaced in _pending_terminal
  shown,      \* outcomes shown to the user
  warned      \* runs whose wait was given up with a warning

serverVars == <<phase, outcome, wire, inbox, beats, accepted>>
promptVars == <<ui, command, requestId>>
waitVars   == <<awaiting, pending, completion, displaced, shown, warned>>
vars == <<serverVars, promptVars, waitVars, future, answer, reading, silent, heard>>

Runs == Own \cup Foreign

Phases == {"none", "running", "settled", "told"}

Outcomes == {"completed", "failed"}

Commands == {"attach", "control", "chat"}

Places == {"prompt", "requesting", "waiting", "over"}

Ids == 1..MaxRequests

(* Without an id it is a notice, without a run no chat was accepted. *)
Messages == [kind : {"response", "activity", "eof"} \cup Outcomes,
             id : {0} \cup Ids, run : Runs \cup {None}]

TypeOK ==
    /\ phase \in [Runs -> Phases]
    /\ outcome \in [Runs -> Outcomes \cup {"none", "cancelled"}]
    /\ wire \in Seq([id : Ids, command : Commands])
    /\ inbox \in Seq(Messages)
    /\ beats \in 0..MaxActivity
    /\ accepted \in [Ids -> Own \cup {None}]
    /\ ui \in Places
    /\ command \in Commands
    /\ requestId \in Ids
    /\ future \in {"none", "open", "resolved", "failed"}
    /\ answer \in Runs \cup {None}
    /\ awaiting \in Own \cup {None}
    /\ pending \in Runs \cup {None}
    /\ completion \in BOOLEAN
    /\ reading \in BOOLEAN
    /\ silent \in BOOLEAN
    /\ heard \in SUBSET Runs
    /\ displaced \in SUBSET Runs
    /\ shown \in Seq([run : Runs, outcome : Outcomes])
    /\ warned \in SUBSET Own

(* The client is connected and has sent session.attach. *)
Init ==
    /\ phase = [r \in Runs |-> "none"]
    /\ outcome = [r \in Runs |-> "none"]
    /\ wire = << [id |-> 1, command |-> "attach"] >>
    /\ inbox = <<>>
    /\ beats = 0
    /\ accepted = [i \in Ids |-> None]
    /\ ui = "requesting" /\ command = "attach" /\ requestId = 1
    /\ future = "open" /\ answer = None
    /\ awaiting = None /\ pending = None /\ completion = FALSE
    /\ reading = TRUE /\ silent = FALSE
    /\ heard = {} /\ displaced = {} /\ shown = <<>> /\ warned = {}

-----------------------------------------------------------------------------
(* The server *)

Message(kind, id, run) == [kind |-> kind, id |-> id, run |-> run]

Closed == \E i \in DOMAIN inbox : inbox[i].kind = "eof"

(* The server has the connection, and somebody is there to see. *)
Serving == ui # "over" /\ reading /\ ~Closed

SendMessage(message) == inbox' = Append(inbox, message)

SessionFree == \A r \in Runs : phase[r] # "running"

(* A request is answered; a chat is refused while the session is busy. *)
Serve ==
    /\ Serving
    /\ wire # <<>>
    /\ wire' = Tail(wire)
    /\ LET id == Head(wire).id
       IN  \/ /\ Head(wire).command = "chat" => ~SessionFree
              /\ SendMessage(Message("response", id, None))
              /\ UNCHANGED <<phase, accepted>>
           \/ /\ Head(wire).command = "chat" /\ SessionFree
              /\ \E r \in Own :
                     /\ phase[r] = "none"
                     /\ phase' = [phase EXCEPT ![r] = "running"]
                     /\ accepted' = [accepted EXCEPT ![id] = r]
                     /\ SendMessage(Message("response", id, r))
    /\ UNCHANGED <<outcome, beats, promptVars, waitVars, future, answer, reading,
                   silent, heard>>

(* Another client of the session starts a chat. *)
ForeignChat(r) ==
    /\ Serving
    /\ r \in Foreign /\ phase[r] = "none" /\ SessionFree
    /\ phase' = [phase EXCEPT ![r] = "running"]
    /\ UNCHANGED <<outcome, wire, inbox, beats, accepted, promptVars, waitVars, future,
                   answer, reading, silent, heard>>

(* The run reaches a terminal state: the session is free again. *)
RunSettles(r) ==
    /\ Serving
    /\ phase[r] = "running"
    /\ phase' = [phase EXCEPT ![r] = "settled"]
    /\ \E how \in Outcomes \cup {"cancelled"} : outcome' = [outcome EXCEPT ![r] = how]
    /\ UNCHANGED <<wire, inbox, beats, accepted, promptVars, waitVars, future, answer,
                   reading, silent, heard>>

(* chat.completed or chat.failed *)
RunTold(r) ==
    /\ Serving
    /\ phase[r] = "settled" /\ outcome[r] \in Outcomes
    /\ phase' = [phase EXCEPT ![r] = "told"]
    /\ SendMessage(Message(outcome[r], 0, r))
    /\ UNCHANGED <<outcome, wire, beats, accepted, promptVars, waitVars, future, answer,
                   reading, silent, heard>>

(* A heartbeat, or progress. *)
RunActive(r) ==
    /\ Serving
    /\ phase[r] = "running"
    /\ beats < MaxActivity
    /\ beats' = beats + 1
    /\ SendMessage(Message("activity", 0, r))
    /\ UNCHANGED <<phase, outcome, wire, accepted, promptVars, waitVars, future, answer,
                   reading, silent, heard>>

ServerCloses ==
    /\ Serving
    /\ SendMessage(Message("eof", 0, None))
    /\ UNCHANGED <<phase, outcome, wire, beats, accepted, promptVars, waitVars, future,
                   answer, reading, silent, heard>>

-----------------------------------------------------------------------------
(* The receiver: _read_loop and the handlers it calls *)

(* Mutation: whatever run ended, the wait is over. *)
IsAwaitedAny(r) == r \in Runs

(* The notice is about the run that is waited for. *)
IsAwaited(r) == r = awaiting

(* _dispatch_response finds the future of the request. *)
Matches(id) == id = requestId

Receive(message) ==
    /\ reading
    /\ ui # "over"
    /\ inbox # <<>>
    /\ Head(inbox) = message
    /\ inbox' = Tail(inbox)
    /\ silent' = FALSE

ReadResponse ==
    /\ Receive(Head(inbox))
    /\ Head(inbox).kind = "response"
    /\ IF Matches(Head(inbox).id) /\ future = "open"
       THEN future' = "resolved" /\ answer' = Head(inbox).run
       ELSE UNCHANGED <<future, answer>>
    /\ UNCHANGED <<phase, outcome, wire, beats, accepted, promptVars, waitVars, reading,
                   heard>>

ReadActivity ==
    /\ Receive(Head(inbox))
    /\ Head(inbox).kind = "activity"
    /\ UNCHANGED <<phase, outcome, wire, beats, accepted, promptVars, waitVars, future,
                   answer, reading, heard>>

(* The rest of _handle_completed and _handle_failed. *)
Show(r) ==
    /\ shown' = Append(shown, [run |-> r, outcome |-> outcome[r]])
    /\ completion' = TRUE

(* Mutation: a notice that nobody waits for yet is dropped. *)
KeepNothing(r) == UNCHANGED <<pending, displaced>>

(* _pending_terminal has one place. *)
Keep(r) ==
    /\ pending' = r
    /\ displaced' = IF pending = None THEN displaced ELSE displaced \cup {pending}

ReadTerminal ==
    /\ Receive(Head(inbox))
    /\ Head(inbox).kind \in Outcomes
    /\ LET r == Head(inbox).run
       IN  /\ heard' = heard \cup {r}
           /\ \/ /\ awaiting = None
                 /\ Keep(r)
                 /\ UNCHANGED <<completion, shown>>
              \/ /\ awaiting # None /\ IsAwaited(r)
                 /\ Show(r)
                 /\ UNCHANGED <<pending, displaced>>
              \/ /\ awaiting # None /\ ~IsAwaited(r)
                 /\ UNCHANGED <<pending, displaced, completion, shown>>
    /\ UNCHANGED <<phase, outcome, wire, beats, accepted, promptVars, awaiting, warned,
                   future, answer, reading>>

(* The end of _read_loop: open futures fail, and _handle_disconnect ends   *)
(* the wait for a run.                                                     *)
ReadEof ==
    /\ Receive(Head(inbox))
    /\ Head(inbox).kind = "eof"
    /\ reading' = FALSE
    /\ future' = IF future = "open" THEN "failed" ELSE future
    /\ IF awaiting # None
       THEN completion' = TRUE /\ warned' = warned \cup {awaiting}
       ELSE UNCHANGED <<completion, warned>>
    /\ UNCHANGED <<phase, outcome, wire, beats, accepted, promptVars, awaiting, pending,
                   displaced, shown, answer, heard>>

-----------------------------------------------------------------------------
(* The prompt *)

(* send_request *)
Request(what) ==
    /\ ui = "prompt"
    /\ requestId < MaxRequests
    /\ command' = what
    /\ requestId' = requestId + 1
    /\ future' = "open"
    /\ answer' = None
    /\ ui' = "requesting"
    /\ wire' = IF reading /\ ~Closed
               THEN Append(wire, [id |-> requestId + 1, command |-> what])
               ELSE wire

(* /ping and /echo *)
SendControl ==
    /\ Request("control")
    /\ UNCHANGED <<phase, outcome, inbox, beats, accepted, waitVars, reading, silent,
                   heard>>

(* Mutation: the event keeps the end of the last chat. *)
ResetKeepingCompletion ==
    /\ pending' = None
    /\ awaiting' = None
    /\ UNCHANGED completion

(* The beginning of _send_chat. *)
Reset ==
    /\ completion' = FALSE
    /\ pending' = None
    /\ awaiting' = None

SendChat ==
    /\ Request("chat")
    /\ Reset
    /\ UNCHANGED <<phase, outcome, inbox, beats, accepted, displaced, shown, warned,
                   reading, silent, heard>>

(* Where the prompt goes without a response: session.attach is given up,   *)
(* and any other request ends the program.                                 *)
RequestFails ==
    /\ ui = "requesting"
    /\ ui' = IF command = "attach" THEN "prompt" ELSE "over"
    /\ future' = "none"
    /\ UNCHANGED <<serverVars, command, requestId, waitVars, answer, reading, silent,
                   heard>>

ConnectionLost ==
    /\ \/ future = "failed"
       \/ future = "open" /\ ~reading
    /\ RequestFails

(* The timeout of wait_for_response cancels the coroutine, also when the   *)
(* response came in the same turn of the event loop.                       *)
RequestTimesOut == RequestFails

(* The response to session.attach, /ping, /echo or a refused chat. *)
ResponseShown ==
    /\ ui = "requesting"
    /\ future = "resolved" /\ (command = "chat" => answer = None)
    /\ ui' = "prompt"
    /\ future' = "none"
    /\ UNCHANGED <<serverVars, command, requestId, waitVars, answer, reading, silent,
                   heard>>

(* The chat is accepted.  Its end may have been read already. *)
ChatAccepted ==
    /\ ui = "requesting"
    /\ future = "resolved" /\ command = "chat" /\ answer # None
    /\ awaiting' = answer
    /\ pending' = None
    /\ IF pending = answer THEN Show(pending) ELSE UNCHANGED <<shown, completion>>
    /\ ui' = "waiting"
    /\ future' = "none"
    /\ UNCHANGED <<serverVars, command, requestId, displaced, warned, answer, reading,
                   silent, heard>>

(* The end of _wait_for_completion and of _send_chat. *)
WaitOver ==
    /\ ui = "waiting"
    /\ completion
    /\ ui' = "prompt"
    /\ awaiting' = None
    /\ pending' = None
    /\ UNCHANGED <<serverVars, command, requestId, completion, displaced, shown, warned,
                   future, answer, reading, silent, heard>>

(* /quit, or the end of the input. *)
Quit ==
    /\ ui = "prompt"
    /\ ui' = "over"
    /\ UNCHANGED <<serverVars, command, requestId, waitVars, future, answer, reading,
                   silent, heard>>

-----------------------------------------------------------------------------
(* Time *)

(* Three heartbeat intervals pass without a message. *)
Silence ==
    /\ ui = "waiting"
    /\ ~silent
    /\ silent' = TRUE
    /\ UNCHANGED <<serverVars, promptVars, waitVars, future, answer, reading, heard>>

(* Mutation: the watchdog looks after open connections only. *)
WatchedIfReading == ui = "waiting" /\ reading

(* _watch_connection runs. *)
Watched == ui = "waiting"

Watchdog ==
    /\ Watched
    /\ silent
    /\ completion' = TRUE
    /\ warned' = warned \cup {awaiting}
    /\ UNCHANGED <<serverVars, promptVars, awaiting, pending, displaced, shown, future,
                   answer, reading, silent, heard>>

-----------------------------------------------------------------------------
Server ==
    \/ Serve \/ ServerCloses
    \/ \E r \in Runs : ForeignChat(r) \/ RunSettles(r) \/ RunTold(r) \/ RunActive(r)

Read == ReadResponse \/ ReadActivity \/ ReadTerminal \/ ReadEof

Continue == ConnectionLost \/ ResponseShown \/ ChatAccepted \/ WaitOver

User == SendControl \/ SendChat \/ Quit

Next == Server \/ Read \/ Continue \/ User \/ RequestTimesOut \/ Silence \/ Watchdog

Spec == Init /\ [][Next]_vars

(* The event loop runs its coroutines and timers.  The server and the user *)
(* owe nothing; a silence ends only when a message is there to be read.    *)
Fairness ==
    /\ WF_vars(Read)
    /\ WF_vars(Continue)
    /\ WF_vars(RequestTimesOut)
    /\ WF_vars(inbox = <<>> /\ Silence)
    /\ WF_vars(Watchdog)

FairSpec == Spec /\ Fairness

-----------------------------------------------------------------------------
(* Properties *)

(* The client waits for the run that its chat was accepted as, whatever    *)
(* responses to earlier requests come late.                                *)
AwaitsOwnRun == ui = "waiting" => awaiting # None /\ awaiting = accepted[requestId]

(* What is shown as the end of a chat is the outcome of a run of this      *)
(* client, and it is shown once (and counted once in the statistics),      *)
(* whatever other runs of the session end meanwhile.                       *)
OutcomeIsOwn ==
    \A i \in DOMAIN shown :
        /\ shown[i].run \in Own
        /\ shown[i].outcome = outcome[shown[i].run]
        /\ \A j \in DOMAIN shown : shown[j].run = shown[i].run => j = i

(* While the client waits for a run it has not read the end of that run,   *)
(* unless the end of another one displaced it before the wait began.       *)
EndNotMissed ==
    ui = "waiting" /\ ~completion /\ awaiting \in heard => awaiting \in displaced

(* The prompt returns only after the end of the accepted chat was shown or *)
(* its wait was given up with a warning.                                   *)
EveryChatReported ==
    ui = "prompt" /\ command = "chat" /\ accepted[requestId] # None =>
        \/ accepted[requestId] \in warned
        \/ \E i \in DOMAIN shown : shown[i].run = accepted[requestId]

(* Every wait ends, for a response or for the end of a chat, even when the *)
(* notice was displaced or never sent, or the connection is gone.          *)
EveryWaitEnds == ui \in {"requesting", "waiting"} ~> ui \in {"prompt", "over"}

=============================================================================
