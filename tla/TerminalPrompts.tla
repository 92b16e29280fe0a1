---------------------------- MODULE TerminalPrompts ----------------------------
(***************************************************************************)
(* Who reads the terminal of the command line client, and who waits for a  *)
(* response: client/cli/app with the prompts of permission requests, and   *)
(* client/transport.                                                       *)
(*                                                                         *)
(* The prompt of the program and that of each permission request read the  *)
(* terminal in a thread of their own; the next line goes to any of them.   *)
(* All send their requests over one connection.  The server and the other  *)
(* clients of the session are modelled by what they let the client see.    *)
(* The connection stays, and ends are told: otherwise see ClientWait.      *)
(***************************************************************************)
EXTENDS Naturals, Sequences, FiniteSets

CONSTANTS Main,      \* the coroutine of CLIApp.run
          Asks,      \* permission requests; also the coroutines that answer them
          None,      \* no answer yet
          MaxLines   \* bound on the lines typed

ASSUME PromptsAssumption ==
    /\ Main \notin Asks
    /\ MaxLines \in Nat

VARIABLES
  running,   \* the run of the session that is running: of this client or another
  request,   \* of each permission request at the server
  wire,      \* requests under way to the server
  inbox,     \* messages under way to the client
  place,     \* where each coroutine is
  requestId, \* ClientConnection._request_id
  id,        \* the request each coroutine waits for
  answer,    \* the response it was given
  ended,     \* is the wait for the end of the last chat over?
  warned,    \* history: was it given up, while the run went on?
  typed      \* number of lines typed

serverVars == <<running, request, wire>>
vars == <<serverVars, inbox, place, requestId, id, answer, ended, warned, typed>>

Coroutines == Asks \cup {Main}

Places == {"none", "input", "draining", "waiting", "watching", "done"}

Ids == 1..MaxLines + 1

Lines == {"/ping", "/help", "/quit", "text", "y", "n", "eof"}

Methods == {"chat", "ping", "allow", "deny"}

Requests == [id : Ids, from : Coroutines, method : Methods]

Responses == [kind : {"response"}, id : Ids, to : Coroutines,
              verdict : {"accepted", "result", "error"}]

ASSUME NoneAssumption == None \notin Responses

Notices == [kind : {"asked"}, ask : Asks] \cup [kind : {"end"}]

TypeOK ==
    /\ running \in {"none", "own", "foreign"}
    /\ request \in [Asks -> {"none", "open", "closed"}]
    /\ wire \in Seq(Requests)
    /\ inbox \in Seq(Responses \cup Notices)
    /\ place \in [Coroutines -> Places]
    /\ requestId \in Ids
    /\ id \in [Coroutines -> Ids]
    /\ answer \in [Coroutines -> Responses \cup {None}]
    /\ ended \in BOOLEAN /\ warned \in BOOLEAN
    /\ typed \in 0..MaxLines

(* The client has subscribed, with its first request. *)
Init ==
    /\ running = "none"
    /\ request = [q \in Asks |-> "none"]
    /\ wire = <<>> /\ inbox = <<>>
    /\ place = [k \in Coroutines |-> IF k = Main THEN "input" ELSE "none"]
    /\ requestId = 1
    /\ id = [k \in Coroutines |-> 1]
    /\ answer = [k \in Coroutines |-> None]
    /\ ended = FALSE /\ warned = FALSE
    /\ typed = 0

-----------------------------------------------------------------------------
(* The server *)

Connected == place[Main] # "done"

Tell(message) == inbox' = Append(inbox, message)

NothingOpen == \A q \in Asks : request[q] # "open"

(* Another client of the session starts a chat. *)
ForeignChat ==
    /\ Connected
    /\ running = "none"
    /\ running' = "foreign"
    /\ UNCHANGED <<request, wire, inbox, place, requestId, id, answer, ended, warned, typed>>

(* A tool call of the run needs permission; calls come one at a time. *)
Ask(q) ==
    /\ Connected
    /\ running # "none" /\ request[q] = "none" /\ NothingOpen
    /\ request' = [request EXCEPT ![q] = "open"]
    /\ Tell([kind |-> "asked", ask |-> q])
    /\ UNCHANGED <<running, wire, place, requestId, id, answer, ended, warned, typed>>

(* The timeout, or an answer of another client. *)
Close(q) ==
    /\ Connected
    /\ request[q] = "open"
    /\ request' = [request EXCEPT ![q] = "closed"]
    /\ UNCHANGED <<running, wire, inbox, place, requestId, id, answer, ended, warned, typed>>

(* A run is settled and its end is told in one step; the next chat may be  *)
(* accepted between the two, but the client tells runs apart by run_id.    *)
(* It ignores the end of a run that is not its own.                        *)
RunEnds ==
    /\ Connected
    /\ running # "none" /\ NothingOpen
    /\ running' = "none"
    /\ IF running = "own" THEN Tell([kind |-> "end"]) ELSE UNCHANGED inbox
    /\ UNCHANGED <<request, wire, place, requestId, id, answer, ended, warned, typed>>

(* A line reaches the server when the transport has written it, and by     *)
(* then the drain() of its sender has returned.                            *)
Arrived == wire # <<>> /\ place[Head(wire).from] # "draining"

Respond(verdict) ==
    Tell([kind |-> "response", id |-> Head(wire).id, to |-> Head(wire).from,
          verdict |-> verdict])

(* The next line is handled: a chat is accepted unless the session is      *)
(* busy, and an answer counts while its request is open.                   *)
Serve ==
    /\ Connected
    /\ Arrived
    /\ wire' = Tail(wire)
    /\ LET method == Head(wire).method
           from   == Head(wire).from
       IN  \/ /\ method = "ping"
              /\ Respond("result")
              /\ UNCHANGED <<running, request, warned>>
           \/ /\ method = "chat" /\ running = "none"
              /\ running' = "own" /\ warned' = FALSE
              /\ Respond("accepted")
              /\ UNCHANGED request
           \/ /\ method = "chat" /\ running # "none"
              /\ Respond("error")
              /\ UNCHANGED <<running, request, warned>>
           \/ /\ method \in {"allow", "deny"}
              /\ Respond(IF request[from] = "open" THEN "result" ELSE "error")
              /\ request' = [request EXCEPT ![from] = "closed"]
              /\ UNCHANGED <<running, warned>>
    /\ UNCHANGED <<place, requestId, id, answer, ended, typed>>

-----------------------------------------------------------------------------
(* The read loop *)

(* The read loop is at readline: its handlers wait for nobody. *)
Readable == inbox # <<>>

Read ==
    /\ Connected
    /\ Readable
    /\ inbox' = Tail(inbox)

(* _dispatch_response looks the request up by its id. *)
ReadResponse ==
    /\ Read
    /\ Head(inbox).kind = "response"
    /\ answer' = [k \in Coroutines |->
                     IF place[k] = "waiting" /\ id[k] = Head(inbox).id /\ answer[k] = None
                     THEN Head(inbox) ELSE answer[k]]
    /\ UNCHANGED <<serverVars, place, requestId, id, ended, warned, typed>>

(* _handle_permission_requested: a coroutine of its own prompts for y or n. *)
ReadAsked ==
    /\ Read
    /\ Head(inbox).kind = "asked"
    /\ place' = [place EXCEPT ![Head(inbox).ask] = "input"]
    /\ UNCHANGED <<serverVars, requestId, id, answer, ended, warned, typed>>

(* chat.completed or chat.failed of a chat of this client.  That of an     *)
(* earlier chat, read before the present one is accepted, does not count.  *)
ReadEnd ==
    /\ Read
    /\ Head(inbox).kind = "end"
    /\ ended' = (ended \/ answer[Main] # None)
    /\ UNCHANGED <<serverVars, place, requestId, id, answer, warned, typed>>

-----------------------------------------------------------------------------
(* The terminal *)

(* send_request, up to drain(). *)
Send(k, method) ==
    /\ requestId' = requestId + 1
    /\ id' = [id EXCEPT ![k] = requestId + 1]
    /\ wire' = Append(wire, [id |-> requestId + 1, from |-> k, method |-> method])
    /\ answer' = [answer EXCEPT ![k] = None]
    /\ place' = [place EXCEPT ![k] = "draining"]

(* Mutation: the event of the last chat is not cleared. *)
ResetNothing == UNCHANGED ended

(* _send_chat forgets what became of the last chat. *)
Reset == ended' = FALSE

(* The end of the program ends every coroutine. *)
Leave == place' = [k \in Coroutines |-> "done"]

(* The prompt takes a line: _process_line. *)
TakenByMain(line) ==
    /\ place[Main] = "input"
    /\ \/ /\ line \in {"/quit", "eof"}
          /\ Leave
          /\ UNCHANGED <<wire, requestId, id, answer, ended>>
       \/ /\ line = "/help"
          /\ UNCHANGED <<wire, place, requestId, id, answer, ended>>
       \/ /\ line = "/ping"
          /\ Send(Main, "ping")
          /\ UNCHANGED ended
       \/ /\ line \in {"text", "y", "n"}
          /\ Send(Main, "chat")
          /\ Reset

(* The prompt of a permission request takes a line, and asks again unless  *)
(* it is an answer.                                                        *)
TakenByAsk(q, line) ==
    /\ place[q] = "input"
    /\ \/ line = "y" /\ Send(q, "allow")
       \/ line \in {"n", "eof"} /\ Send(q, "deny")
       \/ /\ line \in {"text", "/ping", "/help", "/quit"}
          /\ UNCHANGED <<wire, place, requestId, id, answer>>
    /\ UNCHANGED ended

TypeLine ==
    /\ Connected
    /\ typed < MaxLines
    /\ typed' = typed + 1
    /\ \E line \in Lines : TakenByMain(line) \/ \E q \in Asks : TakenByAsk(q, line)
    /\ UNCHANGED <<running, request, inbox, warned>>

(* Mutation: the id is read from the connection again after drain(). *)
DrainedLate(k) ==
    /\ place[k] = "draining"
    /\ place' = [place EXCEPT ![k] = "waiting"]
    /\ id' = [id EXCEPT ![k] = requestId]
    /\ UNCHANGED <<serverVars, inbox, requestId, answer, ended, warned, typed>>

(* drain() returns: wait_for_response *)
Drained(k) ==
    /\ place[k] = "draining"
    /\ place' = [place EXCEPT ![k] = "waiting"]
    /\ UNCHANGED <<serverVars, inbox, requestId, id, answer, ended, warned, typed>>

(* The response is there.  The prompt waits for the end of a chat that was *)
(* accepted, and is back otherwise.                                        *)
Answered(k) ==
    /\ place[k] = "waiting"
    /\ answer[k] # None
    /\ place' = [place EXCEPT ![k] = IF k # Main THEN "done"
                                     ELSE IF answer[k].verdict = "accepted" THEN "watching"
                                     ELSE "input"]
    /\ UNCHANGED <<serverVars, inbox, requestId, id, answer, ended, warned, typed>>

(* The end of _wait_for_completion. *)
WaitOver ==
    /\ place[Main] = "watching"
    /\ ended
    /\ place' = [place EXCEPT ![Main] = "input"]
    /\ UNCHANGED <<serverVars, inbox, requestId, id, answer, ended, warned, typed>>

(* Nothing is heard for three heartbeats: _watch_connection. *)
Watchdog ==
    /\ place[Main] = "watching"
    /\ ~ended
    /\ ended' = TRUE /\ warned' = TRUE
    /\ UNCHANGED <<serverVars, inbox, place, requestId, id, answer, typed>>

(* No response in time: the program ends, or an answer is given up. *)
TimesOut(k) ==
    /\ place[k] = "waiting"
    /\ answer[k] = None
    /\ IF k = Main THEN Leave ELSE place' = [place EXCEPT ![k] = "done"]
    /\ UNCHANGED <<serverVars, inbox, requestId, id, answer, ended, warned, typed>>

-----------------------------------------------------------------------------
ReadLoop == ReadResponse \/ ReadAsked \/ ReadEnd

Continue(k) == Drained(k) \/ Answered(k) \/ (k = Main /\ WaitOver)

Next ==
    \/ ForeignChat \/ RunEnds \/ Serve
    \/ \E q \in Asks : Ask(q) \/ Close(q)
    \/ ReadLoop
    \/ TypeLine
    \/ Watchdog
    \/ \E k \in Coroutines : Continue(k) \/ TimesOut(k)

Spec == Init /\ [][Next]_vars

(* The event loops of client and server go on.  Runs need not ask or end,  *)
(* and the user need not type.                                             *)
Fairness ==
    /\ WF_vars(ReadLoop)
    /\ WF_vars(Serve)
    /\ \A k \in Coroutines : WF_vars(Continue(k))

FairSpec == Spec /\ Fairness

-----------------------------------------------------------------------------
(* Properties *)

(* Whoever sends a request gets the response to this very request, or      *)
(* gives it up: even while others send, and without the user having to     *)
(* answer the prompt of a permission request.                              *)
EveryRequestReturns ==
    \A k \in Coroutines :
        place[k] = "draining" ~> /\ place[k] \notin {"draining", "waiting"}
                                 /\ answer[k] # None => answer[k].to = k

(* A coroutine is never given the response to the request of another one. *)
AnswerIsOwn == \A k \in Coroutines : answer[k] # None => answer[k].to = k

(* While a run of this client waits for an answer, the prompt of the       *)
(* request is the only reader of the terminal, so that the answer cannot   *)
(* be sent as a chat - unless the client has given up waiting for the run. *)
(* Prompts whose request expired, or is of a run of another client, do     *)
(* compete with the prompt (_collect_permission_decision).                 *)
PromptIsAlone ==
    \A q \in Asks :
        /\ place[q] = "input" /\ request[q] = "open"
        /\ running = "own" /\ ~warned
        => place[Main] # "input"

=============================================================================
