------------------------- MODULE TerminalPromptsProofs -------------------------
(***************************************************************************)
(* Proofs about TerminalPrompts for any number of permission requests and  *)
(* lines.  PromptIsAlone rests on where the chat of the prompt is: while   *)
(* its run goes on and the prompt has not given it up, the prompt waits    *)
(* either for the acceptance, which is under way, or for the end, which is *)
(* not.  The end of an earlier run does not disturb it, since it was told  *)
(* before the acceptance and is therefore read before it.                  *)
(***************************************************************************)
EXTENDS TerminalPrompts, SequenceTheorems, TLAPS

-----------------------------------------------------------------------------
(* The inductive invariant *)

(* Ids are given out in their order, one for each line at most. *)
IdInv ==
    /\ requestId <= typed + 1
    /\ \A k \in Coroutines : id[k] <= requestId
    /\ \A i \in 1..Len(wire) : wire[i].id <= requestId
    /\ \A i \in 1..Len(inbox) : inbox[i].kind = "response" => inbox[i].id <= requestId

(* Only the prompt sends chats, and nobody else has the id it waits for. *)
WireInv ==
    \A i \in 1..Len(wire) :
        /\ wire[i].method = "chat" => wire[i].from = Main
        /\ wire[i].id = id[Main] => wire[i].from = Main

(* A message is a response to the request the prompt waits for. *)
ToPrompt(message) == message.kind = "response" /\ message.id = id[Main]

(* While a request of the prompt is on the wire, it is the only one, it is *)
(* the one the prompt waits for, and nothing was said to it.               *)
PromptInv ==
    \A i \in 1..Len(wire) : wire[i].from = Main =>
        /\ \A j \in 1..Len(wire) : wire[j].from = Main => i = j
        /\ place[Main] \in {"draining", "waiting"}
        /\ wire[i].id = id[Main]
        /\ answer[Main] = None
        /\ \A j \in 1..Len(inbox) : ~ToPrompt(inbox[j])
        /\ wire[i].method = "chat" => ~ended

(* The i-th message is the acceptance of the chat. *)
IsAcceptance(i) ==
    /\ ToPrompt(inbox[i]) /\ inbox[i].verdict = "accepted"
    /\ \A j \in 1..Len(inbox) : /\ ToPrompt(inbox[j]) => i = j
                                /\ j > i => inbox[j].kind # "end"

(* The acceptance is under way, and after it nothing about an end. *)
AcceptanceComes ==
    /\ place[Main] = "waiting" /\ answer[Main] = None
    /\ \A i \in 1..Len(wire) : wire[i].from # Main
    /\ \E i \in 1..Len(inbox) : IsAcceptance(i)

(* The acceptance was read, and no end is under way. *)
EndAwaited ==
    /\ place[Main] \in {"waiting", "watching"}
    /\ answer[Main] # None /\ answer[Main].verdict = "accepted"
    /\ \A i \in 1..Len(inbox) : inbox[i].kind # "end"

(* The prompt is with its run until it ends or is given up. *)
RunInv ==
    running = "own" /\ ~warned => ~ended /\ (AcceptanceComes \/ EndAwaited)

(* An id that a coroutine waits for is the id of its own request, and of    *)
(* the response to it.                                                     *)
OwnInv ==
    /\ \A k \in Coroutines, i \in 1..Len(wire) : wire[i].id = id[k] => wire[i].from = k
    /\ \A k \in Coroutines, i \in 1..Len(inbox) :
           inbox[i].kind = "response" /\ inbox[i].id = id[k] => inbox[i].to = k
    /\ AnswerIsOwn

Inv == TypeOK /\ OwnInv /\ (Connected => IdInv /\ WireInv /\ PromptInv /\ RunInv)

-----------------------------------------------------------------------------
(* Type correctness *)

LEMMA AppendIs ==
  ASSUME NEW S, NEW s \in Seq(S), NEW e \in S
  PROVE  /\ Append(s, e) \in Seq(S) /\ Append(s, e) # <<>>
         /\ Len(Append(s, e)) = Len(s) + 1
         /\ \A i \in 1..Len(s) : Append(s, e)[i] = s[i]
         /\ Append(s, e)[Len(s) + 1] = e
  OBVIOUS

LEMMA TailIs ==
  ASSUME NEW S, NEW s \in Seq(S), s # <<>>
  PROVE  /\ Tail(s) \in Seq(S) /\ Head(s) \in S /\ Head(s) = s[1]
         /\ Len(s) \in Nat \ {0} /\ Len(Tail(s)) = Len(s) - 1
         /\ \A i \in 1..Len(Tail(s)) : Tail(s)[i] = s[i + 1] /\ i + 1 \in 1..Len(s)
  OBVIOUS

(* A message is appended to those under way to the client. *)
LEMMA TellType ==
  ASSUME TypeOK, NEW message \in Responses \cup Notices, Tell(message)
  PROVE  inbox' \in Seq(Responses \cup Notices)
  BY AppendIs DEF TypeOK, Tell

LEMMA ServeType == TypeOK /\ Serve => TypeOK'
<1> SUFFICES ASSUME TypeOK, Serve PROVE TypeOK'
  OBVIOUS
<1>1. Head(wire) \in Requests /\ wire' \in Seq(Requests)
  BY TailIs DEF TypeOK, Serve, Arrived
<1>2. \A v \in {"accepted", "result", "error"} :
          [kind |-> "response", id |-> Head(wire).id, to |-> Head(wire).from,
           verdict |-> v] \in Responses
  BY <1>1 DEF Requests, Responses
<1>3. inbox' \in Seq(Responses \cup Notices)
  <2>1. PICK v \in {"accepted", "result", "error"} : Respond(v)
    BY DEF Serve
  <2> QED
    BY <1>2, <2>1, TellType DEF Respond
<1>4. running' \in {"none", "own", "foreign"} /\ request' \in [Asks -> {"none", "open", "closed"}]
      /\ warned' \in BOOLEAN
  BY DEF Serve, TypeOK
<1> QED
  BY <1>1, <1>3, <1>4 DEF Serve, TypeOK

(* send_request gives out the next id. *)
LEMMA SendType ==
  ASSUME TypeOK, IdInv, typed < MaxLines, NEW k \in Coroutines, NEW method \in Methods,
         Send(k, method)
  PROVE  /\ requestId' \in Ids /\ wire' \in Seq(Requests)
         /\ id' \in [Coroutines -> Ids] /\ place' \in [Coroutines -> Places]
         /\ answer' \in [Coroutines -> Responses \cup {None}]
<1>1. requestId + 1 \in Ids
  BY PromptsAssumption DEF TypeOK, IdInv, Ids
<1>2. [id |-> requestId + 1, from |-> k, method |-> method] \in Requests
  BY <1>1 DEF Requests
<1> QED
  BY <1>1, <1>2, AppendIs DEF Send, TypeOK, Places

(* Every step keeps the types; that the ids do not run out is part of the  *)
(* invariant.                                                              *)
LEMMA TypeStep ==
  ASSUME TypeOK, Connected => IdInv, [Next]_vars
  PROVE  TypeOK'
<1>1. CASE ForeignChat \/ Watchdog
  BY <1>1 DEF ForeignChat, Watchdog, TypeOK, serverVars
<1>2. CASE RunEnds
  <2>1. [kind |-> "end"] \in Responses \cup Notices
    BY DEF Notices
  <2> QED
    BY <1>2, <2>1, TellType DEF RunEnds, TypeOK
<1>3. CASE Serve
  BY <1>3, ServeType
<1>4. ASSUME NEW q \in Asks, Ask(q) PROVE TypeOK'
  <2>1. [kind |-> "asked", ask |-> q] \in Responses \cup Notices
    BY DEF Notices
  <2> QED
    BY <1>4, <2>1, TellType DEF Ask, TypeOK
<1>5. ASSUME NEW q \in Asks, Close(q) PROVE TypeOK'
  BY <1>5 DEF Close, TypeOK
<1>6. CASE ReadLoop
  <2>1. /\ inbox' \in Seq(Responses \cup Notices)
        /\ Head(inbox) \in Responses \cup Notices
    <3>1. inbox # <<>> /\ inbox' = Tail(inbox)
      BY <1>6 DEF ReadLoop, ReadResponse, ReadAsked, ReadEnd, Read, Readable
    <3>2. inbox \in Seq(Responses \cup Notices)
      BY DEF TypeOK
    <3> QED
      BY <3>1, <3>2, TailIs
  <2>2. CASE ReadResponse
    <3>1. Head(inbox) \in Responses
      BY <2>1, <2>2 DEF ReadResponse, Notices
    <3> QED
      BY <2>1, <2>2, <3>1 DEF ReadResponse, TypeOK, serverVars
  <2>3. CASE ReadAsked
    BY <2>1, <2>3 DEF ReadAsked, TypeOK, serverVars, Places
  <2>4. CASE ReadEnd
    BY <2>1, <2>4 DEF ReadEnd, TypeOK, serverVars
  <2> QED
    BY <1>6, <2>2, <2>3, <2>4 DEF ReadLoop
<1>7. CASE TypeLine
  <2>1. /\ IdInv /\ typed < MaxLines /\ typed' \in 0..MaxLines
        /\ UNCHANGED <<running, request, inbox, warned>>
    BY <1>7, PromptsAssumption DEF TypeLine, TypeOK
  <2>2. PICK line \in Lines : TakenByMain(line) \/ \E q \in Asks : TakenByAsk(q, line)
    BY <1>7 DEF TypeLine
  <2>3. ended' \in BOOLEAN
    BY <2>2 DEF TakenByMain, TakenByAsk, Reset, TypeOK
  <2>4. CASE \E k \in Coroutines, method \in Methods : Send(k, method)
    BY <2>1, <2>3, <2>4, SendType DEF TypeOK
  <2>5. CASE Leave /\ UNCHANGED <<wire, requestId, id, answer>>
    BY <2>1, <2>3, <2>5 DEF Leave, TypeOK, Places
  <2>6. CASE UNCHANGED <<wire, place, requestId, id, answer>>
    BY <2>1, <2>3, <2>6 DEF TypeOK
  <2> QED
    BY <2>2, <2>4, <2>5, <2>6 DEF TakenByMain, TakenByAsk, Coroutines, Methods
<1>8. ASSUME NEW k \in Coroutines, Continue(k) \/ TimesOut(k) PROVE TypeOK'
  <2>1. place' \in [Coroutines -> Places]
    BY <1>8 DEF Continue, Drained, Answered, WaitOver, TimesOut, Leave, TypeOK, Places
  <2> QED
    BY <1>8, <2>1 DEF Continue, Drained, Answered, WaitOver, TimesOut, TypeOK, serverVars
<1>9. CASE UNCHANGED vars
  BY <1>9 DEF vars, serverVars, TypeOK
<1> QED
  BY <1>1, <1>2, <1>3, <1>4, <1>5, <1>6, <1>7, <1>8, <1>9 DEF Next

-----------------------------------------------------------------------------
(* The steps of the invariant *)

(* What holds of the messages while the client is there. *)
Inner == IdInv /\ WireInv /\ PromptInv /\ RunInv

(* A notice to the client: an end, after which no run of it is running, or *)
(* a request for a permission.                                             *)
LEMMA NoticeStep ==
  ASSUME TypeOK, Inner, NEW message \in Notices, Tell(message),
         UNCHANGED <<wire, place, requestId, id, answer, ended, warned, typed>>,
         running' = "own" => running = "own" /\ message.kind # "end"
  PROVE  Inner'
<1>1. /\ Len(inbox') = Len(inbox) + 1 /\ Len(inbox) \in Nat
      /\ \A i \in 1..Len(inbox) : inbox'[i] = inbox[i]
      /\ inbox'[Len(inbox) + 1] = message
  BY AppendIs DEF Tell, TypeOK
<1>2. message.kind # "response"
  BY DEF Notices
<1>3. \A i \in 1..Len(inbox') : IF i = Len(inbox) + 1 THEN inbox'[i] = message
                                                      ELSE i \in 1..Len(inbox) /\ inbox'[i] = inbox[i]
  BY <1>1
<1>4. IdInv' /\ WireInv'
  BY <1>2, <1>3 DEF Inner, IdInv, WireInv
<1>5. PromptInv'
  BY <1>2, <1>3 DEF Inner, PromptInv, ToPrompt
<1>6. RunInv'
  <2> SUFFICES ASSUME running' = "own", ~warned
               PROVE  ~ended /\ (AcceptanceComes' \/ EndAwaited')
    BY DEF RunInv
  <2>1. ~ended /\ (AcceptanceComes \/ EndAwaited) /\ message.kind # "end"
    BY DEF Inner, RunInv
  <2>2. CASE AcceptanceComes
    <3>1. PICK i \in 1..Len(inbox) : IsAcceptance(i)
      BY <2>2 DEF AcceptanceComes
    <3>2. i \in 1..Len(inbox') /\ IsAcceptance(i)'
      BY <1>1, <1>2, <1>3, <2>1, <3>1 DEF IsAcceptance, ToPrompt
    <3> QED
      BY <2>1, <2>2, <3>2 DEF AcceptanceComes
  <2>3. CASE EndAwaited
    BY <1>3, <2>1, <2>3 DEF EndAwaited
  <2> QED
    BY <2>1, <2>2, <2>3
<1> QED
  BY <1>4, <1>5, <1>6 DEF Inner

(* The server handles the next line. *)
LEMMA ServeStep == TypeOK /\ Inner /\ Serve => Inner'
<1> SUFFICES ASSUME TypeOK, Inner, Serve PROVE Inner'
  OBVIOUS
<1> DEFINE h == Head(wire)
           response(v) == [kind |-> "response", id |-> h.id, to |-> h.from, verdict |-> v]
<1>1. /\ h = wire[1] /\ h \in Requests /\ place[h.from] # "draining" /\ Connected
      /\ Len(wire) \in Nat \ {0} /\ Len(wire') = Len(wire) - 1
      /\ \A i \in 1..Len(wire') : wire'[i] = wire[i + 1] /\ i + 1 \in 1..Len(wire)
  BY TailIs DEF Serve, Arrived, TypeOK
<1>2. UNCHANGED <<place, requestId, id, answer, ended, typed>>
  BY DEF Serve
<1>3. PICK v \in {"accepted", "result", "error"} :
          /\ Tell(response(v))
          /\ \/ v = "accepted" /\ h.method = "chat" /\ running = "none"
                 /\ running' = "own" /\ warned' = FALSE
             \/ v # "accepted" /\ UNCHANGED <<running, warned>>
  BY DEF Serve, Respond
<1>4. response(v) \in Responses
  BY <1>1 DEF Requests, Responses
<1>5. /\ Len(inbox') = Len(inbox) + 1 /\ Len(inbox) \in Nat
      /\ \A i \in 1..Len(inbox) : inbox'[i] = inbox[i]
      /\ inbox'[Len(inbox) + 1] = response(v)
  BY <1>3, <1>4, AppendIs DEF Tell, TypeOK
<1>6. \A i \in 1..Len(inbox') : IF i = Len(inbox) + 1 THEN inbox'[i] = response(v)
                                                      ELSE i \in 1..Len(inbox) /\ inbox'[i] = inbox[i]
  BY <1>5
<1>7. IdInv' /\ WireInv'
  <2>1. h.id <= requestId
    BY <1>1 DEF Inner, IdInv
  <2>2. \A i \in 1..Len(inbox') : inbox'[i].kind = "response" => inbox'[i].id <= requestId'
    BY <1>2, <1>6, <2>1 DEF Inner, IdInv
  <2>3. WireInv' /\ \A i \in 1..Len(wire') : wire'[i].id <= requestId'
    BY <1>1, <1>2 DEF Inner, IdInv, WireInv
  <2> QED
    BY <1>2, <2>2, <2>3 DEF Inner, IdInv
<1>8. h.id = id[Main] <=> h.from = Main
  BY <1>1 DEF Inner, WireInv, PromptInv
<1>9. h.from = Main => \A i \in 1..Len(wire') : wire'[i].from # Main
  BY <1>1 DEF Inner, PromptInv
<1>10. PromptInv'
  <2> SUFFICES ASSUME NEW i \in 1..Len(wire'), wire'[i].from = Main
               PROVE  /\ \A j \in 1..Len(wire') : wire'[j].from = Main => i = j
                      /\ place'[Main] \in {"draining", "waiting"}
                      /\ wire'[i].id = id'[Main]
                      /\ answer'[Main] = None
                      /\ \A j \in 1..Len(inbox') : ~ToPrompt(inbox[j])'
                      /\ wire'[i].method = "chat" => ~ended'
    BY DEF PromptInv
  <2>1. h.from # Main /\ h.id # id[Main]
    BY <1>8, <1>9
  <2>2. \A j \in 1..Len(inbox') : ~ToPrompt(inbox[j])'
    <3>1. \A j \in 1..Len(inbox) : ~ToPrompt(inbox[j])
      BY <1>1 DEF Inner, PromptInv
    <3> QED
      BY <1>2, <1>6, <2>1, <3>1 DEF ToPrompt
  <2> QED
    BY <1>1, <1>2, <2>2 DEF Inner, PromptInv
<1>11. RunInv'
  <2> SUFFICES ASSUME running' = "own", ~warned'
               PROVE  ~ended' /\ (AcceptanceComes' \/ EndAwaited')
    BY DEF RunInv
  <2>1. CASE v = "accepted"
    <3>1. h.from = Main /\ h.method = "chat"
      BY <1>1, <1>3, <2>1 DEF Inner, WireInv
    <3>2. /\ place[Main] = "waiting" /\ answer[Main] = None /\ ~ended
          /\ \A j \in 1..Len(inbox) : ~ToPrompt(inbox[j])
      BY <1>1, <3>1 DEF Inner, PromptInv
    <3>3. PICK l \in 1..Len(inbox') : l = Len(inbox) + 1
      BY <1>5
    <3>4. IsAcceptance(l)'
      <4>1. inbox'[l] = response(v) /\ \A j \in 1..Len(inbox') : ~(j > l)
        BY <1>5, <3>3
      <4>2. \A j \in 1..Len(inbox') : ToPrompt(inbox[j])' => l = j
        BY <1>2, <1>6, <3>2, <3>3 DEF ToPrompt
      <4>3. response(v).kind = "response" /\ response(v).id = id'[Main]
            /\ response(v).verdict = "accepted"
        BY <1>2, <1>8, <2>1, <3>1
      <4> QED
        BY <4>1, <4>2, <4>3 DEF IsAcceptance, ToPrompt
    <3> QED
      BY <1>2, <1>9, <3>1, <3>2, <3>3, <3>4 DEF AcceptanceComes
  <2>2. CASE v # "accepted"
    <3>1. ~ended /\ (AcceptanceComes \/ EndAwaited)
      BY <1>3, <2>2 DEF Inner, RunInv
    <3>2. h.from # Main /\ h.id # id[Main]
      BY <1>1, <1>8, <3>1 DEF AcceptanceComes, EndAwaited, Inner, PromptInv
    <3>3. CASE AcceptanceComes
      <4>1. PICK i \in 1..Len(inbox) : IsAcceptance(i)
        BY <3>3 DEF AcceptanceComes
      <4>2. i \in 1..Len(inbox') /\ IsAcceptance(i)'
        BY <1>2, <1>5, <1>6, <3>2, <4>1 DEF ToPrompt, IsAcceptance
      <4>3. \A j \in 1..Len(wire') : wire'[j].from # Main
        BY <1>1, <3>3 DEF AcceptanceComes
      <4> QED
        BY <1>2, <3>1, <3>3, <4>2, <4>3 DEF AcceptanceComes
    <3>4. CASE EndAwaited
      BY <1>2, <1>6, <3>1, <3>4 DEF EndAwaited
    <3> QED
      BY <1>2, <3>1, <3>3, <3>4
  <2> QED
    BY <2>1, <2>2
<1> QED
  BY <1>7, <1>10, <1>11 DEF Inner

(* The read loop takes the first message.                                  *)
LEMMA ReadStep == TypeOK /\ Inner /\ ReadLoop => Inner'
<1> SUFFICES ASSUME TypeOK, Inner, ReadLoop PROVE Inner'
  OBVIOUS
<1> DEFINE m == Head(inbox)
<1>1. /\ inbox # <<>> /\ inbox' = Tail(inbox) /\ Connected
      /\ UNCHANGED <<running, wire, requestId, id, warned, typed>>
  BY DEF ReadLoop, ReadResponse, ReadAsked, ReadEnd, Read, Readable, serverVars
<1>2. inbox \in Seq(Responses \cup Notices)
  BY DEF TypeOK
<1>3. /\ m = inbox[1] /\ m \in Responses \cup Notices
      /\ Len(inbox) \in Nat \ {0} /\ Len(inbox') = Len(inbox) - 1
      /\ \A i \in 1..Len(inbox') : inbox'[i] = inbox[i + 1] /\ i + 1 \in 1..Len(inbox)
  BY <1>1, <1>2, TailIs
<1>4. /\ place'[Main] = place[Main]
      /\ m.kind # "end" => ended' = ended
      /\ answer[Main] = None => ended' = ended
      /\ answer'[Main] = IF ToPrompt(m) /\ place[Main] = "waiting" /\ answer[Main] = None
                         THEN m ELSE answer[Main]
  <2>1. Main \in Coroutines /\ answer \in [Coroutines -> Responses \cup {None}]
    BY DEF TypeOK, Coroutines
  <2>2. CASE ReadResponse
    BY <2>1, <2>2 DEF ReadResponse, ToPrompt
  <2>3. CASE ReadAsked
    <3>1. m.ask \in Asks
      BY <1>3, <2>3 DEF ReadAsked, Notices, Responses
    <3> QED
      BY <2>3, <3>1, PromptsAssumption DEF ReadAsked, ToPrompt, TypeOK
  <2>4. CASE ReadEnd
    BY <2>4 DEF ReadEnd, ToPrompt, TypeOK
  <2> QED
    BY <2>2, <2>3, <2>4 DEF ReadLoop
<1>5. IdInv' /\ WireInv'
  BY <1>1, <1>3 DEF Inner, IdInv, WireInv
<1>6. PromptInv'
  <2> SUFFICES ASSUME NEW i \in 1..Len(wire), wire[i].from = Main
               PROVE  /\ \A j \in 1..Len(wire) : wire[j].from = Main => i = j
                      /\ place'[Main] \in {"draining", "waiting"}
                      /\ wire[i].id = id[Main]
                      /\ answer'[Main] = None
                      /\ \A j \in 1..Len(inbox') : ~ToPrompt(inbox'[j])
                      /\ wire[i].method = "chat" => ~ended'
    BY <1>1 DEF PromptInv, ToPrompt
  <2>1. /\ \A j \in 1..Len(inbox) : ~ToPrompt(inbox[j])
        /\ \A j \in 1..Len(wire) : wire[j].from = Main => i = j
        /\ place[Main] \in {"draining", "waiting"} /\ wire[i].id = id[Main]
        /\ answer[Main] = None /\ (wire[i].method = "chat" => ~ended)
    BY DEF Inner, PromptInv
  <2>2. ~ToPrompt(m) /\ \A j \in 1..Len(inbox') : ~ToPrompt(inbox'[j])
    BY <1>3, <2>1
  <2>3. answer'[Main] = None /\ ended' = ended
    BY <1>4, <2>1, <2>2
  <2> QED
    BY <1>4, <2>1, <2>2, <2>3
<1>7. RunInv'
  <2> SUFFICES ASSUME running = "own", ~warned
               PROVE  ~ended' /\ (AcceptanceComes' \/ EndAwaited')
    BY <1>1 DEF RunInv
  <2>1. ~ended /\ (AcceptanceComes \/ EndAwaited)
    BY DEF Inner, RunInv
  <2>2. CASE EndAwaited
    <3>1. m.kind # "end" /\ \A i \in 1..Len(inbox') : inbox'[i].kind # "end"
      BY <1>3, <2>2 DEF EndAwaited
    <3> QED
      BY <1>4, <2>1, <2>2, <3>1 DEF EndAwaited
  <2>3. CASE AcceptanceComes
    <3>1. PICK i \in 1..Len(inbox) : IsAcceptance(i)
      BY <2>3 DEF AcceptanceComes
    <3>2. ~ended'
      BY <1>4, <2>1, <2>3 DEF AcceptanceComes
    <3>3. CASE i = 1
      <4>1. ToPrompt(m) /\ m.verdict = "accepted"
            /\ \A j \in 1..Len(inbox') : inbox'[j].kind # "end"
        BY <1>3, <3>1, <3>3 DEF IsAcceptance
      <4>2. m # None
        BY <1>3, <4>1, NoneAssumption DEF ToPrompt, Notices
      <4> QED
        BY <1>4, <2>3, <3>2, <4>1, <4>2 DEF AcceptanceComes, EndAwaited
    <3>4. CASE i # 1
      <4>1. ~ToPrompt(m)
        BY <1>3, <3>1, <3>4 DEF IsAcceptance
      <4>2. PICK l \in 1..Len(inbox') : l = i - 1
        BY <1>3, <3>4
      <4>3. IsAcceptance(l)'
        BY <1>1, <1>3, <3>1, <4>2 DEF IsAcceptance, ToPrompt
      <4> QED
        BY <1>1, <1>4, <2>3, <3>2, <4>1, <4>3 DEF AcceptanceComes
    <3> QED
      BY <3>3, <3>4
  <2> QED
    BY <2>1, <2>2, <2>3
<1> QED
  BY <1>5, <1>6, <1>7 DEF Inner

(* send_request: the id is new, and it is the only one of its sender. *)
LEMMA SendStep ==
  ASSUME TypeOK, Inner, NEW k \in Coroutines, NEW method \in Methods, Send(k, method),
         place[k] = "input", method = "chat" => k = Main, typed < MaxLines,
         ended' = (ended /\ method # "chat"), typed' = typed + 1,
         UNCHANGED <<running, inbox, warned>>
  PROVE  Inner'
<1> DEFINE r == [id |-> requestId + 1, from |-> k, method |-> method]
           n == Len(wire) + 1
<1>1. r \in Requests
  <2>1. requestId + 1 \in Ids
    BY PromptsAssumption DEF TypeOK, Inner, IdInv, Ids
  <2> QED
    BY <2>1 DEF Requests
<1>2. /\ Len(wire) \in Nat /\ Len(wire') = n /\ wire'[n] = r
      /\ \A i \in 1..Len(wire) : wire'[i] = wire[i]
  BY <1>1, AppendIs DEF Send, TypeOK
<1>3. \A i \in 1..Len(wire') : IF i = n THEN wire'[i] = r
                                        ELSE i \in 1..Len(wire) /\ wire'[i] = wire[i]
  BY <1>2
<1>4. /\ requestId' = requestId + 1 /\ requestId \in Nat /\ typed \in Nat
      /\ Main \in Coroutines
      /\ \A c \in Coroutines : id[c] \in Nat /\ id[c] <= requestId
      /\ \A c \in Coroutines : id'[c] = IF c = k THEN requestId + 1 ELSE id[c]
  BY PromptsAssumption DEF TypeOK, Inner, IdInv, Send, Ids, Coroutines
<1>5. \A i \in 1..Len(wire) : wire[i].id \in Nat /\ wire[i].id <= requestId
  <2>1. \A i \in 1..Len(wire) : wire[i] \in Requests
    BY DEF TypeOK
  <2> QED
    BY <2>1 DEF Inner, IdInv, Requests, Ids
<1>9. \A i \in 1..Len(inbox) : inbox[i].kind = "response" =>
          inbox[i].id \in Nat /\ inbox[i].id <= requestId
  <2>1. \A i \in 1..Len(inbox) : inbox[i] \in Responses \cup Notices
    BY DEF TypeOK
  <2> QED
    BY <2>1 DEF Inner, IdInv, Responses, Notices, Ids
<1>6. IdInv'
  <2>1. requestId' <= typed' + 1 /\ \A c \in Coroutines : id'[c] <= requestId'
    BY <1>4 DEF Inner, IdInv
  <2>2. \A i \in 1..Len(wire') : wire'[i].id <= requestId'
    <3>1. requestId + 1 <= requestId' /\ \A i \in 1..Len(wire) : wire[i].id <= requestId'
      BY <1>4, <1>5
    <3> QED
      BY <1>3, <3>1
  <2>3. \A i \in 1..Len(inbox) : inbox[i].kind = "response" => inbox[i].id <= requestId'
    BY <1>4, <1>9
  <2> QED
    BY <2>1, <2>2, <2>3 DEF IdInv
<1>7. CASE k = Main
  <2>1. /\ id'[Main] = requestId + 1 /\ answer'[Main] = None /\ place'[Main] = "draining"
        /\ method = "chat" => ~ended'
    BY <1>4, <1>7 DEF TypeOK, Send
  <2>2. \A i \in 1..Len(wire) : wire[i].from # Main /\ wire[i].id # requestId + 1
    BY <1>4, <1>5, <1>7 DEF Inner, PromptInv
  <2>3. WireInv'
    BY <1>3, <1>7, <2>1, <2>2 DEF Inner, WireInv
  <2>4. \A j \in 1..Len(inbox) : ~ToPrompt(inbox[j])'
    BY <1>4, <1>9, <2>1 DEF ToPrompt
  <2>5. PromptInv'
    BY <1>3, <2>1, <2>2, <2>4 DEF PromptInv
  <2>6. RunInv'
    BY <1>7 DEF Inner, RunInv, AcceptanceComes, EndAwaited
  <2> QED
    BY <1>6, <2>3, <2>5, <2>6 DEF Inner
<1>8. CASE k # Main
  <2>1. /\ id'[Main] = id[Main] /\ answer'[Main] = answer[Main] /\ place'[Main] = place[Main]
        /\ ended' = ended /\ method # "chat"
    BY <1>4, <1>8 DEF TypeOK, Send
  <2>2. WireInv'
    BY <1>3, <1>4, <1>8, <2>1 DEF Inner, WireInv
  <2>3. PromptInv'
    BY <1>3, <1>8, <2>1 DEF Inner, PromptInv, ToPrompt
  <2>4. RunInv'
    BY <1>3, <1>8, <2>1 DEF Inner, RunInv, AcceptanceComes, EndAwaited, IsAcceptance, ToPrompt
  <2> QED
    BY <1>6, <2>2, <2>3, <2>4 DEF Inner
<1> QED
  BY <1>7, <1>8

(* A step in which no message goes or comes. *)
LEMMA SilentStep ==
  ASSUME TypeOK, Inner,
         UNCHANGED <<wire, inbox, requestId, id, answer>>,
         typed' \in {typed, typed + 1},
         running' = "own" /\ ~warned' =>
             /\ running = "own" /\ ~warned /\ ended' = ended
             /\ \/ place'[Main] = place[Main]
                \/ /\ answer[Main] # None /\ answer[Main].verdict = "accepted"
                   /\ place'[Main] = "watching",
         place'[Main] # place[Main] =>
             \/ place[Main] = "draining" /\ place'[Main] = "waiting"
             \/ answer[Main] # None
             \/ place[Main] \notin {"draining", "waiting"},
         ended' # ended => place[Main] \notin {"draining", "waiting"}
  PROVE  Inner'
<1>1. IdInv' /\ WireInv'
  <2>1. requestId \in Nat /\ typed \in Nat
    BY DEF TypeOK, Ids
  <2>2. requestId <= typed + 1 /\ requestId' = requestId /\ (typed' = typed \/ typed' = typed + 1)
    BY DEF Inner, IdInv
  <2>3. requestId' <= typed' + 1
    BY <2>1, <2>2
  <2> QED
    BY <2>3 DEF Inner, IdInv, WireInv
<1>2. PromptInv'
  BY DEF Inner, PromptInv, ToPrompt
<1>3. RunInv'
  BY DEF Inner, RunInv, AcceptanceComes, EndAwaited, IsAcceptance, ToPrompt
<1> QED
  BY <1>1, <1>2, <1>3 DEF Inner

(* While the client is there, every step keeps what holds of the messages  *)
(* or ends the program.                                                    *)
LEMMA InnerStep ==
  ASSUME TypeOK, Inner, [Next]_vars, Connected, Connected'
  PROVE  Inner'
<1>0. Main \in Coroutines /\ Main \notin Asks /\ place \in [Coroutines -> Places]
  BY PromptsAssumption DEF Coroutines, TypeOK
<1>1. CASE ForeignChat
  BY <1>1, SilentStep DEF ForeignChat
<1>2. CASE Watchdog
  BY <1>2, SilentStep DEF Watchdog, serverVars
<1>3. CASE RunEnds
  <2>1. [kind |-> "end"] \in Notices
    BY DEF Notices
  <2>2. CASE running = "own"
    BY <1>3, <2>1, <2>2, NoticeStep DEF RunEnds
  <2>3. CASE running # "own"
    BY <1>3, <2>3, SilentStep DEF RunEnds
  <2> QED
    BY <2>2, <2>3
<1>4. CASE Serve
  BY <1>4, ServeStep
<1>5. ASSUME NEW q \in Asks, Ask(q) PROVE Inner'
  <2>1. [kind |-> "asked", ask |-> q] \in Notices
    BY DEF Notices
  <2> QED
    BY <1>5, <2>1, NoticeStep DEF Ask
<1>6. ASSUME NEW q \in Asks, Close(q) PROVE Inner'
  BY <1>6, SilentStep DEF Close
<1>7. CASE ReadLoop
  BY <1>7, ReadStep
<1>8. CASE TypeLine
  <2>1. /\ typed < MaxLines /\ typed' = typed + 1
        /\ UNCHANGED <<running, request, inbox, warned>>
    BY <1>8 DEF TypeLine
  <2>2. ASSUME NEW line \in Lines, TakenByMain(line) PROVE Inner'
    <3>1. ~Leave
      BY <1>0 DEF Leave, Connected
    <3>2. CASE UNCHANGED <<wire, place, requestId, id, answer, ended>>
      BY <2>1, <3>2, SilentStep
    <3>3. CASE Send(Main, "ping") /\ UNCHANGED ended
      BY <1>0, <2>1, <2>2, <3>3, SendStep DEF TakenByMain, Methods, TypeOK
    <3>4. CASE Send(Main, "chat") /\ Reset
      BY <1>0, <2>1, <2>2, <3>4, SendStep DEF TakenByMain, Methods, TypeOK, Reset
    <3> QED
      BY <2>2, <3>1, <3>2, <3>3, <3>4 DEF TakenByMain
  <2>3. ASSUME NEW q \in Asks, NEW line \in Lines, TakenByAsk(q, line) PROVE Inner'
    <3>1. CASE UNCHANGED <<wire, place, requestId, id, answer, ended>>
      BY <2>1, <3>1, SilentStep
    <3>2. ASSUME NEW method \in {"allow", "deny"}, Send(q, method) PROVE Inner'
      <4>1. q \in Coroutines /\ method \in Methods /\ place[q] = "input" /\ method # "chat"
            /\ ended' = (ended /\ method # "chat")
        BY <2>3 DEF TakenByAsk, Coroutines, Methods, TypeOK
      <4> QED
        BY <2>1, <3>2, <4>1, SendStep
    <3> QED
      BY <2>3, <3>1, <3>2 DEF TakenByAsk
  <2> QED
    BY <1>8, <2>2, <2>3 DEF TypeLine
<1>9. ASSUME NEW k \in Coroutines, Drained(k) PROVE Inner'
  <2>1. /\ UNCHANGED <<running, wire, inbox, requestId, id, answer, ended, warned, typed>>
        /\ k # Main => place'[Main] = place[Main]
        /\ k = Main => place[Main] = "draining" /\ place'[Main] = "waiting"
    BY <1>0, <1>9 DEF Drained, serverVars
  <2>2. running = "own" /\ ~warned => place[Main] # "draining"
    BY DEF Inner, RunInv, AcceptanceComes, EndAwaited
  <2> QED
    BY <2>1, <2>2, SilentStep
<1>10. ASSUME NEW k \in Coroutines, Answered(k) PROVE Inner'
  <2>1. /\ UNCHANGED <<running, wire, inbox, requestId, id, answer, ended, warned, typed>>
        /\ k # Main => place'[Main] = place[Main]
        /\ k = Main => /\ place[Main] = "waiting" /\ answer[Main] # None
                       /\ answer[Main].verdict = "accepted" => place'[Main] = "watching"
    BY <1>0, <1>10 DEF Answered, serverVars
  <2>2. k = Main /\ running = "own" /\ ~warned => answer[Main].verdict = "accepted"
    BY <2>1 DEF Inner, RunInv, AcceptanceComes, EndAwaited
  <2> QED
    BY <2>1, <2>2, SilentStep
<1>11. CASE WaitOver
  <2>1. ~(running = "own" /\ ~warned)
    BY <1>11 DEF WaitOver, Inner, RunInv
  <2> QED
    BY <1>11, <2>1, SilentStep DEF WaitOver, serverVars
<1>12. ASSUME NEW k \in Coroutines, TimesOut(k) PROVE Inner'
  <2>1. k # Main
    BY <1>0, <1>12 DEF TimesOut, Leave, Connected
  <2> QED
    BY <1>0, <1>12, <2>1, SilentStep DEF TimesOut, serverVars
<1>13. CASE UNCHANGED vars
  BY <1>13, SilentStep DEF vars, serverVars
<1> QED
  BY <1>1, <1>2, <1>3, <1>4, <1>5, <1>6, <1>7, <1>8, <1>9, <1>10, <1>11, <1>12, <1>13
     DEF Next, Continue

(* The program ends once. *)
LEMMA EndsOnce == TypeOK /\ [Next]_vars /\ ~Connected => ~Connected'
<1> SUFFICES ASSUME TypeOK, [Next]_vars, place[Main] = "done" PROVE place'[Main] = "done"
  BY DEF Connected
<1>1. Main \in Coroutines /\ place \in [Coroutines -> Places]
  BY DEF Coroutines, TypeOK
<1>2. CASE TypeLine \/ ReadLoop \/ Serve \/ ForeignChat \/ RunEnds
           \/ \E q \in Asks : Ask(q) \/ Close(q)
  BY <1>2 DEF TypeLine, ReadLoop, ReadResponse, ReadAsked, ReadEnd, Read, Serve, ForeignChat,
              RunEnds, Ask, Close, Connected
<1>3. CASE Watchdog
  BY <1>3 DEF Watchdog
<1>4. ASSUME NEW k \in Coroutines, Continue(k) \/ TimesOut(k) PROVE place'[Main] = "done"
  BY <1>1, <1>4 DEF Continue, Drained, Answered, WaitOver, TimesOut, Leave
<1>5. CASE UNCHANGED vars
  BY <1>5 DEF vars
<1> QED
  BY <1>2, <1>3, <1>4, <1>5 DEF Next

(* No step mixes up the requests of two coroutines. *)
LEMMA OwnStep ==
  ASSUME TypeOK, Connected => IdInv, OwnInv, [Next]_vars
  PROVE  OwnInv'
<1>0. wire \in Seq(Requests) /\ inbox \in Seq(Responses \cup Notices)
  BY DEF TypeOK
<1>1. CASE UNCHANGED <<wire, inbox, id, answer>>
  BY <1>1 DEF OwnInv, AnswerIsOwn
<1>2. ASSUME NEW message \in Notices, Tell(message), UNCHANGED <<wire, id, answer>>
      PROVE  OwnInv'
  <2>1. /\ Len(inbox') = Len(inbox) + 1 /\ Len(inbox) \in Nat
        /\ \A i \in 1..Len(inbox) : inbox'[i] = inbox[i]
        /\ inbox'[Len(inbox) + 1] = message
    BY <1>0, <1>2, AppendIs DEF Tell
  <2>2. message.kind # "response"
    BY DEF Notices
  <2>3. \A i \in 1..Len(inbox') : i = Len(inbox) + 1 \/ i \in 1..Len(inbox)
    BY <2>1
  <2> QED
    BY <1>2, <2>1, <2>2, <2>3 DEF OwnInv, AnswerIsOwn
<1>3. CASE Serve
  <2> DEFINE h == Head(wire)
             response(v) == [kind |-> "response", id |-> h.id, to |-> h.from, verdict |-> v]
  <2>1. /\ h = wire[1] /\ h \in Requests
        /\ Len(wire) \in Nat \ {0} /\ Len(wire') = Len(wire) - 1
        /\ \A i \in 1..Len(wire') : wire'[i] = wire[i + 1] /\ i + 1 \in 1..Len(wire)
    BY <1>0, <1>3, TailIs DEF Serve, Arrived
  <2>2. UNCHANGED <<id, answer>>
    BY <1>3 DEF Serve
  <2>3. PICK v \in {"accepted", "result", "error"} : Tell(response(v))
    BY <1>3 DEF Serve, Respond
  <2>4. response(v) \in Responses
    BY <2>1 DEF Requests, Responses
  <2>5. /\ Len(inbox') = Len(inbox) + 1 /\ Len(inbox) \in Nat
        /\ \A i \in 1..Len(inbox) : inbox'[i] = inbox[i]
        /\ inbox'[Len(inbox) + 1] = response(v)
    BY <1>0, <2>3, <2>4, AppendIs DEF Tell
  <2>6. \A i \in 1..Len(inbox') : i = Len(inbox) + 1 \/ i \in 1..Len(inbox)
    BY <2>5
  <2>7. \A k \in Coroutines : h.id = id[k] => h.from = k
    BY <2>1 DEF OwnInv
  <2>8. \A k \in Coroutines, i \in 1..Len(wire') : wire'[i].id = id[k] => wire'[i].from = k
    BY <2>1 DEF OwnInv
  <2>9. \A k \in Coroutines, i \in 1..Len(inbox') :
           inbox'[i].kind = "response" /\ inbox'[i].id = id[k] => inbox'[i].to = k
    BY <2>5, <2>6, <2>7 DEF OwnInv
  <2> QED
    BY <2>2, <2>8, <2>9 DEF OwnInv, AnswerIsOwn
<1>4. CASE ReadLoop
  <2>1. inbox # <<>> /\ inbox' = Tail(inbox) /\ UNCHANGED <<wire, id>>
    BY <1>4 DEF ReadLoop, ReadResponse, ReadAsked, ReadEnd, Read, Readable, serverVars
  <2>2. /\ Head(inbox) = inbox[1] /\ Len(inbox) \in Nat \ {0}
        /\ \A i \in 1..Len(inbox') : inbox'[i] = inbox[i + 1] /\ i + 1 \in 1..Len(inbox)
    BY <1>0, <2>1, TailIs
  <2>3. AnswerIsOwn'
    <3>1. CASE ReadResponse
      <4>1. \A k \in Coroutines : Head(inbox).id = id[k] => Head(inbox).to = k
        BY <2>2, <3>1 DEF ReadResponse, OwnInv
      <4> QED
        BY <3>1, <4>1 DEF ReadResponse, OwnInv, AnswerIsOwn
    <3>2. CASE ReadAsked \/ ReadEnd
      BY <3>2 DEF ReadAsked, ReadEnd, OwnInv, AnswerIsOwn
    <3> QED
      BY <1>4, <3>1, <3>2 DEF ReadLoop
  <2> QED
    BY <2>1, <2>2, <2>3 DEF OwnInv
<1>5. CASE TypeLine
  <2>1. Connected /\ UNCHANGED inbox
    BY <1>5 DEF TypeLine
  <2>2. ASSUME NEW k \in Coroutines, NEW method \in Methods, Send(k, method)
        PROVE  OwnInv'
    <3> DEFINE r == [id |-> requestId + 1, from |-> k, method |-> method]
    <3>1. /\ requestId \in Nat
          /\ \A c \in Coroutines : id[c] \in Nat /\ id[c] <= requestId
          /\ \A c \in Coroutines : id'[c] = IF c = k THEN requestId + 1 ELSE id[c]
          /\ \A c \in Coroutines : answer'[c] = IF c = k THEN None ELSE answer[c]
      BY <2>1, <2>2 DEF TypeOK, IdInv, Send, Ids
    <3>2. \A i \in 1..Len(wire) : wire[i].id \in Nat /\ wire[i].id <= requestId
      <4>1. \A i \in 1..Len(wire) : wire[i] \in Requests
        BY <1>0
      <4> QED
        BY <2>1, <4>1 DEF IdInv, Requests, Ids
    <3>3. \A i \in 1..Len(inbox) : inbox[i].kind = "response" =>
              inbox[i].id \in Nat /\ inbox[i].id <= requestId
      <4>1. \A i \in 1..Len(inbox) : inbox[i] \in Responses \cup Notices
        BY <1>0
      <4> QED
        BY <2>1, <4>1 DEF IdInv, Responses, Notices, Ids
    <3>4. \A i \in 1..Len(wire') : wire'[i] = r \/ (i \in 1..Len(wire) /\ wire'[i] = wire[i])
      <4>1. wire \in Seq(Requests \cup {r}) /\ wire' = Append(wire, r)
        BY <1>0, <2>2 DEF Send
      <4> QED
        BY <4>1, AppendIs
    <3>5. ASSUME NEW c \in Coroutines, NEW i \in 1..Len(wire'), wire'[i].id = id'[c]
          PROVE  wire'[i].from = c
      <4>1. CASE wire'[i] = r
        BY <3>1, <3>5, <4>1
      <4>2. CASE i \in 1..Len(wire) /\ wire'[i] = wire[i]
        BY <3>1, <3>2, <3>5, <4>2 DEF OwnInv
      <4> QED
        BY <3>4, <4>1, <4>2
    <3>6. \A c \in Coroutines, i \in 1..Len(inbox) :
             inbox[i].kind = "response" /\ inbox[i].id = id'[c] => inbox[i].to = c
      BY <3>1, <3>3 DEF OwnInv
    <3>7. AnswerIsOwn'
      BY <3>1 DEF OwnInv, AnswerIsOwn
    <3> QED
      BY <2>1, <3>5, <3>6, <3>7 DEF OwnInv
  <2>3. CASE UNCHANGED <<wire, id, answer>>
    BY <1>1, <2>1, <2>3
  <2> QED
    BY <1>5, <2>2, <2>3 DEF TypeLine, TakenByMain, TakenByAsk, Coroutines, Methods
<1>6. ASSUME NEW k \in Coroutines, Continue(k) \/ TimesOut(k) PROVE OwnInv'
  BY <1>1, <1>6 DEF Continue, Drained, Answered, WaitOver, TimesOut, serverVars
<1>7. ASSUME NEW q \in Asks, Ask(q) \/ Close(q) PROVE OwnInv'
  <2>1. [kind |-> "asked", ask |-> q] \in Notices
    BY DEF Notices
  <2> QED
    BY <1>1, <1>2, <1>7, <2>1 DEF Ask, Close
<1>8. CASE RunEnds
  <2>1. [kind |-> "end"] \in Notices
    BY DEF Notices
  <2> QED
    BY <1>1, <1>2, <1>8, <2>1 DEF RunEnds
<1>9. CASE ForeignChat \/ Watchdog \/ UNCHANGED vars
  BY <1>1, <1>9 DEF ForeignChat, Watchdog, vars, serverVars
<1> QED
  BY <1>3, <1>4, <1>5, <1>6, <1>7, <1>8, <1>9 DEF Next

LEMMA Invariance == Spec => []Inv
<1>1. Init => Inv
  <2> SUFFICES ASSUME Init PROVE Inv
    OBVIOUS
  <2>1. Main \in Coroutines
    BY DEF Coroutines
  <2>2. TypeOK
    <3>1. MaxLines \in Nat /\ 1 \in Ids /\ 0 \in 0..MaxLines
      BY PromptsAssumption DEF Ids
    <3>2. wire \in Seq(Requests) /\ inbox \in Seq(Responses \cup Notices)
      BY DEF Init
    <3>3. id \in [Coroutines -> Ids] /\ answer \in [Coroutines -> Responses \cup {None}]
      BY <3>1 DEF Init
    <3> QED
      BY <3>1, <3>2, <3>3 DEF Init, TypeOK, Places
  <2>3. Inner
    BY <2>1 DEF Init, Inner, IdInv, WireInv, PromptInv, RunInv
  <2> QED
    BY <2>2, <2>3 DEF Inv, Inner, OwnInv, AnswerIsOwn, Init
<1>2. Inv /\ [Next]_vars => Inv'
  <2> SUFFICES ASSUME Inv, [Next]_vars PROVE Inv'
    OBVIOUS
  <2>1. TypeOK /\ OwnInv /\ (Connected => Inner)
    BY DEF Inv, Inner
  <2>2. TypeOK'
    BY <2>1, TypeStep DEF Inner
  <2>3. Connected' => Inner'
    BY <2>1, EndsOnce, InnerStep
  <2>4. OwnInv'
    BY <2>1, OwnStep DEF Inner
  <2> QED
    BY <2>2, <2>3, <2>4 DEF Inv, Inner
<1> QED
  BY <1>1, <1>2, PTL DEF Spec

-----------------------------------------------------------------------------
(* The theorems *)

(* Every variable of the client, of the messages and of what the server    *)
(* lets it see keeps its type; in particular the ids suffice.              *)
THEOREM TypeCorrect == Spec => []TypeOK
  BY Invariance, PTL DEF Inv

(* Whatever coroutines send requests over the connection, none is given    *)
(* the response to another's.                                              *)
THEOREM AnswersAreOwn == Spec => []AnswerIsOwn
  BY Invariance, PTL DEF Inv, OwnInv

(* While a run of this client waits for an answer to a permission request, *)
(* no line can go to the prompt of the program: for any number of requests *)
(* and lines, and whoever else sends meanwhile.                            *)
THEOREM AnswersAreNotChats == Spec => []PromptIsAlone
<1>1. Inv => PromptIsAlone
  <2> SUFFICES ASSUME Inv, running = "own", ~warned PROVE place[Main] # "input"
    BY DEF PromptIsAlone
  <2> QED
    BY DEF Inv, Connected, RunInv, AcceptanceComes, EndAwaited
<1> QED
  BY <1>1, Invariance, PTL

=============================================================================
