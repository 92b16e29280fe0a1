---------------------------- MODULE ClientWaitProofs ----------------------------
(***************************************************************************)
(* Proofs about ClientWait for any number of runs and requests.  What the  *)
(* client shows depends on what is still under way: an answer that comes   *)
(* late must not be taken for that of the next request, and a notice must  *)
(* be about a run whose outcome is settled and which was not read before.  *)
(* The invariant says so for the requests on the wire, the answers and     *)
(* notices in the inbox, and each place of the prompt.                     *)
(***************************************************************************)
EXTENDS ClientWait, TLAPS

USE DEF Runs, Phases, Outcomes, Commands, Places, Ids

OnWire(id) == \E i \in DOMAIN wire : wire[i].id = id

IsShown(r) == \E i \in DOMAIN shown : shown[i].run = r

(* Runs have an outcome from when they are settled. *)
PhaseInv ==
    \A r \in Runs : /\ outcome[r] = "none" <=> phase[r] \in {"none", "running"}
                    /\ phase[r] = "told" => outcome[r] \in Outcomes

(* Each request is served once. *)
WireInv ==
    /\ \A i \in DOMAIN wire : /\ wire[i].id <= requestId
                              /\ accepted[wire[i].id] = None
                              /\ wire[i].id = requestId => wire[i].command = command
    /\ \A i, j \in DOMAIN wire : wire[i].id = wire[j].id => i = j

AcceptedInv ==
    /\ \A k \in Ids : k > requestId => accepted[k] = None
    /\ \A k \in Ids : accepted[k] # None => phase[accepted[k]] # "none"
    /\ accepted[requestId] # None => command = "chat"

(* A response is about a request that was served. *)
ResponseInv ==
    \A i \in DOMAIN inbox : inbox[i].kind = "response" =>
        /\ inbox[i].id \in 1..requestId
        /\ ~OnWire(inbox[i].id)
        /\ inbox[i].run = accepted[inbox[i].id]

(* The end of a run is told once. *)
NoticeInv ==
    \A i \in DOMAIN inbox : inbox[i].kind \in Outcomes =>
        /\ inbox[i].run \in Runs
        /\ phase[inbox[i].run] = "told"
        /\ outcome[inbox[i].run] = inbox[i].kind
        /\ inbox[i].run \notin heard
        /\ \A j \in DOMAIN inbox :
               inbox[j].kind \in Outcomes /\ inbox[j].run = inbox[i].run => j = i

HeardInv ==
    /\ \A r \in heard : phase[r] = "told"
    /\ \A i \in DOMAIN shown : shown[i].run \in heard
    /\ pending # None => pending \in heard /\ ~IsShown(pending)

FutureInv == future = "resolved" => answer = accepted[requestId] /\ ~OnWire(requestId)

(* Where the prompt is. *)
PromptInv ==
    /\ awaiting # None => ui = "waiting"
    /\ ui = "waiting" /\ completion => awaiting \in warned \/ IsShown(awaiting)
    /\ ui = "requesting" /\ command = "chat" => ~completion
    /\ ui = "requesting" /\ accepted[requestId] \in heard =>
           pending = accepted[requestId] \/ accepted[requestId] \in displaced
    /\ ui = "prompt" /\ command = "chat" => ~OnWire(requestId)

Inv ==
    /\ TypeOK /\ PhaseInv /\ WireInv /\ AcceptedInv
    /\ ResponseInv /\ NoticeInv /\ HeardInv /\ FutureInv /\ PromptInv
    /\ AwaitsOwnRun /\ OutcomeIsOwn /\ EndNotMissed /\ EveryChatReported

-----------------------------------------------------------------------------
(* Queues and types *)

(* What is in a queue. *)
LEMMA Elements ==
  ASSUME NEW S, NEW s \in Seq(S), NEW i \in DOMAIN s
  PROVE  s[i] \in S
OBVIOUS

(* What an append to a queue changes. *)
LEMMA AppendFacts ==
  ASSUME NEW S, NEW s \in Seq(S), NEW e \in S
  PROVE  /\ Append(s, e) \in Seq(S)
         /\ \A i \in DOMAIN Append(s, e) :
                \/ i \in DOMAIN s /\ Append(s, e)[i] = s[i]
                \/ i = Len(s) + 1 /\ Append(s, e)[i] = e
         /\ \A i \in DOMAIN s : i \in DOMAIN Append(s, e) /\ Append(s, e)[i] = s[i]
         /\ Len(s) + 1 \in DOMAIN Append(s, e) /\ Append(s, e)[Len(s) + 1] = e
         /\ Len(s) + 1 \notin DOMAIN s
<1>1. Len(s) \in Nat /\ DOMAIN s = 1..Len(s)
  OBVIOUS
<1>2. /\ Append(s, e) \in Seq(S) /\ DOMAIN Append(s, e) = 1..Len(s) + 1
      /\ Append(s, e)[Len(s) + 1] = e /\ \A i \in 1..Len(s) : Append(s, e)[i] = s[i]
  BY <1>1
<1>3. ASSUME NEW n \in Nat, NEW i \in 1..n + 1 PROVE i \in 1..n \/ i = n + 1
  OBVIOUS
<1>4. ASSUME NEW n \in Nat PROVE n + 1 \in 1..n + 1 /\ n + 1 \notin 1..n
  OBVIOUS
<1>5. ASSUME NEW n \in Nat, NEW i \in 1..n PROVE i \in 1..n + 1
  OBVIOUS
<1>6. ASSUME NEW i \in DOMAIN Append(s, e)
      PROVE  \/ i \in DOMAIN s /\ Append(s, e)[i] = s[i]
             \/ i = Len(s) + 1 /\ Append(s, e)[i] = e
  <2>1. i \in 1..Len(s) \/ i = Len(s) + 1
    BY <1>1, <1>2, <1>3
  <2>2. CASE i \in 1..Len(s)
    BY <2>2, <1>1, <1>2
  <2>3. CASE i = Len(s) + 1
    BY <2>3, <1>2
  <2> QED
    BY <2>1, <2>2, <2>3
<1>7. ASSUME NEW i \in DOMAIN s PROVE i \in DOMAIN Append(s, e) /\ Append(s, e)[i] = s[i]
  BY <1>1, <1>2, <1>5
<1> QED
  BY <1>1, <1>2, <1>4, <1>6, <1>7

(* What is left of a queue when its head is taken. *)
LEMMA TailFacts ==
  ASSUME NEW S, NEW s \in Seq(S), s # <<>>
  PROVE  /\ Tail(s) \in Seq(S) /\ Head(s) = s[1] /\ 1 \in DOMAIN s /\ Head(s) \in S
         /\ \A i \in DOMAIN Tail(s) : i \in Nat /\ i + 1 # 1 /\ i + 1 \in DOMAIN s /\ Tail(s)[i] = s[i + 1]
<1>1. Len(s) \in Nat /\ Len(s) # 0 /\ DOMAIN s = 1..Len(s)
  OBVIOUS
<1>2. Tail(s) \in Seq(S) /\ Len(Tail(s)) = Len(s) - 1 /\ DOMAIN Tail(s) = 1..Len(s) - 1
  BY <1>1
<1>3. ASSUME NEW i \in DOMAIN Tail(s)
      PROVE  i \in Nat /\ i + 1 # 1 /\ i + 1 \in DOMAIN s /\ Tail(s)[i] = s[i + 1]
  BY <1>1, <1>2
<1> QED
  BY <1>1, <1>2, <1>3

(* Messages of the server. *)
LEMMA MessageType ==
  ASSUME NEW kind \in {"response", "activity", "eof"} \cup Outcomes, NEW id \in {0} \cup Ids,
         NEW r \in Runs \cup {None}
  PROVE  Message(kind, id, r) \in Messages
BY DEF Message, Messages

(* A client that has connected has the types. *)
LEMMA TypeInit == Init => TypeOK
<1> SUFFICES ASSUME Init PROVE TypeOK
  OBVIOUS
<1>1. 1 \in Ids /\ 0 \in 0..MaxActivity
  BY ClientAssumption
<1>2. [id |-> 1, command |-> "attach"] \in [id : Ids, command : Commands]
  BY <1>1
<1>3. wire \in Seq([id : Ids, command : Commands])
  BY <1>2 DEF Init
<1>4. inbox \in Seq(Messages) /\ shown \in Seq([run : Runs, outcome : Outcomes])
  BY DEF Init
<1> QED
  BY <1>1, <1>3, <1>4 DEF Init, TypeOK

(* The steps of the server keep the types. *)
LEMMA ServerType == ASSUME TypeOK, Server PROVE TypeOK'
<1>1. ASSUME Serve PROVE TypeOK'
  <2>1. wire' \in Seq([id : Ids, command : Commands]) /\ Head(wire).id \in Ids
    <3>1. wire \in Seq([id : Ids, command : Commands]) /\ wire # <<>> /\ wire' = Tail(wire)
      BY <1>1 DEF Serve, TypeOK
    <3>2. Tail(wire) \in Seq([id : Ids, command : Commands])
          /\ Head(wire) \in [id : Ids, command : Commands]
      BY <3>1, TailFacts
    <3> QED
      BY <3>1, <3>2
  <2>2. ASSUME NEW r \in Runs \cup {None}, SendMessage(Message("response", Head(wire).id, r))
        PROVE  inbox' \in Seq(Messages)
    BY <2>1, <2>2, MessageType, AppendFacts DEF SendMessage, TypeOK
  <2>3. inbox' \in Seq(Messages)
    BY <1>1, <2>2 DEF Serve
  <2>4. phase' \in [Runs -> Phases] /\ accepted' \in [Ids -> Own \cup {None}]
    <3>1. CASE UNCHANGED <<phase, accepted>>
      BY <3>1 DEF TypeOK
    <3>2. ASSUME NEW r \in Own, phase' = [phase EXCEPT ![r] = "running"],
                 accepted' = [accepted EXCEPT ![Head(wire).id] = r]
          PROVE  phase' \in [Runs -> Phases] /\ accepted' \in [Ids -> Own \cup {None}]
      BY <2>1, <3>2 DEF TypeOK
    <3> QED
      BY <1>1, <3>1, <3>2 DEF Serve
  <2> QED
    BY <1>1, <2>1, <2>3, <2>4 DEF Serve, TypeOK, promptVars, waitVars
<1>2. ASSUME ServerCloses PROVE TypeOK'
  <2>1. inbox' \in Seq(Messages)
    BY <1>2, MessageType, AppendFacts DEF ServerCloses, SendMessage, TypeOK
  <2> QED
    BY <1>2, <2>1 DEF ServerCloses, TypeOK, promptVars, waitVars
<1>3. ASSUME NEW r \in Runs, ForeignChat(r) PROVE TypeOK'
  BY <1>3 DEF ForeignChat, TypeOK, promptVars, waitVars
<1>4. ASSUME NEW r \in Runs, RunSettles(r) PROVE TypeOK'
  BY <1>4 DEF RunSettles, TypeOK, promptVars, waitVars
<1>5. ASSUME NEW r \in Runs, RunTold(r) PROVE TypeOK'
  <2>1. inbox' \in Seq(Messages)
    <3>1. outcome[r] \in Outcomes /\ inbox' = Append(inbox, Message(outcome[r], 0, r))
      BY <1>5 DEF RunTold, SendMessage
    <3>2. Message(outcome[r], 0, r) \in Messages
      BY <3>1, MessageType
    <3> QED
      BY <3>1, <3>2, AppendFacts DEF TypeOK
  <2> QED
    BY <1>5, <2>1 DEF RunTold, TypeOK, promptVars, waitVars
<1>6. ASSUME NEW r \in Runs, RunActive(r) PROVE TypeOK'
  <2>1. inbox' \in Seq(Messages)
    BY <1>6, MessageType, AppendFacts DEF RunActive, SendMessage, TypeOK
  <2>2. beats' \in 0..MaxActivity
    BY <1>6, ClientAssumption DEF RunActive, TypeOK
  <2> QED
    BY <1>6, <2>1, <2>2 DEF RunActive, TypeOK, promptVars, waitVars
<1> QED
  BY <1>1, <1>2, <1>3, <1>4, <1>5, <1>6 DEF Server

(* What the user is shown. *)
LEMMA ShowType ==
  ASSUME TypeOK, NEW r \in Runs, outcome[r] \in Outcomes, Show(r)
  PROVE  shown' \in Seq([run : Runs, outcome : Outcomes]) /\ completion' \in BOOLEAN
<1>1. [run |-> r, outcome |-> outcome[r]] \in [run : Runs, outcome : Outcomes]
  OBVIOUS
<1> QED
  BY <1>1, AppendFacts DEF Show, TypeOK

(* The receiver keeps the types: it shows the outcome of a notice, which   *)
(* is that of its run.                                                     *)
LEMMA ReadType == ASSUME TypeOK, NoticeInv, Read PROVE TypeOK'
<1>1. inbox' \in Seq(Messages) /\ Head(inbox) \in Messages /\ silent' = FALSE
  <2>1. inbox # <<>> /\ inbox' = Tail(inbox) /\ silent' = FALSE
    BY DEF Read, ReadResponse, ReadActivity, ReadTerminal, ReadEof, Receive
  <2> QED
    BY <2>1, TailFacts DEF TypeOK
<1>2. CASE ReadResponse
  <2>1. future' \in {"open", "resolved", "none", "failed"} /\ answer' \in Runs \cup {None}
    BY <1>1, <1>2 DEF ReadResponse, TypeOK, Messages
  <2> QED
    BY <1>1, <1>2, <2>1 DEF ReadResponse, TypeOK, waitVars, promptVars
<1>3. CASE ReadActivity
  <2>1. UNCHANGED <<phase, outcome, wire, beats, accepted, promptVars, waitVars, future,
                    answer, reading, heard>>
    BY <1>3 DEF ReadActivity
  <2> QED
    <3>1. /\ phase' = phase /\ outcome' = outcome /\ wire' = wire /\ beats' = beats
          /\ accepted' = accepted /\ ui' = ui /\ command' = command /\ requestId' = requestId
          /\ future' = future /\ answer' = answer /\ reading' = reading /\ heard' = heard
      BY <2>1 DEF promptVars
    <3>2. /\ awaiting' = awaiting /\ pending' = pending /\ completion' = completion
          /\ displaced' = displaced /\ shown' = shown /\ warned' = warned
      BY <2>1 DEF waitVars
    <3>3. silent' \in BOOLEAN
      BY <1>1
    <3> QED
      BY <1>1, <3>1, <3>2, <3>3 DEF TypeOK
<1>4. CASE ReadTerminal
  <2> DEFINE r == Head(inbox).run
  <2>1. r \in Runs /\ outcome[r] \in Outcomes
    BY <1>4, TailFacts DEF ReadTerminal, Receive, TypeOK, NoticeInv
  <2>2. shown' \in Seq([run : Runs, outcome : Outcomes]) /\ completion' \in BOOLEAN
    BY <1>4, <2>1, ShowType DEF ReadTerminal, TypeOK
  <2>3. /\ heard' \in SUBSET Runs /\ displaced' \in SUBSET Runs
        /\ pending' \in Runs \cup {None}
    BY <1>4, <2>1 DEF ReadTerminal, Keep, TypeOK
  <2> QED
    BY <1>1, <1>4, <2>2, <2>3 DEF ReadTerminal, TypeOK, promptVars
<1>5. CASE ReadEof
  <2>1. completion' \in BOOLEAN /\ warned' \in SUBSET Own
    BY <1>5 DEF ReadEof, TypeOK
  <2> QED
    BY <1>1, <1>5, <2>1 DEF ReadEof, TypeOK, promptVars
<1> QED
  BY <1>2, <1>3, <1>4, <1>5 DEF Read

(* Requests have the next number. *)
LEMMA RequestType ==
  ASSUME TypeOK, NEW what \in Commands, Request(what)
  PROVE  /\ requestId' \in Ids /\ wire' \in Seq([id : Ids, command : Commands])
         /\ command' \in Commands /\ ui' \in Places
         /\ future' \in {"none", "open", "resolved", "failed"} /\ answer' \in Runs \cup {None}
<1>1. requestId + 1 \in Ids
  BY ClientAssumption DEF Request, TypeOK
<1>2. [id |-> requestId + 1, command |-> what] \in [id : Ids, command : Commands]
  BY <1>1
<1>3. wire' \in Seq([id : Ids, command : Commands])
  <2>1. wire \in Seq([id : Ids, command : Commands])
    BY DEF TypeOK
  <2>2. Append(wire, [id |-> requestId + 1, command |-> what]) \in Seq([id : Ids, command : Commands])
    BY <1>2, <2>1, AppendFacts
  <2> QED
    BY <2>1, <2>2 DEF Request
<1> QED
  BY <1>1, <1>3 DEF Request, TypeOK

(* The prompt, the user and the timers keep the types. *)
LEMMA PromptType ==
  ASSUME TypeOK, HeardInv, PhaseInv, FutureInv, ui = "waiting" => awaiting # None,
         Continue \/ User \/ RequestTimesOut \/ Silence \/ Watchdog
  PROVE  TypeOK'
<1>1. ASSUME RequestFails PROVE TypeOK'
  BY <1>1 DEF RequestFails, TypeOK, serverVars, waitVars
<1>2. ASSUME ResponseShown PROVE TypeOK'
  BY <1>2 DEF ResponseShown, TypeOK, serverVars, waitVars
<1>3. ASSUME ChatAccepted PROVE TypeOK'
  <2>1. answer \in Own /\ pending' \in Runs \cup {None} /\ awaiting' \in Own
    BY <1>3 DEF ChatAccepted, TypeOK, FutureInv
  <2>2. shown' \in Seq([run : Runs, outcome : Outcomes]) /\ completion' \in BOOLEAN
    BY <1>3, <2>1, ShowType DEF ChatAccepted, TypeOK, HeardInv, PhaseInv
  <2> QED
    BY <1>3, <2>1, <2>2 DEF ChatAccepted, TypeOK, serverVars
<1>4. ASSUME WaitOver PROVE TypeOK'
  BY <1>4 DEF WaitOver, TypeOK, serverVars
<1>5. ASSUME SendControl PROVE TypeOK'
  BY <1>5, RequestType DEF SendControl, TypeOK, waitVars
<1>6. ASSUME SendChat PROVE TypeOK'
  BY <1>6, RequestType DEF SendChat, Reset, TypeOK
<1>7. ASSUME Quit PROVE TypeOK'
  BY <1>7 DEF Quit, TypeOK, serverVars, waitVars
<1>8. ASSUME Silence PROVE TypeOK'
  BY <1>8 DEF Silence, TypeOK, serverVars, promptVars, waitVars
<1>9. ASSUME Watchdog PROVE TypeOK'
  <2>1. awaiting \in Own
    BY <1>9 DEF Watchdog, Watched, TypeOK
  <2> QED
    BY <1>9, <2>1 DEF Watchdog, TypeOK, serverVars, promptVars
<1> QED
  BY <1>1, <1>2, <1>3, <1>4, <1>5, <1>6, <1>7, <1>8, <1>9
  DEF Continue, ConnectionLost, User, RequestTimesOut

-----------------------------------------------------------------------------
(* What a step leaves alone *)

(* The server and the requests. *)
LEMMA ServerRests ==
  ASSUME PhaseInv, WireInv, AcceptedInv,
         UNCHANGED <<phase, outcome, wire, accepted, command, requestId>>
  PROVE  PhaseInv' /\ WireInv' /\ AcceptedInv' /\ \A id : OnWire(id)' <=> OnWire(id)
BY DEF PhaseInv, WireInv, AcceptedInv, OnWire

(* What is under way to the client, and what it has read. *)
LEMMA InboxRests ==
  ASSUME ResponseInv, NoticeInv,
         UNCHANGED <<phase, outcome, wire, accepted, requestId, inbox, heard>>
  PROVE  ResponseInv' /\ NoticeInv'
BY DEF ResponseInv, NoticeInv, OnWire

(* What the client has shown. *)
LEMMA ShownRests ==
  ASSUME TypeOK, HeardInv, OutcomeIsOwn, UNCHANGED <<phase, outcome, heard, shown>>,
         pending' \in {pending, None}
  PROVE  HeardInv' /\ OutcomeIsOwn' /\ \A r : IsShown(r)' <=> IsShown(r)
BY DEF HeardInv, OutcomeIsOwn, IsShown

(* A message that is neither answer nor notice. *)
LEMMA OtherSent ==
  ASSUME TypeOK, ResponseInv, NoticeInv, NEW m \in Messages, m.kind \in {"activity", "eof"},
         inbox' = Append(inbox, m),
         UNCHANGED <<phase, outcome, wire, accepted, requestId, heard>>
  PROVE  ResponseInv' /\ NoticeInv'
<1>1. ASSUME NEW i \in DOMAIN inbox', inbox'[i].kind \in {"response"} \cup Outcomes
      PROVE  i \in DOMAIN inbox /\ inbox'[i] = inbox[i]
  BY <1>1, AppendFacts DEF TypeOK
<1> QED
  BY <1>1 DEF ResponseInv, NoticeInv, OnWire

(* A message is taken from the inbox; a notice is heard then. *)
LEMMA Taken ==
  ASSUME TypeOK, ResponseInv, NoticeInv, NEW m, Receive(m),
         UNCHANGED <<phase, outcome, wire, accepted, requestId>>,
         \/ UNCHANGED heard
         \/ m.kind \in Outcomes /\ heard' = heard \cup {m.run}
  PROVE  ResponseInv' /\ NoticeInv'
<1>1. inbox # <<>> /\ inbox \in Seq(Messages) /\ inbox' = Tail(inbox) /\ m = Head(inbox)
  BY DEF Receive, TypeOK
<1>2. m = inbox[1] /\ 1 \in DOMAIN inbox
  BY <1>1, TailFacts
<1>3. ASSUME NEW i \in DOMAIN inbox'
      PROVE  i \in Nat /\ i + 1 # 1 /\ i + 1 \in DOMAIN inbox /\ inbox'[i] = inbox[i + 1]
  BY <1>1, TailFacts
<1>4. ResponseInv'
  BY <1>3 DEF ResponseInv, OnWire
<1>5. ASSUME NEW i \in DOMAIN inbox', inbox'[i].kind \in Outcomes
      PROVE  /\ inbox'[i].run \in Runs
             /\ phase'[inbox'[i].run] = "told"
             /\ outcome'[inbox'[i].run] = inbox'[i].kind
             /\ inbox'[i].run \notin heard'
             /\ \A j \in DOMAIN inbox' :
                    inbox'[j].kind \in Outcomes /\ inbox'[j].run = inbox'[i].run => j = i
  <2>1. /\ inbox[i + 1].run \in Runs
        /\ phase[inbox[i + 1].run] = "told"
        /\ outcome[inbox[i + 1].run] = inbox[i + 1].kind
        /\ inbox[i + 1].run \notin heard
        /\ \A j \in DOMAIN inbox :
               inbox[j].kind \in Outcomes /\ inbox[j].run = inbox[i + 1].run => j = i + 1
    BY <1>3, <1>5 DEF NoticeInv
  <2>2. m.kind \in Outcomes => m.run # inbox[i + 1].run
    BY <1>2, <1>3, <2>1
  <2>3. inbox[i + 1].run \notin heard'
    BY <2>1, <2>2
  <2>4. ASSUME NEW j \in DOMAIN inbox', inbox'[j].kind \in Outcomes, inbox'[j].run = inbox'[i].run
        PROVE  j = i
    <3>1. j + 1 = i + 1 /\ i \in Nat /\ j \in Nat
      BY <1>3, <2>1, <2>4
    <3> QED
      BY <3>1
  <2> QED
    BY <1>3, <2>1, <2>3, <2>4
<1> QED
  BY <1>4, <1>5 DEF NoticeInv

-----------------------------------------------------------------------------
(* The steps of the server *)

(* A request is served: its number leaves the wire, and its answer is the  *)
(* run that was accepted for it.                                           *)
LEMMA ServeStep == ASSUME Inv, TypeOK', Serve PROVE Inv'
<1> USE DEF Inv
<1> DEFINE id == Head(wire).id
<1>1. /\ wire # <<>> /\ wire' = Tail(wire) /\ wire \in Seq([id : Ids, command : Commands])
      /\ UNCHANGED <<outcome, beats, promptVars, waitVars, future, answer, reading, silent, heard>>
      /\ UNCHANGED <<requestId, command, ui, awaiting, pending, completion, displaced, shown, warned>>
  BY DEF Serve, TypeOK, promptVars, waitVars
<1>2. /\ 1 \in DOMAIN wire /\ wire[1].id = id /\ wire[1].command = Head(wire).command
      /\ Head(wire) \in [id : Ids, command : Commands]
  BY <1>1, TailFacts
<1>3. ASSUME NEW i \in DOMAIN wire'
      PROVE  i \in Nat /\ i + 1 # 1 /\ i + 1 \in DOMAIN wire /\ wire'[i] = wire[i + 1]
  BY <1>1, TailFacts
<1>4. /\ id \in 1..requestId /\ id \in Ids /\ accepted[id] = None
      /\ id = requestId => Head(wire).command = command
  BY <1>2, ClientAssumption DEF WireInv, TypeOK
<1>5. \A i \in DOMAIN wire' : wire'[i].id # id
  BY <1>2, <1>3 DEF WireInv
<1>6. \A k : OnWire(k)' => OnWire(k)
  BY <1>3 DEF OnWire
<1>7. PICK run \in Own \cup {None} :
          /\ inbox' = Append(inbox, Message("response", id, run))
          /\ run = None => UNCHANGED <<phase, accepted>>
          /\ run # None => /\ Head(wire).command = "chat" /\ phase[run] = "none"
                           /\ phase' = [phase EXCEPT ![run] = "running"]
                           /\ accepted' = [accepted EXCEPT ![id] = run]
  BY ClientAssumption DEF Serve, SendMessage
<1>8. /\ accepted'[id] = run
      /\ \A k \in Ids : k # id => accepted'[k] = accepted[k]
      /\ \A r \in Runs : phase'[r] = phase[r] \/ (phase[r] = "none" /\ phase'[r] = "running" /\ r = run)
  BY <1>4, <1>7, ClientAssumption DEF TypeOK
<1>9. PhaseInv'
  BY <1>1, <1>8 DEF PhaseInv
<1>10. WireInv'
  <2>1. ASSUME NEW i \in DOMAIN wire'
        PROVE  /\ wire'[i].id <= requestId' /\ accepted'[wire'[i].id] = None
               /\ wire'[i].id = requestId' => wire'[i].command = command'
    <3>1. i + 1 \in DOMAIN wire /\ wire'[i] = wire[i + 1] /\ wire'[i].id # id
      BY <1>3, <1>5, <2>1
    <3>2. wire[i + 1].id \in Ids
      <4>1. wire[i + 1] \in [id : Ids, command : Commands]
        BY <1>1, <3>1, Elements
      <4> QED
        BY <4>1
    <3> QED
      BY <1>1, <1>8, <3>1, <3>2 DEF WireInv
  <2>2. ASSUME NEW i \in DOMAIN wire', NEW j \in DOMAIN wire', wire'[i].id = wire'[j].id
        PROVE  i = j
    <3>1. i + 1 = j + 1 /\ i \in Nat /\ j \in Nat
      BY <1>3, <2>2 DEF WireInv
    <3> QED
      BY <3>1
  <2> QED
    BY <2>1, <2>2 DEF WireInv
<1>11. AcceptedInv'
  <2>1. ASSUME NEW k \in Ids
        PROVE  k > requestId => accepted'[k] = None
    BY <1>4, <1>8, ClientAssumption DEF AcceptedInv, TypeOK
  <2>2. ASSUME NEW k \in Ids, accepted'[k] # None PROVE phase'[accepted'[k]] # "none"
    <3>1. CASE k = id
      BY <1>7, <1>8, <2>2, <3>1 DEF TypeOK
    <3>2. CASE k # id
      <4>1. accepted'[k] = accepted[k] /\ accepted[k] \in Runs /\ phase[accepted[k]] # "none"
        BY <1>8, <2>2, <3>2 DEF AcceptedInv, TypeOK
      <4> QED
        BY <1>8, <4>1
    <3> QED
      BY <3>1, <3>2
  <2>3. accepted'[requestId] # None => command = "chat"
    BY <1>4, <1>7, <1>8 DEF AcceptedInv, TypeOK
  <2> QED
    BY <1>1, <2>1, <2>2, <2>3 DEF AcceptedInv
<1>12. Message("response", id, run).kind = "response" /\ Message("response", id, run).id = id
       /\ Message("response", id, run).run = run /\ Message("response", id, run) \in Messages
  BY <1>4, MessageType DEF Message
<1>13. ASSUME NEW i \in DOMAIN inbox'
       PROVE  \/ i \in DOMAIN inbox /\ inbox'[i] = inbox[i]
              \/ inbox'[i] = Message("response", id, run)
  BY <1>7, <1>12, AppendFacts DEF TypeOK
<1>14. ResponseInv'
  <2> SUFFICES ASSUME NEW i \in DOMAIN inbox', inbox'[i].kind = "response"
               PROVE  /\ inbox'[i].id \in 1..requestId'
                      /\ \A n \in DOMAIN wire' : wire'[n].id # inbox'[i].id
                      /\ inbox'[i].run = accepted'[inbox'[i].id]
    BY DEF ResponseInv, OnWire
  <2>1. CASE inbox'[i] = Message("response", id, run)
    BY <1>1, <1>4, <1>5, <1>8, <1>12, <2>1
  <2>2. CASE i \in DOMAIN inbox /\ inbox'[i] = inbox[i]
    <3>1. /\ inbox[i].id \in 1..requestId /\ ~OnWire(inbox[i].id)
          /\ inbox[i].run = accepted[inbox[i].id]
      BY <2>2 DEF ResponseInv
    <3>2. inbox[i].id # id /\ inbox[i].id \in Ids
      <4>1. inbox[i].id # id
        BY <1>2, <3>1 DEF OnWire
      <4>2. requestId \in Ids
        BY DEF TypeOK
      <4> QED
        BY <3>1, <4>1, <4>2, ClientAssumption
    <3>3. \A n \in DOMAIN wire' : wire'[n].id # inbox[i].id
      BY <1>3, <3>1 DEF OnWire
    <3> QED
      BY <1>1, <1>8, <2>2, <3>1, <3>2, <3>3
  <2> QED
    BY <1>13, <2>1, <2>2
<1>15. NoticeInv'
  <2>1. ASSUME NEW i \in DOMAIN inbox', inbox'[i].kind \in Outcomes
        PROVE  i \in DOMAIN inbox /\ inbox'[i] = inbox[i]
    BY <1>12, <1>13, <2>1
  <2> QED
    BY <1>1, <1>8, <2>1 DEF NoticeInv
<1>16. HeardInv' /\ OutcomeIsOwn'
  BY <1>1, <1>8 DEF HeardInv, IsShown, OutcomeIsOwn, TypeOK
<1>17. FutureInv'
  <2>1. future = "resolved" => id # requestId
    BY <1>2 DEF FutureInv, OnWire
  <2> QED
    BY <1>1, <1>6, <1>8, <2>1 DEF FutureInv, TypeOK
<1>18. /\ accepted[requestId] # None => accepted'[requestId] = accepted[requestId]
       /\ accepted'[requestId] \in heard => accepted[requestId] \in heard
  <2>1. CASE id # requestId
    BY <1>8, <2>1 DEF TypeOK
  <2>2. CASE id = requestId
    BY <1>4, <1>7, <1>8, <2>2 DEF HeardInv, TypeOK
  <2> QED
    BY <2>1, <2>2
<1>19. \A r : IsShown(r)' <=> IsShown(r)
  BY <1>1 DEF IsShown
<1>20. PromptInv'
  BY <1>1, <1>6, <1>18, <1>19, ClientAssumption DEF PromptInv, TypeOK
<1>21. AwaitsOwnRun' /\ EndNotMissed'
  BY <1>1, <1>18 DEF AwaitsOwnRun, EndNotMissed
<1>22. EveryChatReported'
  <2>1. ui = "prompt" /\ command = "chat" => id # requestId
    BY <1>2 DEF PromptInv, OnWire
  <2> QED
    BY <1>1, <1>8, <2>1 DEF EveryChatReported, TypeOK
<1> QED
  BY <1>9, <1>10, <1>11, <1>14, <1>15, <1>16, <1>17, <1>20, <1>21, <1>22

(* What a step of the server leaves to the client. *)
LEMMA ClientRests ==
  ASSUME Inv, UNCHANGED <<wire, accepted, requestId, command, ui, awaiting, pending, completion,
                          displaced, shown, warned, future, answer, heard>>,
         \A r \in Runs : outcome[r] # "none" => outcome'[r] = outcome[r],
         \A r \in Runs : phase[r] = "told" => phase'[r] = "told",
         \A r \in Runs : phase[r] # "none" => phase'[r] # "none"
  PROVE  WireInv' /\ AcceptedInv' /\ HeardInv' /\ FutureInv' /\ PromptInv' /\ AwaitsOwnRun'
         /\ OutcomeIsOwn' /\ EndNotMissed' /\ EveryChatReported'
<1> USE DEF Inv
<1>1. WireInv' /\ AcceptedInv'
  BY DEF WireInv, AcceptedInv, TypeOK
<1>2. HeardInv' /\ FutureInv' /\ PromptInv'
  BY DEF HeardInv, FutureInv, PromptInv, OnWire, IsShown, TypeOK
<1>3. OutcomeIsOwn'
  <2>1. \A i \in DOMAIN shown : shown[i].run \in Runs /\ outcome[shown[i].run] # "none"
    BY DEF OutcomeIsOwn, HeardInv, PhaseInv, TypeOK
  <2> QED
    BY <2>1 DEF OutcomeIsOwn
<1>4. AwaitsOwnRun' /\ EndNotMissed' /\ EveryChatReported'
  BY DEF AwaitsOwnRun, EndNotMissed, EveryChatReported
<1> QED
  BY <1>1, <1>2, <1>3, <1>4

(* The other steps of the server: only RunTold sends a notice, about a run *)
(* that was not told before.                                               *)
LEMMA ServerStep ==
  ASSUME Inv, TypeOK',
         ServerCloses \/ \E r \in Runs : ForeignChat(r) \/ RunSettles(r) \/ RunTold(r) \/ RunActive(r)
  PROVE  Inv'
<1> USE DEF Inv
<1>1. UNCHANGED <<wire, accepted, requestId, command, ui, awaiting, pending, completion,
                  displaced, shown, warned, future, answer, heard>>
  BY DEF ServerCloses, ForeignChat, RunSettles, RunTold, RunActive, promptVars, waitVars
<1>2. ASSUME PhaseInv', ResponseInv', NoticeInv',
             \A r \in Runs : outcome[r] # "none" => outcome'[r] = outcome[r],
             \A r \in Runs : phase[r] = "told" => phase'[r] = "told",
             \A r \in Runs : phase[r] # "none" => phase'[r] # "none"
      PROVE  Inv'
  BY <1>1, <1>2, ClientRests
<1>3. ASSUME ServerCloses PROVE Inv'
  <2>1. Message("eof", 0, None) \in Messages /\ Message("eof", 0, None).kind = "eof"
    BY MessageType DEF Message
  <2>2. /\ inbox' = Append(inbox, Message("eof", 0, None))
        /\ UNCHANGED <<phase, outcome>>
    BY <1>3 DEF ServerCloses, SendMessage
  <2>3. ResponseInv' /\ NoticeInv'
    BY <1>1, <2>1, <2>2, OtherSent
  <2> QED
    BY <1>2, <2>2, <2>3 DEF PhaseInv
<1>4. ASSUME NEW r \in Runs, ForeignChat(r) PROVE Inv'
  <2>1. /\ phase[r] = "none" /\ phase' = [phase EXCEPT ![r] = "running"]
        /\ UNCHANGED <<outcome, inbox>>
    BY <1>4 DEF ForeignChat
  <2>2. \A q \in Runs : phase'[q] = IF q = r THEN "running" ELSE phase[q]
    BY <2>1 DEF TypeOK
  <2>3. PhaseInv'
    BY <2>1, <2>2 DEF PhaseInv
  <2>4. ResponseInv' /\ NoticeInv'
    BY <1>1, <2>1, <2>2 DEF ResponseInv, NoticeInv, OnWire
  <2> QED
    BY <1>2, <2>1, <2>2, <2>3, <2>4
<1>5. ASSUME NEW r \in Runs, RunSettles(r) PROVE Inv'
  <2>1. PICK how \in Outcomes \cup {"cancelled"} :
            /\ phase[r] = "running" /\ phase' = [phase EXCEPT ![r] = "settled"]
            /\ outcome' = [outcome EXCEPT ![r] = how]
            /\ UNCHANGED inbox
    BY <1>5 DEF RunSettles
  <2>2. \A q \in Runs : /\ phase'[q] = IF q = r THEN "settled" ELSE phase[q]
                        /\ outcome'[q] = IF q = r THEN how ELSE outcome[q]
    BY <2>1 DEF TypeOK
  <2>3. outcome[r] = "none"
    BY <2>1 DEF PhaseInv
  <2>4. PhaseInv'
    BY <2>2 DEF PhaseInv
  <2>5. ResponseInv' /\ NoticeInv'
    BY <1>1, <2>1, <2>2 DEF ResponseInv, NoticeInv, OnWire
  <2> QED
    BY <1>2, <2>1, <2>2, <2>3, <2>4, <2>5
<1>6. ASSUME NEW r \in Runs, RunTold(r) PROVE Inv'
  <2> DEFINE m == Message(outcome[r], 0, r)
  <2>1. /\ phase[r] = "settled" /\ phase' = [phase EXCEPT ![r] = "told"]
        /\ outcome[r] \in Outcomes /\ inbox' = Append(inbox, m)
        /\ UNCHANGED outcome
    BY <1>6 DEF RunTold, SendMessage
  <2>2. \A q \in Runs : phase'[q] = IF q = r THEN "told" ELSE phase[q]
    BY <2>1 DEF TypeOK
  <2>3. PhaseInv'
    BY <2>1, <2>2 DEF PhaseInv
  <2>4. m \in Messages /\ m.kind = outcome[r] /\ m.run = r
    BY <2>1, MessageType DEF Message
  <2>5. /\ \A i \in DOMAIN inbox' : \/ i \in DOMAIN inbox /\ inbox'[i] = inbox[i]
                                    \/ i = Len(inbox) + 1 /\ inbox'[i] = m
        /\ Len(inbox) + 1 \notin DOMAIN inbox
    BY <2>1, <2>4, AppendFacts DEF TypeOK
  <2>6. ASSUME NEW i \in DOMAIN inbox, inbox[i].kind \in Outcomes PROVE inbox[i].run # r
    BY <2>1, <2>6 DEF NoticeInv
  <2>7. r \notin heard
    BY <2>1 DEF HeardInv
  <2>8. ResponseInv'
    BY <1>1, <2>1, <2>4, <2>5 DEF ResponseInv, OnWire
  <2>9. NoticeInv'
    <3> SUFFICES ASSUME NEW i \in DOMAIN inbox', inbox'[i].kind \in Outcomes
                 PROVE  /\ inbox'[i].run \in Runs
                        /\ phase'[inbox'[i].run] = "told"
                        /\ outcome'[inbox'[i].run] = inbox'[i].kind
                        /\ inbox'[i].run \notin heard'
                        /\ \A j \in DOMAIN inbox' :
                               inbox'[j].kind \in Outcomes /\ inbox'[j].run = inbox'[i].run => j = i
      BY DEF NoticeInv
    <3>1. CASE i \in DOMAIN inbox /\ inbox'[i] = inbox[i]
      BY <1>1, <2>1, <2>2, <2>4, <2>5, <2>6, <3>1 DEF NoticeInv
    <3>2. CASE i = Len(inbox) + 1 /\ inbox'[i] = m
      BY <1>1, <2>1, <2>2, <2>4, <2>5, <2>6, <2>7, <3>2
    <3> QED
      BY <2>5, <3>1, <3>2
  <2> QED
    BY <1>2, <2>1, <2>2, <2>3, <2>8, <2>9
<1>7. ASSUME NEW r \in Runs, RunActive(r) PROVE Inv'
  <2>1. Message("activity", 0, r) \in Messages /\ Message("activity", 0, r).kind = "activity"
    BY MessageType DEF Message
  <2>2. /\ inbox' = Append(inbox, Message("activity", 0, r))
        /\ UNCHANGED <<phase, outcome>>
    BY <1>7 DEF RunActive, SendMessage
  <2>3. ResponseInv' /\ NoticeInv'
    BY <1>1, <2>1, <2>2, OtherSent
  <2> QED
    BY <1>2, <2>2, <2>3 DEF PhaseInv
<1> QED
  BY <1>3, <1>4, <1>5, <1>6, <1>7

-----------------------------------------------------------------------------
(* The steps of the receiver *)

LEMMA ReadStep == ASSUME Inv, TypeOK', Read PROVE Inv'
<1> USE DEF Inv
<1> DEFINE m == Head(inbox)
<1>1. /\ inbox # <<>> /\ Receive(m)
      /\ UNCHANGED <<phase, outcome, wire, accepted, command, requestId, ui, awaiting>>
  BY DEF Read, ReadResponse, ReadActivity, ReadTerminal, ReadEof, Receive, promptVars, waitVars
<1>2. PhaseInv' /\ WireInv' /\ AcceptedInv' /\ \A id : OnWire(id)' <=> OnWire(id)
  BY <1>1, ServerRests
<1>3. m = inbox[1] /\ 1 \in DOMAIN inbox
  BY <1>1, TailFacts DEF TypeOK
<1>4. CASE ReadResponse
  <2>1. /\ UNCHANGED <<heard, shown, pending, completion, displaced, warned>>
        /\ m.kind = "response"
        /\ \/ m.id = requestId /\ future' = "resolved" /\ answer' = m.run
           \/ UNCHANGED <<future, answer>>
    BY <1>4 DEF ReadResponse, waitVars, Matches
  <2>2. ResponseInv' /\ NoticeInv'
    BY <1>1, <2>1, Taken
  <2>3. HeardInv' /\ OutcomeIsOwn' /\ \A r : IsShown(r)' <=> IsShown(r)
    BY <1>1, <2>1, ShownRests
  <2>4. FutureInv'
    BY <1>1, <1>3, <2>1 DEF FutureInv, ResponseInv, OnWire
  <2>5. PromptInv' /\ AwaitsOwnRun' /\ EndNotMissed' /\ EveryChatReported'
    BY <1>1, <1>2, <2>1, <2>3
    DEF PromptInv, AwaitsOwnRun, EndNotMissed, EveryChatReported, IsShown
  <2> QED
    BY <1>2, <2>2, <2>3, <2>4, <2>5
<1>5. CASE ReadActivity
  <2>1. UNCHANGED <<heard, shown, pending, completion, displaced, warned, future, answer>>
    BY <1>5 DEF ReadActivity, waitVars
  <2>2. ResponseInv' /\ NoticeInv'
    BY <1>1, <2>1, Taken
  <2>3. HeardInv' /\ OutcomeIsOwn' /\ \A r : IsShown(r)' <=> IsShown(r)
    BY <1>1, <2>1, ShownRests
  <2>4. FutureInv'
    BY <1>1, <1>2, <2>1 DEF FutureInv
  <2>5. PromptInv' /\ AwaitsOwnRun' /\ EndNotMissed' /\ EveryChatReported'
    BY <1>1, <1>2, <2>1, <2>3
    DEF PromptInv, AwaitsOwnRun, EndNotMissed, EveryChatReported, IsShown
  <2> QED
    BY <1>2, <2>2, <2>3, <2>4, <2>5
<1>6. CASE ReadEof
  <2>1. /\ UNCHANGED <<heard, shown, pending, displaced, answer>>
        /\ future' = "resolved" => future = "resolved"
        /\ IF awaiting # None THEN completion' = TRUE /\ warned' = warned \cup {awaiting}
                              ELSE UNCHANGED <<completion, warned>>
    BY <1>6 DEF ReadEof
  <2>2. ResponseInv' /\ NoticeInv'
    BY <1>1, <2>1, Taken
  <2>3. HeardInv' /\ OutcomeIsOwn' /\ \A r : IsShown(r)' <=> IsShown(r)
    BY <1>1, <2>1, ShownRests
  <2>4. FutureInv'
    BY <1>1, <1>2, <2>1 DEF FutureInv
  <2>5. PromptInv'
    BY <1>1, <1>2, <2>1, <2>3 DEF PromptInv, AwaitsOwnRun
  <2>6. AwaitsOwnRun' /\ EndNotMissed' /\ EveryChatReported'
    BY <1>1, <2>1 DEF AwaitsOwnRun, EndNotMissed, EveryChatReported
  <2> QED
    BY <1>2, <2>2, <2>3, <2>4, <2>5, <2>6
<1>7. CASE ReadTerminal
  <2> DEFINE r == m.run
  <2>1. /\ m.kind \in Outcomes /\ r \in Runs /\ phase[r] = "told" /\ outcome[r] \in Outcomes
        /\ r \notin heard
    BY <1>3, <1>7 DEF ReadTerminal, NoticeInv
  <2>2. heard' = heard \cup {r} /\ UNCHANGED <<warned, future, answer>>
    BY <1>7 DEF ReadTerminal
  <2>3. ResponseInv' /\ NoticeInv'
    BY <1>1, <2>1, <2>2, Taken
  <2>4. FutureInv'
    BY <1>1, <1>2, <2>2 DEF FutureInv
  <2>5. ~IsShown(r)
    BY <2>1 DEF HeardInv, IsShown
  <2>6. CASE awaiting = None
    <3>1. /\ pending' = r /\ UNCHANGED <<completion, shown>>
          /\ displaced \subseteq displaced'
          /\ pending # None => pending \in displaced'
      BY <1>7, <2>6 DEF ReadTerminal, Keep
    <3>2. \A q : IsShown(q)' <=> IsShown(q)
      BY <3>1 DEF IsShown
    <3>3. HeardInv' /\ OutcomeIsOwn'
      BY <1>1, <2>1, <2>2, <2>5, <3>1, <3>2 DEF HeardInv, OutcomeIsOwn, IsShown
    <3>4. PromptInv'
      <4>1. ui = "requesting" /\ accepted[requestId] \in heard' =>
                r = accepted[requestId] \/ accepted[requestId] \in displaced'
        BY <2>2, <3>1, ClientAssumption DEF PromptInv, TypeOK
      <4> QED
        BY <1>1, <1>2, <2>2, <2>6, <3>1, <3>2, <4>1 DEF PromptInv, AwaitsOwnRun
    <3>5. AwaitsOwnRun' /\ EndNotMissed' /\ EveryChatReported'
      BY <1>1, <2>2, <2>6, <3>1 DEF AwaitsOwnRun, EndNotMissed, EveryChatReported
    <3> QED
      BY <1>2, <2>3, <2>4, <3>3, <3>4, <3>5
  <2>7. CASE awaiting # None /\ r = awaiting
    <3>1. /\ UNCHANGED <<pending, displaced>> /\ completion' = TRUE
          /\ shown' = Append(shown, [run |-> r, outcome |-> outcome[r]])
      BY <1>7, <2>7 DEF ReadTerminal, IsAwaited, Show
    <3>2. r \in Own
      BY <2>7 DEF TypeOK
    <3>3. /\ \A i \in DOMAIN shown' :
                 \/ i \in DOMAIN shown /\ shown'[i] = shown[i]
                 \/ i = Len(shown) + 1 /\ shown'[i] = [run |-> r, outcome |-> outcome[r]]
          /\ \A i \in DOMAIN shown : i \in DOMAIN shown' /\ shown'[i] = shown[i]
          /\ Len(shown) + 1 \in DOMAIN shown'
      BY <2>1, <3>1, AppendFacts DEF TypeOK
    <3>4. \A q : IsShown(q)' <=> (IsShown(q) \/ q = r)
      <4>1. shown'[Len(shown) + 1].run = r
        BY <3>3, AppendFacts, <2>1, <3>1 DEF TypeOK
      <4>2. ASSUME NEW q, IsShown(q) PROVE IsShown(q)'
        BY <3>3, <4>2 DEF IsShown
      <4>3. ASSUME NEW q, IsShown(q)' PROVE IsShown(q) \/ q = r
        BY <3>3, <4>3 DEF IsShown
      <4> QED
        BY <3>3, <4>1, <4>2, <4>3 DEF IsShown
    <3>5. HeardInv'
      BY <1>1, <2>1, <2>2, <3>1, <3>3, <3>4 DEF HeardInv
    <3>6. OutcomeIsOwn'
      BY <1>1, <2>5, <3>2, <3>3 DEF OutcomeIsOwn, IsShown
    <3>7. PromptInv'
      BY <1>1, <1>2, <2>2, <2>7, <3>1, <3>4 DEF PromptInv
    <3>8. AwaitsOwnRun' /\ EndNotMissed'
      BY <1>1, <3>1 DEF AwaitsOwnRun, EndNotMissed
    <3>9. EveryChatReported'
      BY <1>1, <2>7 DEF EveryChatReported, PromptInv
    <3> QED
      BY <1>2, <2>3, <2>4, <3>5, <3>6, <3>7, <3>8, <3>9
  <2>8. CASE awaiting # None /\ r # awaiting
    <3>1. UNCHANGED <<pending, displaced, completion, shown>>
      BY <1>7, <2>8 DEF ReadTerminal, IsAwaited
    <3>2. \A q : IsShown(q)' <=> IsShown(q)
      BY <3>1 DEF IsShown
    <3>3. HeardInv' /\ OutcomeIsOwn'
      BY <1>1, <2>1, <2>2, <3>1, <3>2 DEF HeardInv, OutcomeIsOwn
    <3>4. PromptInv'
      BY <1>1, <1>2, <2>2, <2>8, <3>1, <3>2 DEF PromptInv
    <3>5. AwaitsOwnRun' /\ EndNotMissed' /\ EveryChatReported'
      BY <1>1, <2>2, <2>8, <3>1 DEF AwaitsOwnRun, EndNotMissed, EveryChatReported
    <3> QED
      BY <1>2, <2>3, <2>4, <3>3, <3>4, <3>5
  <2> QED
    BY <2>6, <2>7, <2>8
<1> QED
  BY <1>4, <1>5, <1>6, <1>7 DEF Read

-----------------------------------------------------------------------------
(* The steps of the prompt, of the user and of the timers *)

(* A new request: everything under way is about earlier ones. *)
LEMMA NewRequest ==
  ASSUME Inv, NEW what \in Commands, Request(what),
         UNCHANGED <<phase, outcome, inbox, accepted, heard>>
  PROVE  /\ PhaseInv' /\ WireInv' /\ AcceptedInv' /\ ResponseInv' /\ NoticeInv' /\ FutureInv'
         /\ accepted'[requestId'] = None /\ ui' = "requesting" /\ command' = what
<1> USE DEF Inv
<1> DEFINE entry == [id |-> requestId + 1, command |-> what]
<1>1. /\ ui' = "requesting" /\ command' = what /\ future' = "open"
      /\ requestId' = requestId + 1 /\ requestId + 1 \in Ids /\ requestId \in Nat
      /\ wire' = Append(wire, entry) \/ wire' = wire
  BY ClientAssumption DEF Request, TypeOK
<1>2. accepted[requestId + 1] = None
  BY <1>1 DEF AcceptedInv
<1>3. entry \in [id : Ids, command : Commands] /\ entry.id = requestId + 1 /\ entry.command = what
  BY <1>1
<1>4. /\ \A i \in DOMAIN wire' : \/ i \in DOMAIN wire /\ wire'[i] = wire[i]
                                 \/ i = Len(wire) + 1 /\ wire'[i] = entry
      /\ \A i \in DOMAIN wire : wire[i].id \in Nat /\ wire[i].id <= requestId
  <2>1. wire \in Seq([id : Ids, command : Commands])
    BY DEF TypeOK
  <2>2. \A i \in DOMAIN wire' : \/ i \in DOMAIN wire /\ wire'[i] = wire[i]
                                \/ i = Len(wire) + 1 /\ wire'[i] = entry
    BY <1>1, <1>3, <2>1, AppendFacts
  <2>3. \A i \in DOMAIN wire : wire[i] \in [id : Ids, command : Commands]
    BY <2>1, Elements
  <2>4. \A i \in DOMAIN wire : wire[i].id \in Nat
    BY <2>3, ClientAssumption
  <2> QED
    BY <2>2, <2>4 DEF WireInv
<1>5. WireInv'
  <2>1. ASSUME NEW i \in DOMAIN wire'
        PROVE  /\ wire'[i].id <= requestId' /\ accepted'[wire'[i].id] = None
               /\ wire'[i].id = requestId' => wire'[i].command = command'
    BY <1>1, <1>2, <1>3, <1>4 DEF WireInv
  <2>2. ASSUME NEW i \in DOMAIN wire', NEW j \in DOMAIN wire', wire'[i].id = wire'[j].id
        PROVE  i = j
    BY <1>1, <1>3, <1>4, <2>2 DEF WireInv
  <2> QED
    BY <2>1, <2>2 DEF WireInv
<1>6. PhaseInv' /\ AcceptedInv'
  BY <1>1, <1>2 DEF PhaseInv, AcceptedInv, TypeOK
<1>7. ResponseInv'
  <2> SUFFICES ASSUME NEW i \in DOMAIN inbox, inbox[i].kind = "response"
               PROVE  /\ inbox[i].id \in 1..requestId'
                      /\ \A n \in DOMAIN wire' : wire'[n].id # inbox[i].id
                      /\ inbox[i].run = accepted[inbox[i].id]
    BY DEF ResponseInv, OnWire
  <2>1. /\ inbox[i].id \in 1..requestId
        /\ \A n \in DOMAIN wire : wire[n].id # inbox[i].id
        /\ inbox[i].run = accepted[inbox[i].id]
    BY DEF ResponseInv, OnWire
  <2> QED
    BY <1>1, <1>3, <1>4, <2>1
<1>8. NoticeInv' /\ FutureInv'
  BY <1>1 DEF NoticeInv, FutureInv
<1> QED
  BY <1>1, <1>2, <1>5, <1>6, <1>7, <1>8

(* The steps that show nothing and request nothing. *)
LEMMA QuietStep ==
  ASSUME Inv, TypeOK',
         RequestFails \/ ResponseShown \/ WaitOver \/ Quit \/ Silence \/ Watchdog
  PROVE  Inv'
<1> USE DEF Inv
<1>1. UNCHANGED <<phase, outcome, wire, accepted, command, requestId, inbox, heard, shown,
                  displaced, answer>>
  BY DEF RequestFails, ResponseShown, WaitOver, Quit, Silence, Watchdog, serverVars, promptVars,
         waitVars
<1>2. pending' \in {pending, None} /\ future' \in {future, "none"}
  BY DEF RequestFails, ResponseShown, WaitOver, Quit, Silence, Watchdog, waitVars
<1>3. PhaseInv' /\ WireInv' /\ AcceptedInv' /\ \A id : OnWire(id)' <=> OnWire(id)
  BY <1>1, ServerRests
<1>4. ResponseInv' /\ NoticeInv'
  BY <1>1, InboxRests
<1>5. HeardInv' /\ OutcomeIsOwn' /\ \A r : IsShown(r)' <=> IsShown(r)
  BY <1>1, <1>2, ShownRests
<1>6. FutureInv'
  BY <1>1, <1>2, <1>3 DEF FutureInv
<1>7. ASSUME PromptInv' /\ AwaitsOwnRun' /\ EndNotMissed' /\ EveryChatReported'
      PROVE  Inv'
  BY <1>3, <1>4, <1>5, <1>6, <1>7
<1>8. ASSUME RequestFails PROVE Inv'
  <2>1. /\ UNCHANGED <<awaiting, pending, completion, warned>>
        /\ ui = "requesting" /\ ui' = IF command = "attach" THEN "prompt" ELSE "over"
    BY <1>8 DEF RequestFails, waitVars
  <2>2. PromptInv' /\ AwaitsOwnRun' /\ EndNotMissed'
    BY <1>1, <1>3, <1>5, <2>1 DEF PromptInv, AwaitsOwnRun, EndNotMissed
  <2>3. EveryChatReported'
    BY <1>1, <2>1 DEF EveryChatReported
  <2> QED
    BY <1>7, <2>2, <2>3
<1>9. ASSUME ResponseShown PROVE Inv'
  <2>1. /\ UNCHANGED <<awaiting, pending, completion, warned>>
        /\ ui = "requesting" /\ ui' = "prompt" /\ future = "resolved"
        /\ command = "chat" => answer = None
    BY <1>9 DEF ResponseShown, waitVars
  <2>2. answer = accepted[requestId] /\ ~OnWire(requestId)
    BY <2>1 DEF FutureInv
  <2>3. PromptInv' /\ AwaitsOwnRun' /\ EndNotMissed'
    BY <1>1, <1>3, <1>5, <2>1, <2>2 DEF PromptInv, AwaitsOwnRun, EndNotMissed
  <2>4. EveryChatReported'
    BY <1>1, <2>1, <2>2 DEF EveryChatReported
  <2> QED
    BY <1>7, <2>3, <2>4
<1>10. ASSUME WaitOver PROVE Inv'
  <2>1. /\ UNCHANGED <<completion, warned>> /\ awaiting' = None
        /\ ui = "waiting" /\ ui' = "prompt" /\ completion
    BY <1>10 DEF WaitOver
  <2>2. /\ awaiting # None /\ awaiting = accepted[requestId]
        /\ awaiting \in warned \/ IsShown(awaiting)
    BY <2>1 DEF AwaitsOwnRun, PromptInv
  <2>3. ~OnWire(requestId)
    BY <2>2 DEF WireInv, OnWire
  <2>4. PromptInv' /\ AwaitsOwnRun' /\ EndNotMissed'
    BY <1>1, <1>3, <2>1, <2>3 DEF PromptInv, AwaitsOwnRun, EndNotMissed
  <2>5. EveryChatReported'
    BY <1>1, <2>1, <2>2 DEF EveryChatReported, IsShown
  <2> QED
    BY <1>7, <2>4, <2>5
<1>11. ASSUME Quit PROVE Inv'
  <2>1. UNCHANGED <<awaiting, pending, completion, warned>> /\ ui = "prompt" /\ ui' = "over"
    BY <1>11 DEF Quit, waitVars
  <2>2. PromptInv' /\ AwaitsOwnRun' /\ EndNotMissed' /\ EveryChatReported'
    BY <1>1, <1>3, <1>5, <2>1
    DEF PromptInv, AwaitsOwnRun, EndNotMissed, EveryChatReported
  <2> QED
    BY <1>7, <2>2
<1>12. ASSUME Silence PROVE Inv'
  <2>1. UNCHANGED <<ui, awaiting, pending, completion, warned>>
    BY <1>12 DEF Silence, waitVars, promptVars
  <2>2. PromptInv' /\ AwaitsOwnRun' /\ EndNotMissed' /\ EveryChatReported'
    BY <1>1, <1>3, <1>5, <2>1
    DEF PromptInv, AwaitsOwnRun, EndNotMissed, EveryChatReported
  <2> QED
    BY <1>7, <2>2
<1>13. ASSUME Watchdog PROVE Inv'
  <2>1. /\ UNCHANGED <<ui, awaiting, pending>> /\ ui = "waiting"
        /\ completion' = TRUE /\ warned' = warned \cup {awaiting}
    BY <1>13 DEF Watchdog, Watched, promptVars
  <2>2. PromptInv' /\ AwaitsOwnRun' /\ EndNotMissed' /\ EveryChatReported'
    BY <1>1, <1>3, <1>5, <2>1
    DEF PromptInv, AwaitsOwnRun, EndNotMissed, EveryChatReported
  <2> QED
    BY <1>7, <2>2
<1> QED
  BY <1>8, <1>9, <1>10, <1>11, <1>12, <1>13

(* The chat is accepted: its end is shown now if it was kept. *)
LEMMA AcceptedStep == ASSUME Inv, TypeOK', ChatAccepted PROVE Inv'
<1> USE DEF Inv
<1>1. /\ UNCHANGED <<phase, outcome, wire, accepted, command, requestId, inbox, heard,
                     displaced, answer, warned>>
      /\ ui = "requesting" /\ ui' = "waiting" /\ command = "chat" /\ future = "resolved"
      /\ future' = "none" /\ awaiting' = answer /\ answer # None /\ pending' = None
  BY DEF ChatAccepted, serverVars
<1>2. PhaseInv' /\ WireInv' /\ AcceptedInv' /\ \A id : OnWire(id)' <=> OnWire(id)
  BY <1>1, ServerRests
<1>3. ResponseInv' /\ NoticeInv' /\ FutureInv'
  BY <1>1, InboxRests DEF FutureInv
<1>4. answer = accepted[requestId] /\ answer \in Own /\ ~completion
  BY <1>1 DEF FutureInv, PromptInv, TypeOK
<1>5. AwaitsOwnRun' /\ EveryChatReported'
  BY <1>1, <1>4 DEF AwaitsOwnRun, EveryChatReported
<1>6. CASE pending = answer
  <2> DEFINE entry == [run |-> answer, outcome |-> outcome[answer]]
  <2>1. answer \in heard /\ ~IsShown(answer) /\ outcome[answer] \in Outcomes
    BY <1>1, <1>4, <1>6 DEF HeardInv, PhaseInv, TypeOK
  <2>2. shown' = Append(shown, entry) /\ completion' = TRUE
    BY <1>6 DEF ChatAccepted, Show
  <2>3. entry \in [run : Runs, outcome : Outcomes]
    BY <1>4, <2>1
  <2>4. /\ \A i \in DOMAIN shown' : \/ i \in DOMAIN shown /\ shown'[i] = shown[i]
                                    \/ i = Len(shown) + 1 /\ shown'[i] = entry
        /\ Len(shown) + 1 \in DOMAIN shown' /\ shown'[Len(shown) + 1] = entry
    BY <2>2, <2>3, AppendFacts DEF TypeOK
  <2>5. HeardInv'
    BY <1>1, <2>1, <2>4 DEF HeardInv
  <2>6. OutcomeIsOwn'
    BY <1>1, <1>4, <2>1, <2>4 DEF OutcomeIsOwn, IsShown
  <2>7. IsShown(answer)'
    BY <1>1, <2>4 DEF IsShown
  <2>8. PromptInv' /\ EndNotMissed'
    BY <1>1, <2>2, <2>7 DEF PromptInv, EndNotMissed, IsShown
  <2> QED
    BY <1>2, <1>3, <1>5, <2>5, <2>6, <2>8
<1>7. CASE pending # answer
  <2>1. UNCHANGED <<shown, completion>>
    BY <1>7 DEF ChatAccepted
  <2>2. HeardInv' /\ OutcomeIsOwn'
    BY <1>1, <2>1, ShownRests
  <2>3. PromptInv' /\ EndNotMissed'
    BY <1>1, <1>4, <1>7, <2>1 DEF PromptInv, EndNotMissed
  <2> QED
    BY <1>2, <1>3, <1>5, <2>2, <2>3
<1> QED
  BY <1>6, <1>7

(* The user sends a request or a chat. *)
LEMMA SendStep == ASSUME Inv, TypeOK', SendControl \/ SendChat PROVE Inv'
<1> USE DEF Inv
<1>1. PICK what \in Commands :
          /\ Request(what)
          /\ UNCHANGED <<phase, outcome, inbox, accepted, heard, displaced, shown, warned>>
          /\ pending' \in {pending, None} /\ awaiting' \in {awaiting, None}
          /\ what = "chat" => ~completion'
  BY DEF SendControl, SendChat, Reset, waitVars
<1>2. /\ PhaseInv' /\ WireInv' /\ AcceptedInv' /\ ResponseInv' /\ NoticeInv' /\ FutureInv'
      /\ accepted'[requestId'] = None /\ ui' = "requesting" /\ command' = what
  BY <1>1, NewRequest
<1>3. HeardInv' /\ OutcomeIsOwn'
  BY <1>1, ShownRests
<1>4. awaiting' = None
  BY <1>1 DEF PromptInv, Request
<1>5. PromptInv' /\ AwaitsOwnRun' /\ EndNotMissed' /\ EveryChatReported'
  BY <1>1, <1>2, <1>4, ClientAssumption
  DEF PromptInv, AwaitsOwnRun, EndNotMissed, EveryChatReported, TypeOK
<1> QED
  BY <1>2, <1>3, <1>5

-----------------------------------------------------------------------------
(* The invariant, and what follows from it *)

LEMMA InvInit == Init => Inv
<1> SUFFICES ASSUME Init PROVE Inv
  OBVIOUS
<1>1. TypeOK
  BY TypeInit
<1>2. /\ DOMAIN wire = {1} /\ wire[1].id = 1 /\ wire[1].command = "attach"
      /\ DOMAIN inbox = {} /\ DOMAIN shown = {}
  BY DEF Init
<1>3. 1 \in Ids /\ accepted[1] = None /\ \A k \in Ids : accepted[k] = None
  BY ClientAssumption DEF Init
<1>4. PhaseInv /\ WireInv /\ AcceptedInv
  BY <1>2, <1>3 DEF Init, PhaseInv, WireInv, AcceptedInv
<1>5. ResponseInv /\ NoticeInv /\ HeardInv /\ FutureInv
  BY <1>2 DEF Init, ResponseInv, NoticeInv, HeardInv, FutureInv
<1>6. PromptInv /\ AwaitsOwnRun /\ OutcomeIsOwn /\ EndNotMissed /\ EveryChatReported
  BY <1>2 DEF Init, PromptInv, AwaitsOwnRun, OutcomeIsOwn, EndNotMissed, EveryChatReported
<1> QED
  BY <1>1, <1>4, <1>5, <1>6 DEF Inv

LEMMA InvStep == Inv /\ [Next]_vars => Inv'
<1> SUFFICES ASSUME Inv, [Next]_vars PROVE Inv'
  OBVIOUS
<1>1. CASE Server
  <2>1. TypeOK'
    BY <1>1, ServerType DEF Inv
  <2> QED
    BY <1>1, <2>1, ServeStep, ServerStep DEF Server
<1>2. CASE Read
  <2>1. TypeOK'
    BY <1>2, ReadType DEF Inv
  <2> QED
    BY <1>2, <2>1, ReadStep
<1>3. CASE Continue \/ User \/ RequestTimesOut \/ Silence \/ Watchdog
  <2>1. TypeOK'
    BY <1>3, PromptType DEF Inv, AwaitsOwnRun
  <2> QED
    BY <1>3, <2>1, QuietStep, AcceptedStep, SendStep
    DEF Continue, ConnectionLost, User, RequestTimesOut
<1>4. CASE UNCHANGED vars
  <2>1. UNCHANGED <<phase, outcome, wire, accepted, command, requestId, inbox, heard, shown, ui,
                    displaced, answer, pending, future, awaiting, completion, warned>>
    BY <1>4 DEF vars, serverVars, promptVars, waitVars
  <2>2. TypeOK'
    BY <1>4 DEF Inv, TypeOK, vars, serverVars, promptVars, waitVars
  <2>3. PhaseInv' /\ WireInv' /\ AcceptedInv' /\ ResponseInv' /\ NoticeInv'
    BY <2>1, ServerRests, InboxRests DEF Inv
  <2>4. HeardInv' /\ OutcomeIsOwn' /\ FutureInv'
    BY <2>1, ShownRests DEF Inv, FutureInv, OnWire
  <2>5. PromptInv' /\ AwaitsOwnRun' /\ EndNotMissed' /\ EveryChatReported'
    BY <2>1 DEF Inv, PromptInv, OnWire, IsShown, AwaitsOwnRun, EndNotMissed, EveryChatReported
  <2> QED
    BY <2>2, <2>3, <2>4, <2>5 DEF Inv
<1> QED
  BY <1>1, <1>2, <1>3, <1>4 DEF Next

(* The invariant holds in every behaviour of the client. *)
LEMMA Invariant == Spec => []Inv
<1> QED
  BY InvInit, InvStep, PTL DEF Spec

(* Every variable of the client keeps its type (client/cli/app,            *)
(* client/transport).                                                      *)
THEOREM TypeCorrect == Spec => []TypeOK
<1>1. Inv => TypeOK
  BY DEF Inv
<1> QED
  BY <1>1, Invariant, PTL

(* However late responses come and whatever requests were given up, the    *)
(* client waits for the run its own chat was accepted as (_send_chat).     *)
THEOREM WaitsForOwn == Spec => []AwaitsOwnRun
<1>1. Inv => AwaitsOwnRun
  BY DEF Inv
<1> QED
  BY <1>1, Invariant, PTL

(* What is shown is the outcome of a run of this client, once              *)
(* (_handle_completed, _handle_failed).                                    *)
THEOREM ShowsOwnOnce == Spec => []OutcomeIsOwn
<1>1. Inv => OutcomeIsOwn
  BY DEF Inv
<1> QED
  BY <1>1, Invariant, PTL

(* A notice that was read before the wait is not lost, unless another one  *)
(* took its place in _pending_terminal.                                    *)
THEOREM MissesOnlyDisplaced == Spec => []EndNotMissed
<1>1. Inv => EndNotMissed
  BY DEF Inv
<1> QED
  BY <1>1, Invariant, PTL

(* The prompt returns from an accepted chat with its end or a warning      *)
(* (_wait_for_completion, _watch_connection).                              *)
THEOREM ReportsEveryChat == Spec => []EveryChatReported
<1>1. Inv => EveryChatReported
  BY DEF Inv
<1> QED
  BY <1>1, Invariant, PTL

=============================================================================
