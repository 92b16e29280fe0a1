---------------------------- MODULE AgentLoopProofs ----------------------------
(***************************************************************************)
(* Proofs about AgentLoop for any step limit and any number of calls in a  *)
(* response.  RequestsWellFormed speaks of the moments of a request; to be *)
(* preserved it needs to know whose turn it is at every place of the loop, *)
(* and that the calls the loop works on are those of the last response, or *)
(* of a stream that was torn.                                              *)
(***************************************************************************)
EXTENDS AgentLoop, FiniteSetTheorems, TLAPS

USE DEF Places, Arguments, Reasons, Stages, Slots, streamVars

Working == pc \in {"tools", "tool_started", "executing", "tool_finished"}

(* While the response streams, exactly the ended blocks are calls.  A call *)
(* that is not marked as truncated could be parsed.                        *)
StreamInv ==
    /\ calls \subseteq DOMAIN blocks
    /\ pc = "stream" => answered = {}
    /\ pc = "stream" /\ stream = "open" => calls = {i \in DOMAIN blocks : blocks[i].ended}
    /\ \A i \in calls \ truncated : blocks[i].got # "part"
    /\ pc \in {"tool_started", "executing"} => current \in calls \ answered
    /\ step \in torn <=> stream = "closed"
    /\ \A s \in torn : s <= step
    /\ pc = "step" \/ Working => step <= MaxSteps
    /\ pc = "stream" \/ Working => step >= 1

(* Whose turn it is.  A torn response is not in the conversation, but its  *)
(* calls are worked on.                                                    *)
TurnInv ==
    /\ messages # <<>>
    /\ Dialogue(messages)
    /\ pc \in {"step", "stream"} => messages[Len(messages)].from = "user"
    /\ Working => /\ calls # {}
                  /\ IF step \in torn
                     THEN messages[Len(messages)].from = "user"
                     ELSE messages[Len(messages)] = Message("assistant", calls)

Inv == TypeOK /\ StreamInv /\ TurnInv /\ NoPartialCallRuns

-----------------------------------------------------------------------------
(* Types *)

(* The places of the response are those of its calls. *)
LEMMA BlockType ==
  ASSUME TypeOK, NEW i \in DOMAIN blocks
  PROVE  i \in Slots /\ blocks[i] \in Block
<1>1. blocks \in Seq(Block) /\ Len(blocks) <= MaxBlocks
  BY DEF TypeOK
<1>2. Len(blocks) \in Nat /\ i \in 1..Len(blocks)
  BY <1>1
<1> QED
  BY <1>1, <1>2, LoopAssumption

(* A block whose arguments grow, or that ends, is still a block. *)
LEMMA BlockChange ==
  ASSUME TypeOK, NEW i \in DOMAIN blocks, NEW got \in Arguments
  PROVE  /\ [blocks EXCEPT ![i].got = got] \in Seq(Block)
         /\ [blocks EXCEPT ![i].ended = TRUE] \in Seq(Block)
         /\ Len([blocks EXCEPT ![i].got = got]) = Len(blocks)
         /\ Len([blocks EXCEPT ![i].ended = TRUE]) = Len(blocks)
<1>1. blocks \in Seq(Block) /\ blocks[i] \in Block
  BY BlockType DEF TypeOK
<1>2. [blocks[i] EXCEPT !.got = got] \in Block /\ [blocks[i] EXCEPT !.ended = TRUE] \in Block
  BY <1>1 DEF Block
<1>3. ASSUME NEW b \in Block
      PROVE  [blocks EXCEPT ![i] = b] \in Seq(Block) /\ Len([blocks EXCEPT ![i] = b]) = Len(blocks)
  BY <1>1
<1> QED
  BY <1>2, <1>3

(* What is said in the conversation. *)
LEMMA MessageType ==
  ASSUME TypeOK, NEW from \in {"user", "assistant"}, NEW its \in SUBSET Slots
  PROVE  Message(from, its) \in Messages
  BY LoopAssumption DEF TypeOK, Message, Messages

(* Events go to the end of the trace. *)
LEMMA RecordType ==
  ASSUME TypeOK, NEW stage \in Stages, NEW at \in Nat, Record(stage, at)
  PROVE  trace' \in Seq(Event)
<1>1. [stage |-> stage, step |-> at] \in Event
  BY DEF Event
<1> QED
  BY <1>1 DEF TypeOK, Record

(* A run starts in the types. *)
LEMMA TypeInit == Init => TypeOK
<1> SUFFICES ASSUME Init PROVE TypeOK
  OBVIOUS
<1>1. [from |-> "user", step |-> 0, calls |-> {}] \in Messages
  BY DEF Messages
<1>2. messages \in Seq(Messages)
  BY <1>1 DEF Init
<1>3. step \in 0..MaxSteps + 1 /\ Len(blocks) <= MaxBlocks
  BY LoopAssumption DEF Init
<1>4. blocks \in Seq(Block) /\ trace \in Seq(Event)
  BY DEF Init
<1>5. calls \in SUBSET Slots /\ truncated \in SUBSET calls /\ answered \in SUBSET calls
  BY DEF Init
<1>6. ran \in SUBSET [step : Nat, call : Slots, got : Arguments]
  BY DEF Init
<1> QED
  BY <1>2, <1>3, <1>4, <1>5, <1>6 DEF Init, TypeOK

(* Every step keeps the types.  The call being answered is one of the      *)
(* response, which StreamInv knows.                                        *)
LEMMA TypeStep == TypeOK /\ StreamInv /\ [Next]_vars => TypeOK'
<1> SUFFICES ASSUME TypeOK, StreamInv, [Next]_vars PROVE TypeOK'
  OBVIOUS
<1> USE LoopAssumption
<1>0. step \in Nat
  BY DEF TypeOK
<1>1. ASSUME Request, step <= MaxSteps PROVE TypeOK'
  <2>1. trace' \in Seq(Event)
    BY <1>0, <1>1, RecordType DEF Request
  <2> QED
    BY <1>1, <2>1 DEF TypeOK, Request
<1>2. CASE StartStep
  BY <1>1, <1>2 DEF StartStep, WithinLimit, TypeOK
<1>3. CASE StartFinalStep
  <2>1. step <= MaxSteps
    BY <1>3 DEF StartFinalStep, StreamInv
  <2> QED
    BY <1>1, <1>3, <2>1 DEF StartFinalStep
<1>4. CASE StopAtLimit
  BY <1>4 DEF TypeOK, StopAtLimit
<1>5. CASE BlockStart
  <2>1. PICK b \in Block : blocks' = Append(blocks, b)
    BY <1>5 DEF BlockStart, Block
  <2> QED
    BY <1>5, <2>1 DEF TypeOK, BlockStart
<1>6. CASE ArgumentsDelta
  <2>1. Len(blocks) \in DOMAIN blocks
    BY <1>6 DEF TypeOK, ArgumentsDelta, CutShort
  <2>2. PICK got \in Arguments : blocks' = [blocks EXCEPT ![Len(blocks)].got = got]
    BY <1>6 DEF ArgumentsDelta
  <2>3. blocks' \in Seq(Block) /\ Len(blocks') = Len(blocks)
    BY <2>1, <2>2, BlockChange
  <2> QED
    BY <1>6, <2>3 DEF TypeOK, ArgumentsDelta
<1>7. CASE MessageStop
  <2>1. \A i \in DOMAIN blocks : i \in Slots
    BY BlockType
  <2>2. calls' \in SUBSET Slots /\ truncated' \in SUBSET calls' /\ calls \subseteq calls'
    BY <1>7, <2>1 DEF TypeOK, MessageStop
  <2> QED
    BY <1>7, <2>2 DEF TypeOK, MessageStop
<1>8. ASSUME NEW i \in Slots, BlockStop(i) PROVE TypeOK'
  <2>1. blocks' \in Seq(Block) /\ Len(blocks') = Len(blocks)
    BY <1>8, BlockChange DEF BlockStop
  <2>2. calls' \in SUBSET Slots /\ truncated' \in SUBSET calls' /\ calls \subseteq calls'
    BY <1>8 DEF TypeOK, BlockStop
  <2> QED
    BY <1>8, <2>1, <2>2 DEF TypeOK, BlockStop
<1>9. CASE StreamCloses
  <2>1. step \in 1..MaxSteps + 1
    BY <1>9 DEF TypeOK, StreamInv, StreamCloses, Streaming
  <2> QED
    BY <1>9, <2>1 DEF TypeOK, StreamCloses
<1>10. CASE StepFinished
  <2>1. messages' \in Seq(Messages)
    BY <1>10, MessageType DEF TypeOK, StepFinished
  <2>2. trace' \in Seq(Event)
    BY <1>0, <1>10, RecordType DEF StepFinished
  <2>3. stopReason' \in Reasons /\ pc' \in Places
    BY <1>10 DEF StepFinished
  <2> QED
    BY <1>10, <2>1, <2>2, <2>3 DEF TypeOK, StepFinished
<1>11. CASE LlmRaises \/ NextCall \/ NotRecorded \/ Cancelled
  BY <1>11 DEF TypeOK, LlmRaises, NextCall, NotRecorded, Cancelled
<1>12. CASE ToolStarted
  <2>1. trace' \in Seq(Event)
    BY <1>0, <1>12, RecordType DEF ToolStarted
  <2> QED
    BY <1>12, <2>1 DEF TypeOK, ToolStarted
<1>13. ASSUME NEW stage \in Stages, Answer(current, stage), current \in calls,
              UNCHANGED <<finalize, step, streamVars, current, messages, stopReason,
                          ran, torn>>
       PROVE  TypeOK'
  <2>1. trace' \in Seq(Event)
    BY <1>0, <1>13, RecordType DEF Answer
  <2> QED
    BY <1>13, <2>1 DEF TypeOK, Answer
<1>14. CASE Refuse \/ HandlerEnds
  BY <1>13, <1>14 DEF StreamInv, Refuse, HandlerEnds
<1>15. CASE Execute
  <2>1. current \in DOMAIN blocks /\ current \in Slots
    BY <1>15 DEF TypeOK, StreamInv, Execute
  <2>2. blocks[current].got \in Arguments
    BY <2>1, BlockType DEF Block
  <2>3. [step |-> step, call |-> current, got |-> blocks[current].got]
           \in [step : Nat, call : Slots, got : Arguments]
    BY <1>0, <2>1, <2>2
  <2> QED
    BY <1>15, <2>3 DEF TypeOK, Execute
<1>16. CASE ReturnResults
  BY <1>16, MessageType DEF TypeOK, ReturnResults, Results
<1>17. CASE UNCHANGED vars
  BY <1>17 DEF TypeOK, vars
<1> QED
  BY <1>2, <1>3, <1>4, <1>5, <1>6, <1>7, <1>8, <1>9, <1>10, <1>11, <1>12, <1>14, <1>15,
     <1>16, <1>17 DEF Next, Advance

-----------------------------------------------------------------------------
(* The response and its calls *)

(* A step of the loop or of the stream keeps StreamInv. *)
LEMMA StreamStep == TypeOK /\ StreamInv /\ [Next]_vars => StreamInv'
<1> SUFFICES ASSUME TypeOK, StreamInv, [Next]_vars PROVE StreamInv'
  OBVIOUS
<1> USE LoopAssumption
<1>1. CASE StartStep \/ StartFinalStep \/ StopAtLimit
  BY <1>1 DEF TypeOK, StreamInv, Working, StartStep, StartFinalStep, StopAtLimit, Request
<1>2. CASE BlockStart
  <2>1. PICK b \in Block : blocks' = Append(blocks, b) /\ ~b.ended
    <3>1. PICK got \in Arguments : blocks' = Append(blocks, [got |-> got, ended |-> FALSE])
      BY <1>2 DEF BlockStart
    <3>2. [got |-> got, ended |-> FALSE] \in Block
      BY DEF Block
    <3> QED
      BY <3>1, <3>2
  <2>2. \A i \in DOMAIN blocks : i \in DOMAIN blocks' /\ blocks'[i] = blocks[i]
    BY <2>1 DEF TypeOK
  <2>3. \A i \in DOMAIN blocks' : i \in DOMAIN blocks \/ ~blocks'[i].ended
    BY <2>1 DEF TypeOK
  <2>4. calls = {i \in DOMAIN blocks' : blocks'[i].ended}
    BY <1>2, <2>2, <2>3 DEF StreamInv, BlockStart, Streaming
  <2> QED
    BY <1>2, <2>2, <2>4 DEF StreamInv, BlockStart, Streaming, Working
<1>3. CASE ArgumentsDelta
  <2> DEFINE n == Len(blocks)
  <2>1. n \in DOMAIN blocks /\ ~blocks[n].ended /\ n \notin calls
    BY <1>3 DEF TypeOK, StreamInv, ArgumentsDelta, CutShort, Streaming
  <2>2. /\ DOMAIN blocks' = DOMAIN blocks
        /\ \A i \in DOMAIN blocks : blocks'[i].ended = blocks[i].ended
        /\ \A i \in DOMAIN blocks \ {n} : blocks'[i] = blocks[i]
    <3>1. PICK got \in Arguments : blocks' = [blocks EXCEPT ![n].got = got]
      BY <1>3 DEF ArgumentsDelta
    <3>2. blocks[n] \in Block
      BY <2>1, BlockType
    <3> QED
      BY <2>1, <3>1, <3>2 DEF TypeOK, Block
  <2>3. calls = {i \in DOMAIN blocks' : blocks'[i].ended}
    BY <1>3, <2>2 DEF StreamInv, ArgumentsDelta, Streaming
  <2> QED
    BY <1>3, <2>1, <2>2, <2>3 DEF StreamInv, ArgumentsDelta, Streaming, Working
<1>4. CASE MessageStop
  BY <1>4 DEF StreamInv, MessageStop, Streaming, Working
<1>5. ASSUME NEW i \in Slots, BlockStop(i) PROVE StreamInv'
  <2>1. /\ DOMAIN blocks' = DOMAIN blocks
        /\ blocks'[i].ended /\ blocks'[i].got = blocks[i].got
        /\ \A j \in DOMAIN blocks \ {i} : blocks'[j] = blocks[j]
    <3>1. i \in DOMAIN blocks /\ blocks[i] \in Block
      BY <1>5, BlockType DEF BlockStop
    <3> QED
      BY <1>5, <3>1 DEF TypeOK, BlockStop, Block
  <2>2. calls' = {j \in DOMAIN blocks' : blocks'[j].ended}
    BY <1>5, <2>1 DEF StreamInv, BlockStop, Streaming
  <2>3. \A j \in calls' \ truncated' : blocks'[j].got # "part"
    BY <1>5, <2>1 DEF StreamInv, BlockStop, ParseFails
  <2> QED
    BY <1>5, <2>1, <2>2, <2>3 DEF StreamInv, BlockStop, Streaming, Working
<1>6. CASE LlmRaises \/ NotRecorded \/ Cancelled
  BY <1>6 DEF StreamInv, LlmRaises, NotRecorded, Cancelled, Streaming, Working
<1>11. CASE StreamCloses
  <2>1. /\ pc = "stream" /\ stream' = "closed" /\ torn' = torn \cup {step} /\ step \in Nat
        /\ UNCHANGED <<pc, step, blocks, calls, truncated, answered, current>>
    BY <1>11 DEF TypeOK, StreamCloses, Streaming
  <2>2. step \in torn' /\ (\A s \in torn' : s <= step)
    BY <2>1 DEF StreamInv
  <2> QED
    BY <2>1, <2>2 DEF StreamInv, Working
<1>7. CASE StepFinished
  BY <1>7 DEF TypeOK, StreamInv, StepFinished, Offered, Working
<1>8. CASE ToolStarted \/ Execute \/ NextCall \/ ReturnResults
  BY <1>8 DEF StreamInv, ToolStarted, Execute, NextCall, ReturnResults, Working
<1>9. CASE Refuse \/ HandlerEnds
  BY <1>9 DEF StreamInv, Refuse, HandlerEnds, Answer, Working
<1>10. CASE UNCHANGED vars
  BY <1>10 DEF StreamInv, vars, Working
<1> QED
  BY <1>1, <1>2, <1>3, <1>4, <1>5, <1>6, <1>7, <1>8, <1>9, <1>10, <1>11 DEF Next, Advance

(* Execute leaves out the calls that could not be parsed. *)
LEMMA NoPartialCallStep ==
  StreamInv /\ NoPartialCallRuns /\ [Next]_vars => NoPartialCallRuns'
<1> SUFFICES ASSUME StreamInv, NoPartialCallRuns, [Next]_vars PROVE NoPartialCallRuns'
  OBVIOUS
<1>1. CASE Execute
  <2>1. blocks[current].got # "part"
    BY <1>1 DEF StreamInv, Execute, Executable
  <2> QED
    BY <1>1, <2>1 DEF NoPartialCallRuns, Execute
<1>2. CASE UNCHANGED ran
  BY <1>2 DEF NoPartialCallRuns
<1> QED
  BY <1>1, <1>2 DEF Next, Advance, vars, StartStep, StartFinalStep, Request, StopAtLimit,
     BlockStart, ArgumentsDelta, MessageStop, StreamCloses, BlockStop, StepFinished,
     LlmRaises, ToolStarted, Refuse, HandlerEnds, NextCall, ReturnResults, NotRecorded,
     Cancelled

-----------------------------------------------------------------------------
(* The conversation *)

(* A conversation stays well-formed when another stream is torn. *)
LEMMA DialogueKeeps ==
  ASSUME NEW m, Dialogue(m), messages' = m, torn \subseteq torn'
  PROVE  Dialogue(messages)'
  BY DEF Dialogue

(* A response may follow a message of the user. *)
LEMMA ResponseFollows ==
  ASSUME NEW m \in Seq(Messages), m # <<>>, Dialogue(m), m[Len(m)].from = "user",
         NEW answer \in Messages, answer.from = "assistant"
  PROVE  Dialogue(Append(m, answer))
<1> DEFINE n == Len(m)
           all == Append(m, answer)
<1>1. /\ n \in Nat \ {0} /\ Len(all) = n + 1
      /\ DOMAIN m = 1..n /\ DOMAIN all = 1..n + 1
      /\ all[n + 1] = answer
      /\ \A i \in 1..n : all[i] = m[i]
  OBVIOUS
<1>0. m[n].from # all[n + 1].from
  BY <1>1
<1> HIDE DEF n, all
<1>2. \A i \in DOMAIN all \ {1} :
          all[i].from = all[i - 1].from => all[i].from = "user" /\ all[i].step \in torn
  <2> SUFFICES ASSUME NEW i \in 1..n + 1, i # 1, all[i].from = all[i - 1].from
               PROVE  all[i].from = "user" /\ all[i].step \in torn
    BY <1>1
  <2>1. CASE i = n + 1
    <3>1. i - 1 = n /\ all[i - 1] = m[n]
      BY <1>1, <2>1
    <3> QED
      BY <1>0, <2>1, <3>1
  <2>2. CASE i # n + 1
    <3>1. i \in DOMAIN m \ {1} /\ i - 1 \in 1..n /\ all[i] = m[i] /\ all[i - 1] = m[i - 1]
      BY <1>1, <2>2
    <3> QED
      BY <3>1 DEF Dialogue
  <2> QED
    BY <2>1, <2>2
<1>3. ASSUME NEW i \in DOMAIN all, all[i].from = "assistant", i < Len(all)
      PROVE  /\ all[i].calls # {}
             /\ all[i + 1].calls = all[i].calls /\ all[i + 1].step = all[i].step
  <2>1. i \in 1..n - 1
    BY <1>1, <1>3
  <2> QED
    BY <1>1, <1>3, <2>1 DEF Dialogue
<1> QED
  BY <1>1, <1>2, <1>3 DEF Dialogue

(* The results of exactly its calls may follow a response, and those of a  *)
(* torn step a message of the user.                                        *)
LEMMA ResultsFollow ==
  ASSUME NEW m \in Seq(Messages), m # <<>>, Dialogue(m),
         NEW results \in Messages, results.from = "user",
         m[Len(m)].from = "user" => results.step \in torn,
         m[Len(m)].from = "assistant" =>
             /\ m[Len(m)].calls # {}
             /\ results.calls = m[Len(m)].calls /\ results.step = m[Len(m)].step
  PROVE  Dialogue(Append(m, results))
<1> DEFINE n == Len(m)
           all == Append(m, results)
<1>1. /\ n \in Nat \ {0} /\ Len(all) = n + 1
      /\ DOMAIN m = 1..n /\ DOMAIN all = 1..n + 1
      /\ all[n + 1] = results
      /\ \A i \in 1..n : all[i] = m[i]
  OBVIOUS
<1>0. all[n + 1].from = "user" /\ (m[n].from = "user" => all[n + 1].step \in torn)
  BY <1>1
<1> HIDE DEF n, all
<1>2. \A i \in DOMAIN all \ {1} :
          all[i].from = all[i - 1].from => all[i].from = "user" /\ all[i].step \in torn
  <2> SUFFICES ASSUME NEW i \in 1..n + 1, i # 1, all[i].from = all[i - 1].from
               PROVE  all[i].from = "user" /\ all[i].step \in torn
    BY <1>1
  <2>1. CASE i = n + 1
    <3>1. i - 1 = n /\ all[i - 1] = m[n]
      BY <1>1, <2>1
    <3> QED
      BY <1>0, <2>1, <3>1
  <2>2. CASE i # n + 1
    <3>1. i \in DOMAIN m \ {1} /\ i - 1 \in 1..n /\ all[i] = m[i] /\ all[i - 1] = m[i - 1]
      BY <1>1, <2>2
    <3> QED
      BY <3>1 DEF Dialogue
  <2> QED
    BY <2>1, <2>2
<1>3. ASSUME NEW i \in DOMAIN all, all[i].from = "assistant", i < Len(all)
      PROVE  /\ all[i].calls # {}
             /\ all[i + 1].calls = all[i].calls /\ all[i + 1].step = all[i].step
  <2>1. i \in 1..n
    BY <1>1, <1>3
  <2>2. CASE i = n
    BY <1>1, <1>3, <2>2
  <2>3. CASE i # n
    BY <1>1, <1>3, <2>1, <2>3 DEF Dialogue
  <2> QED
    BY <2>2, <2>3
<1> QED
  BY <1>1, <1>2, <1>3 DEF Dialogue

(* Every step keeps the turns: the response enters after a message of the  *)
(* user, and the loop comes back for the next request with the results.    *)
LEMMA TurnStep == TypeOK /\ StreamInv /\ TurnInv /\ [Next]_vars => TurnInv'
<1> SUFFICES ASSUME TypeOK, StreamInv, TurnInv, [Next]_vars PROVE TurnInv'
  OBVIOUS
<1> USE LoopAssumption
<1>0. messages \in Seq(Messages) /\ messages # <<>>
  BY DEF TypeOK, TurnInv
<1>1. CASE StartStep \/ StartFinalStep \/ StopAtLimit
  <2>1. /\ UNCHANGED <<messages, torn>>
        /\ pc' \in {"stream", "returned"} /\ pc = "step"
    BY <1>1 DEF StartStep, StartFinalStep, StopAtLimit, Request
  <2> QED
    BY <2>1, DialogueKeeps DEF TurnInv, Working
<1>2. CASE \/ BlockStart \/ ArgumentsDelta \/ MessageStop \/ StreamCloses
           \/ \E i \in Slots : BlockStop(i)
  <2>1. UNCHANGED <<messages, pc>> /\ torn \subseteq torn' /\ pc = "stream"
    BY <1>2 DEF BlockStart, ArgumentsDelta, MessageStop, StreamCloses, BlockStop, Streaming
  <2> QED
    BY <2>1, DialogueKeeps DEF TurnInv, Working
<1>3. CASE StepFinished
  <2>1. CASE stream = "stopped"
    <3> DEFINE answer == Message("assistant", calls)
    <3>1. answer \in Messages /\ answer.from = "assistant"
      BY MessageType DEF TypeOK, Message
    <3>2. messages' = Append(messages, answer)
      BY <1>3, <2>1 DEF StepFinished
    <3>3. /\ messages' # <<>>
          /\ messages'[Len(messages')] = answer
      BY <1>0, <3>1, <3>2
    <3>4. Dialogue(messages)'
      <4>1. Dialogue(Append(messages, answer))
        BY <1>0, <1>3, <3>1, ResponseFollows DEF TurnInv, StepFinished
      <4>2. torn' = torn
        BY <1>3 DEF StepFinished
      <4> QED
        BY <3>2, <4>1, <4>2, DialogueKeeps
    <3>5. answer = Message("assistant", calls)'
      BY <1>3 DEF StepFinished, Message
    <3>6. pc' \in {"tools", "returned"} /\ (pc' = "tools" => calls' # {})
      BY <1>3 DEF StepFinished
    <3>7. (step \in torn)' = FALSE
      BY <1>3, <2>1 DEF StreamInv, StepFinished
    <3> HIDE DEF answer
    <3> QED
      BY <3>3, <3>4, <3>5, <3>6, <3>7 DEF TurnInv, Working
  <2>2. CASE stream # "stopped"
    <3>1. /\ UNCHANGED <<messages, step, calls, torn>> /\ step \in torn
          /\ pc = "stream" /\ pc' \in {"tools", "returned"} /\ (pc' = "tools" => calls # {})
      BY <1>3, <2>2 DEF TypeOK, StreamInv, StepFinished, StreamOver
    <3> QED
      BY <3>1, DialogueKeeps DEF TurnInv, Working
  <2> QED
    BY <2>1, <2>2
<1>4. CASE LlmRaises \/ NotRecorded \/ Cancelled
  <2>1. UNCHANGED <<messages, torn>> /\ pc' \in {"raised", "cancelled"}
    BY <1>4 DEF LlmRaises, NotRecorded, Cancelled
  <2> QED
    BY <2>1, DialogueKeeps DEF TurnInv, Working
<1>5. CASE ToolStarted \/ Refuse \/ Execute \/ HandlerEnds \/ NextCall
  <2>1. /\ Working /\ Working' /\ pc' \notin {"step", "stream"}
        /\ UNCHANGED <<messages, torn, step, calls>>
    BY <1>5 DEF Working, ToolStarted, Refuse, Execute, HandlerEnds, NextCall, Answer
  <2>2. Message("assistant", calls)' = Message("assistant", calls)
    BY <2>1 DEF Message
  <2> QED
    BY <2>1, <2>2, DialogueKeeps DEF TurnInv
<1>6. CASE ReturnResults
  <2> DEFINE results == Message("user", Results)
  <2>1. results \in Messages
    BY MessageType DEF TypeOK, Results
  <2>2. results.from = "user" /\ results.calls = calls /\ results.step = step
    BY <1>6 DEF ReturnResults, Results, Message
  <2>3. messages' = Append(messages, results)
    BY <1>6 DEF ReturnResults
  <2>4. /\ messages[Len(messages)].from = "user" => step \in torn
        /\ messages[Len(messages)].from = "assistant" =>
               /\ messages[Len(messages)].calls = calls /\ calls # {}
               /\ messages[Len(messages)].step = step
    BY <1>6 DEF TurnInv, Working, ReturnResults, Message
  <2> HIDE DEF results
  <2>5. Dialogue(messages)'
    <3>1. Dialogue(Append(messages, results))
      BY <1>0, <2>1, <2>2, <2>4, ResultsFollow DEF TurnInv
    <3>2. torn' = torn
      BY <1>6 DEF ReturnResults
    <3> QED
      BY <2>3, <3>1, <3>2, DialogueKeeps
  <2>6. messages' # <<>> /\ messages'[Len(messages')].from = "user"
    BY <1>0, <2>1, <2>2, <2>3
  <2>7. pc' = "step"
    BY <1>6 DEF ReturnResults
  <2> QED
    BY <2>5, <2>6, <2>7 DEF TurnInv, Working
<1>7. CASE UNCHANGED vars
  <2>1. UNCHANGED <<messages, torn, step, calls, pc>>
    BY <1>7 DEF vars
  <2>2. Message("assistant", calls)' = Message("assistant", calls)
    BY <2>1 DEF Message
  <2> QED
    BY <2>1, <2>2, DialogueKeeps DEF TurnInv, Working
<1> QED
  BY <1>1, <1>2, <1>3, <1>4, <1>5, <1>6, <1>7 DEF Next, Advance

-----------------------------------------------------------------------------
(* The trace *)

Started(s) == Events(s, {"tool_started"})

Finished(s) == Events(s, Finishes)

Handlers(s) == Cardinality({r \in ran : r.step = s})

(* A step that has begun and its response, in the trace. *)
Responses(s) == <<Events(s, {"step_started"}), Events(s, {"llm_response_done"})>>

(* The run failed or was cancelled: nothing happens any more. *)
Over == pc \in {"raised", "cancelled"}

(* What the trace has of the steps that are over, and of those to come. *)
PastInv ==
    /\ IsFiniteSet(ran)
    /\ \A s \in Nat :
           /\ s > step => /\ Started(s) = 0 /\ Finished(s) = 0 /\ Handlers(s) = 0
                          /\ Responses(s) = <<0, 0>>
           /\ s < step => /\ Started(s) = Finished(s) /\ Handlers(s) <= Started(s)
                          /\ Responses(s)[1] = Responses(s)[2]
                          /\ s > 0 => Started(s) > 0

(* The step that the loop is at: its events count the calls answered so    *)
(* far, and the one that is open.                                          *)
PresentInv ==
    /\ pc = "step" => calls = answered /\ (step > 0 => calls # {})
    /\ Working => calls # {}
    /\ \A s \in Nat : s = step =>
           IF Over
           THEN Started(s) - Finished(s) \in {0, 1} /\ Handlers(s) <= Started(s)
           ELSE LET n == Cardinality(answered)
                IN  /\ Finished(s) = n
                    /\ Started(s) = n + (IF pc \in {"tool_started", "executing"} THEN 1 ELSE 0)
                    /\ Handlers(s) <= n + (IF pc = "executing" THEN 1 ELSE 0)
                    /\ Responses(s)[1] = Responses(s)[2] + (IF pc = "stream" THEN 1 ELSE 0)

(* Results are in the conversation once they are all in the trace. *)
ResultsInv ==
    \A i \in DOMAIN messages, s \in Nat : messages[i].from = "user" /\ messages[i].step = s =>
        /\ s <= step
        /\ s = step => ~Working /\ pc # "stream"
        /\ Finished(s) = Cardinality(messages[i].calls)

(* The reason of the last response that came whole, which asked for tools, *)
(* after the first steps up to s.                                          *)
ReasonAfter(s) == IF 1..s \subseteq torn
                  THEN stopReason = "unknown"
                  ELSE stopReason \in {"tool_use", "max_tokens"}

(* The stop reason is max_steps only at the end, and the end is what it    *)
(* says.                                                                   *)
ReasonInv ==
    /\ pc = "step" \/ Working => ReasonAfter(step)
    /\ pc = "stream" => ReasonAfter(step - 1)
    /\ step > MaxSteps => finalize
    /\ pc = "returned" =>
           IF stopReason = "max_steps"
           THEN /\ step = MaxSteps + (IF finalize THEN 1 ELSE 0)
                /\ step \in 1..MaxSteps => answered # {}
           ELSE /\ step <= MaxSteps /\ answered = {}
                /\ step \notin torn => /\ stopReason \in {"end_turn", "max_tokens"}
                                       /\ messages[Len(messages)] = Message("assistant", {})
                /\ step \in torn => ReasonAfter(step - 1)

TrailInv == PastInv /\ PresentInv /\ ResultsInv /\ ReasonInv

(* Counting events *)
LEMMA EventsNat ==
  ASSUME TypeOK, NEW s, NEW stages
  PROVE  Events(s, stages) \in Nat
<1>1. trace \in Seq(Event) /\ Len(trace) \in Nat /\ DOMAIN trace = 1..Len(trace)
  BY DEF TypeOK
<1>2. IsFiniteSet(1..Len(trace))
  BY <1>1, FS_Interval
<1>3. {i \in DOMAIN trace : trace[i].step = s /\ trace[i].stage \in stages} \in SUBSET (1..Len(trace))
  BY <1>1
<1> QED
  BY <1>2, <1>3, FS_Subset, FS_CardinalityType DEF Events

(* An event that is recorded is counted once. *)
LEMMA Recorded ==
  ASSUME TypeOK, NEW stage, NEW at, Record(stage, at), NEW s, NEW stages
  PROVE  Events(s, stages)' = Events(s, stages) + (IF s = at /\ stage \in stages THEN 1 ELSE 0)
<1> DEFINE n == Len(trace)
           Old == {i \in DOMAIN trace : trace[i].step = s /\ trace[i].stage \in stages}
           New == {i \in DOMAIN trace' : trace'[i].step = s /\ trace'[i].stage \in stages}
<1>1. /\ n \in Nat /\ DOMAIN trace = 1..n /\ DOMAIN trace' = 1..n + 1
      /\ \A i \in 1..n : trace'[i] = trace[i]
      /\ trace'[n + 1] = [stage |-> stage, step |-> at]
  BY DEF TypeOK, Record
<1> HIDE DEF n
<1>2. IsFiniteSet(Old) /\ n + 1 \notin Old
  <2>1. IsFiniteSet(1..n) /\ Old \in SUBSET (1..n)
    BY <1>1, FS_Interval
  <2> QED
    BY <1>1, <2>1, FS_Subset
<1>3. Events(s, stages) = Cardinality(Old) /\ Events(s, stages)' = Cardinality(New)
  BY DEF Events
<1>4. Cardinality(Old) \in Nat
  BY <1>2, FS_CardinalityType
<1>5. trace'[n + 1].step = at /\ trace'[n + 1].stage = stage
  BY <1>1
<1>6. \A i : i \in 1..n + 1 <=> i \in 1..n \/ i = n + 1
  BY <1>1
<1>7. CASE s = at /\ stage \in stages
  <2>1. New = Old \cup {n + 1}
    BY <1>1, <1>5, <1>6, <1>7
  <2> HIDE DEF Old, New
  <2>2. Cardinality(New) = Cardinality(Old) + 1
    BY <1>2, <2>1, FS_AddElement
  <2> QED
    BY <1>3, <1>7, <2>2
<1>8. CASE ~(s = at /\ stage \in stages)
  <2>1. New = Old
    BY <1>1, <1>5, <1>6, <1>8
  <2> HIDE DEF Old, New
  <2>2. Cardinality(New) = Cardinality(Old) + 0
    BY <1>4, <2>1
  <2> QED
    BY <1>3, <1>8, <2>2
<1> QED
  BY <1>7, <1>8

(* Handlers that ran are counted. *)
LEMMA HandlersNat ==
  ASSUME IsFiniteSet(ran), NEW s
  PROVE  Handlers(s) \in Nat
<1>1. {r \in ran : r.step = s} \in SUBSET ran
  OBVIOUS
<1> QED
  BY <1>1, FS_Subset, FS_CardinalityType DEF Handlers

(* An execution is one more, in its step. *)
LEMMA HandlerCounted ==
  ASSUME IsFiniteSet(ran), NEW run, ran' = ran \cup {run}, NEW s
  PROVE  /\ IsFiniteSet(ran') /\ Handlers(s)' \in Nat
         /\ Handlers(s)' <= Handlers(s) + (IF s = run.step THEN 1 ELSE 0)
<1> DEFINE Old == {r \in ran : r.step = s}
           New == {r \in ran' : r.step = s}
<1>1. IsFiniteSet(ran') /\ IsFiniteSet(Old) /\ Cardinality(Old) \in Nat
  <2>1. Old \in SUBSET ran
    OBVIOUS
  <2> QED
    BY <2>1, FS_AddElement, FS_Subset, FS_CardinalityType
<1>2. New = IF s = run.step THEN Old \cup {run} ELSE Old
  OBVIOUS
<1> HIDE DEF Old, New
<1>3. /\ Cardinality(New) \in Nat
      /\ Cardinality(New) <= Cardinality(Old) + (IF s = run.step THEN 1 ELSE 0)
  <2>1. CASE s = run.step
    <3>1. New = Old \cup {run}
      BY <1>2, <2>1
    <3>2. Cardinality(New) = Cardinality(Old) \/ Cardinality(New) = Cardinality(Old) + 1
      BY <1>1, <3>1, FS_AddElement
    <3> QED
      BY <1>1, <2>1, <3>2
  <2>2. CASE s # run.step
    BY <1>1, <1>2, <2>2
  <2> QED
    BY <2>1, <2>2
<1> QED
  BY <1>1, <1>3 DEF Handlers, Old, New

(* Results are counted. *)
LEMMA AnsweredNat ==
  ASSUME TypeOK
  PROVE  IsFiniteSet(answered) /\ Cardinality(answered) \in Nat
<1>1. answered \in SUBSET (1..MaxBlocks) /\ IsFiniteSet(1..MaxBlocks)
  BY LoopAssumption, FS_Interval DEF TypeOK
<1> QED
  BY <1>1, FS_Subset, FS_CardinalityType

(* A step that changes neither trace nor executions keeps the past. *)
LEMMA PastRests ==
  ASSUME PastInv, UNCHANGED <<step, ran, trace>>
  PROVE  /\ PastInv'
         /\ \A s : /\ Started(s)' = Started(s) /\ Finished(s)' = Finished(s)
                   /\ Handlers(s)' = Handlers(s) /\ Responses(s)' = Responses(s)
<1>1. \A s, stages : Events(s, stages)' = Events(s, stages)
  BY DEF Events
<1>2. \A s : /\ Started(s)' = Started(s) /\ Finished(s)' = Finished(s)
             /\ Handlers(s)' = Handlers(s) /\ Responses(s)' = Responses(s)
  BY <1>1 DEF Started, Finished, Responses, Handlers
<1> QED
  BY <1>2 DEF PastInv

(* An event of the current step keeps the past. *)
LEMMA PresentRecorded ==
  ASSUME TypeOK, PastInv, NEW stage, Record(stage, step), UNCHANGED <<step, ran>>
  PROVE  /\ PastInv'
         /\ \A s : /\ Started(s)' =
                         Started(s) + (IF s = step /\ stage = "tool_started" THEN 1 ELSE 0)
                   /\ Finished(s)' =
                         Finished(s) + (IF s = step /\ stage \in Finishes THEN 1 ELSE 0)
                   /\ Responses(s)[1]' =
                         Responses(s)[1] + (IF s = step /\ stage = "step_started" THEN 1 ELSE 0)
                   /\ Responses(s)[2]' =
                         Responses(s)[2] + (IF s = step /\ stage = "llm_response_done" THEN 1 ELSE 0)
                   /\ Handlers(s)' = Handlers(s)
<1>1. \A s, stages : Events(s, stages)' =
                         Events(s, stages) + (IF s = step /\ stage \in stages THEN 1 ELSE 0)
  BY Recorded
<1>2. \A s, stages : Events(s, stages) \in Nat
  BY EventsNat
<1>3. \A s, stages : s # step \/ stage \notin stages => Events(s, stages)' = Events(s, stages)
  BY <1>1, <1>2
<1>4. \A s : Handlers(s)' = Handlers(s)
  BY DEF Handlers
<1>5. \A s : s # step => /\ Started(s)' = Started(s) /\ Finished(s)' = Finished(s)
                         /\ Responses(s)' = Responses(s)
  BY <1>3 DEF Started, Finished, Responses
<1>6. PastInv'
  <2>1. step \in Nat /\ step' = step
    BY LoopAssumption DEF TypeOK
  <2> QED
    BY <1>4, <1>5, <2>1 DEF PastInv
<1> QED
  BY <1>1, <1>4, <1>6 DEF Started, Finished, Responses

(* All that is counted is a number. *)
LEMMA Counts ==
  ASSUME TypeOK, IsFiniteSet(ran)
  PROVE  /\ \A s : /\ Started(s) \in Nat /\ Finished(s) \in Nat /\ Handlers(s) \in Nat
                   /\ Responses(s)[1] \in Nat /\ Responses(s)[2] \in Nat
         /\ IsFiniteSet(answered) /\ Cardinality(answered) \in Nat
         /\ step \in Nat
BY EventsNat, HandlersNat, AnsweredNat, LoopAssumption DEF Started, Finished, Responses, TypeOK

(* A new step begins: nothing of it is in the trace yet. *)
LEMMA RequestTrail ==
  ASSUME TypeOK, StreamInv, TrailInv, pc = "step", step <= MaxSteps, step < MaxSteps \/ finalize, Request
  PROVE  TrailInv'
<1> USE LoopAssumption DEF TrailInv
<1>1. /\ step' = step + 1 /\ Record("step_started", step + 1) /\ pc' = "stream"
      /\ answered' = {}
      /\ UNCHANGED <<finalize, messages, stopReason, ran, torn>>
  BY DEF Request
<1>2. step \in Nat /\ IsFiniteSet(ran) /\ Cardinality(answered) \in Nat
  BY Counts DEF PastInv
<1>3. \A s : /\ Started(s) \in Nat /\ Finished(s) \in Nat /\ Handlers(s) \in Nat
             /\ Responses(s)[1] \in Nat /\ Responses(s)[2] \in Nat
  BY Counts DEF PastInv
<1>4. \A s, stages : Events(s, stages)' =
                         Events(s, stages) + (IF s = step + 1 /\ "step_started" \in stages THEN 1 ELSE 0)
  BY <1>1, Recorded
<1>5. \A s : /\ Started(s)' = Started(s) /\ Finished(s)' = Finished(s)
             /\ Responses(s)[1]' = Responses(s)[1] + (IF s = step + 1 THEN 1 ELSE 0)
             /\ Responses(s)[2]' = Responses(s)[2]
             /\ Handlers(s)' = Handlers(s)
  <2>1. \A s : /\ Started(s)' = Started(s) + 0 /\ Finished(s)' = Finished(s) + 0
               /\ Responses(s)[1]' = Responses(s)[1] + (IF s = step + 1 THEN 1 ELSE 0)
               /\ Responses(s)[2]' = Responses(s)[2] + 0
    BY <1>4 DEF Started, Finished, Responses, Finishes
  <2>2. \A s : Handlers(s)' = Handlers(s)
    BY <1>1 DEF Handlers
  <2> QED
    BY <1>3, <2>1, <2>2
<1>6. /\ \A s \in Nat : s > step => /\ Started(s) = 0 /\ Finished(s) = 0 /\ Handlers(s) = 0
                                    /\ Responses(s)[1] = 0 /\ Responses(s)[2] = 0
      /\ \A s \in Nat : s < step => /\ Started(s) = Finished(s) /\ Handlers(s) <= Started(s)
                                    /\ Responses(s)[1] = Responses(s)[2]
                                    /\ s > 0 => Started(s) > 0
      /\ \A s \in Nat : s = step => /\ Started(s) = Finished(s) /\ Handlers(s) <= Started(s)
                                    /\ Responses(s)[1] = Responses(s)[2]
                                    /\ s > 0 => Started(s) > 0
  <2>1. step > 0 => Cardinality(answered) > 0
    <3>1. Cardinality(answered) = 0 => answered = {}
      BY AnsweredNat, FS_EmptySet
    <3> QED
      BY <1>2, <3>1 DEF PresentInv
  <2>2. \A s \in Nat : s = step => /\ Started(s) = Finished(s) /\ Handlers(s) <= Started(s)
                                   /\ Responses(s)[1] = Responses(s)[2]
                                   /\ s > 0 => Started(s) > 0
    BY <1>2, <1>3, <2>1 DEF PresentInv, Over
  <2> QED
    BY <2>2 DEF PastInv, Responses
<1>7. PastInv'
  <2>1. ASSUME NEW s \in Nat, s > step + 1
        PROVE  /\ Started(s)' = 0 /\ Finished(s)' = 0 /\ Handlers(s)' = 0
               /\ Responses(s)' = <<0, 0>>
    <3>1. /\ Started(s)' = 0 /\ Finished(s)' = 0 /\ Handlers(s)' = 0
          /\ Responses(s)[1]' = 0 /\ Responses(s)[2]' = 0
      BY <1>2, <1>5, <1>6, <2>1
    <3> QED
      BY <3>1 DEF Responses
  <2>2. ASSUME NEW s \in Nat, s < step + 1
        PROVE  /\ Started(s)' = Finished(s)' /\ Handlers(s)' <= Started(s)'
               /\ Responses(s)[1]' = Responses(s)[2]'
               /\ s > 0 => Started(s)' > 0
    <3>1. s < step \/ s = step
      BY <1>2, <2>2
    <3>2. s # step + 1
      BY <1>2, <2>2
    <3> QED
      BY <1>3, <1>5, <1>6, <3>1, <3>2
  <2> QED
    BY <1>1, <1>2, <2>1, <2>2 DEF PastInv
<1>8. PresentInv'
  <2>1. Cardinality(answered') = 0
    BY <1>1, FS_EmptySet
  <2> QED
    BY <1>1, <1>2, <1>5, <1>6, <2>1 DEF PresentInv, Over, Working
<1>9. ResultsInv'
  BY <1>1, <1>2, <1>5 DEF ResultsInv
<1>10. ReasonInv'
  <2>1. step' - 1 = step /\ ReasonAfter(step)
    BY <1>1, <1>2 DEF ReasonInv
  <2>2. ReasonAfter(step - 1)'
    BY <1>1, <2>1 DEF ReasonAfter
  <2> QED
    BY <1>1, <1>2, <2>2 DEF ReasonInv, Working
<1> QED
  BY <1>7, <1>8, <1>9, <1>10

(* The steps that record nothing. *)
LEMMA QuietTrail ==
  ASSUME TypeOK, StreamInv, TrailInv,
         \/ StopAtLimit \/ BlockStart \/ ArgumentsDelta \/ MessageStop \/ StreamCloses
         \/ \E i \in Slots : BlockStop(i)
         \/ LlmRaises \/ NextCall \/ NotRecorded \/ Cancelled
  PROVE  TrailInv'
<1> USE LoopAssumption DEF TrailInv
<1>1. UNCHANGED <<finalize, step, answered, messages, ran, trace>>
  BY DEF StopAtLimit, BlockStart, ArgumentsDelta, MessageStop, StreamCloses, BlockStop, LlmRaises,
     NextCall, NotRecorded, Cancelled
<1>2. /\ PastInv'
      /\ \A s : /\ Started(s)' = Started(s) /\ Finished(s)' = Finished(s)
                /\ Handlers(s)' = Handlers(s) /\ Responses(s)' = Responses(s)
  BY <1>1, PastRests
<1>3. /\ \A s : /\ Started(s) \in Nat /\ Finished(s) \in Nat /\ Handlers(s) \in Nat
                /\ Responses(s)[1] \in Nat /\ Responses(s)[2] \in Nat
      /\ Cardinality(answered) \in Nat /\ step \in Nat
  BY Counts DEF PastInv
<1>4. CASE StopAtLimit
  <2>1. /\ pc = "step" /\ pc' = "returned" /\ ~finalize /\ stopReason' = "max_steps"
        /\ calls' = calls /\ step = MaxSteps
    BY <1>3, <1>4 DEF StopAtLimit, WithinLimit, streamVars, StreamInv
  <2>2. PresentInv' /\ ResultsInv'
    BY <1>1, <1>2, <2>1 DEF PresentInv, ResultsInv, Over, Working
  <2>3. ReasonInv'
    BY <1>1, <2>1 DEF ReasonInv, PresentInv, Working
  <2> QED
    BY <1>2, <2>2, <2>3
<1>5. CASE \/ BlockStart \/ ArgumentsDelta \/ MessageStop \/ StreamCloses
           \/ \E i \in Slots : BlockStop(i)
  <2>1. /\ pc = "stream" /\ pc' = "stream" /\ stopReason' = stopReason
        /\ torn' = torn \/ torn' = torn \cup {step}
    BY <1>5 DEF BlockStart, ArgumentsDelta, MessageStop, StreamCloses, BlockStop, Streaming
  <2>2. PresentInv' /\ ResultsInv'
    BY <1>1, <1>2, <2>1 DEF PresentInv, ResultsInv, Over, Working
  <2>3. 1..step - 1 \subseteq torn' <=> 1..step - 1 \subseteq torn
    BY <1>3, <2>1
  <2>4. ReasonAfter(step - 1)'
    BY <1>1, <2>1, <2>3 DEF ReasonInv, ReasonAfter
  <2>5. ReasonInv'
    BY <1>1, <2>1, <2>4 DEF ReasonInv, Working
  <2> QED
    BY <1>2, <2>2, <2>5
<1>6. CASE LlmRaises \/ NextCall \/ NotRecorded \/ Cancelled
  <2>1. /\ UNCHANGED <<calls, stopReason, torn>>
        /\ \/ pc' \in {"raised", "cancelled"} /\ pc # "returned" /\ ~Over
           \/ pc = "tool_finished" /\ pc' = "tools"
    BY <1>6 DEF LlmRaises, NextCall, NotRecorded, Cancelled, streamVars, Streaming, Over
  <2>2. ResultsInv' /\ ReasonInv'
    BY <1>1, <1>2, <2>1 DEF ResultsInv, ReasonInv, ReasonAfter, Working, Over
  <2>3. CASE pc' \in {"raised", "cancelled"} /\ pc # "returned" /\ ~Over
    <3>1. \A s \in Nat : s = step =>
              Started(s) - Finished(s) \in {0, 1} /\ Handlers(s) <= Started(s)
      BY <1>3, <2>3 DEF PresentInv
    <3> QED
      BY <1>1, <1>2, <2>2, <2>3, <3>1 DEF PresentInv, Over, Working
  <2>4. CASE pc = "tool_finished" /\ pc' = "tools"
    BY <1>1, <1>2, <2>1, <2>2, <2>4 DEF PresentInv, Over, Working
  <2> QED
    BY <2>1, <2>3, <2>4
<1> QED
  BY <1>4, <1>5, <1>6

(* The response is complete, and the loop goes on to its calls or returns. *)
LEMMA ResponseTrail == ASSUME TypeOK, StreamInv, TrailInv, StepFinished PROVE TrailInv'
<1> USE LoopAssumption DEF TrailInv
<1>1. /\ Record("llm_response_done", step) /\ pc = "stream" /\ stream # "open"
      /\ UNCHANGED <<finalize, step, calls, blocks, stream, answered, ran, torn>>
      /\ pc' = IF calls # {} /\ Offered THEN "tools" ELSE "returned"
      /\ answered = {}
  BY DEF StepFinished, StreamOver, streamVars, StreamInv
<1>2. /\ \A s : /\ Started(s) \in Nat /\ Finished(s) \in Nat /\ Handlers(s) \in Nat
                /\ Responses(s)[1] \in Nat /\ Responses(s)[2] \in Nat
      /\ Cardinality(answered) \in Nat /\ step \in Nat
  BY Counts DEF PastInv
<1>3. /\ PastInv'
      /\ \A s : /\ Started(s)' = Started(s) /\ Finished(s)' = Finished(s)
                /\ Responses(s)[1]' = Responses(s)[1]
                /\ Responses(s)[2]' = Responses(s)[2] + (IF s = step THEN 1 ELSE 0)
                /\ Handlers(s)' = Handlers(s)
  BY <1>1, <1>2, PresentRecorded DEF Finishes
<1>4. PresentInv'
  <2>1. \A s \in Nat : s = step =>
            /\ Finished(s)' = Cardinality(answered) /\ Started(s)' = Cardinality(answered)
            /\ Handlers(s)' <= Cardinality(answered)
            /\ Responses(s)[1]' = Responses(s)[2]'
    BY <1>1, <1>2, <1>3 DEF PresentInv, Over
  <2>2. /\ pc' \in {"tools", "returned"} /\ (pc' = "tools" => calls' # {})
        /\ answered' = answered /\ step' = step
    BY <1>1
  <2>3. (Working => calls # {})' /\ (pc = "step" => calls = answered /\ (step > 0 => calls # {}))'
    BY <2>2 DEF Working
  <2>4. ~Over' /\ pc' \notin {"stream", "tool_started", "executing"}
    BY <2>2 DEF Over
  <2> HIDE DEF TrailInv
  <2>5. ASSUME NEW s \in Nat, s = step
        PROVE  /\ Finished(s)' = Cardinality(answered') /\ Started(s)' = Cardinality(answered') + 0
               /\ Handlers(s)' <= Cardinality(answered') + 0
               /\ Responses(s)[1]' = Responses(s)[2]' + 0
    <3>1. Responses(s)[2] + 1 \in Nat
      BY <1>2
    <3>2. Responses(s)[2]' \in Nat
      BY <1>3, <2>5, <3>1
    <3> QED
      BY <1>2, <2>1, <2>2, <2>5, <3>2
  <2> QED
    BY <2>2, <2>3, <2>4, <2>5 DEF PresentInv
<1>5. /\ \A i \in DOMAIN messages' : messages'[i].from = "user" =>
             i \in DOMAIN messages /\ messages'[i] = messages[i]
      /\ stream = "stopped" => messages'[Len(messages')] = Message("assistant", calls)
  <2>1. messages \in Seq(Messages)
    BY DEF TypeOK
  <2>2. Message("assistant", calls).from = "assistant"
    BY DEF Message
  <2>3. messages' = Append(messages, Message("assistant", calls)) \/ messages' = messages
    BY DEF StepFinished
  <2>4. stream = "stopped" => messages' = Append(messages, Message("assistant", calls))
    BY DEF StepFinished
  <2> QED
    BY <2>1, <2>2, <2>3, <2>4
<1>6. ResultsInv'
  <2>1. \A i \in DOMAIN messages, s \in Nat :
            messages[i].from = "user" /\ messages[i].step = s =>
                s <= step /\ s # step /\ Finished(s) = Cardinality(messages[i].calls)
    BY <1>1 DEF ResultsInv
  <2> QED
    BY <1>1, <1>3, <1>5, <2>1 DEF ResultsInv
<1>7. ReasonInv'
  <2>1. PICK reason \in Reasons :
            /\ IF stream = "stopped" THEN ResponseReason(reason) ELSE reason = stopReason
            /\ stopReason' = IF step > MaxSteps THEN "max_steps" ELSE reason
    BY DEF StepFinished
  <2>2. /\ step >= 1 /\ ReasonAfter(step - 1)
        /\ stream = "stopped" <=> step \notin torn
    BY <1>1 DEF StreamInv, ReasonInv, TypeOK
  <2>3. CASE step > MaxSteps
    <3>1. finalize /\ step = MaxSteps + 1 /\ pc' = "returned" /\ stopReason' = "max_steps"
      BY <1>1, <1>2, <2>1, <2>3 DEF ReasonInv, TypeOK, Offered
    <3> QED
      BY <1>1, <1>2, <3>1 DEF ReasonInv, Working
  <2>4. CASE step <= MaxSteps
    <3>1. stopReason' = reason /\ pc' = IF calls # {} THEN "tools" ELSE "returned"
      BY <1>1, <1>2, <2>1, <2>4 DEF Offered
    <3>2. CASE stream = "stopped"
      <4>1. reason \in {IF calls # {} THEN "tool_use" ELSE "end_turn", "max_tokens"}
        BY <2>1, <3>2 DEF ResponseReason
      <4>2. calls # {} => ReasonAfter(step)'
        BY <1>1, <1>2, <2>2, <3>1, <3>2, <4>1 DEF ReasonAfter
      <4>3. calls = {} => messages'[Len(messages')] = Message("assistant", {})'
        BY <1>1, <1>5, <3>2 DEF Message
      <4> QED
        BY <1>1, <1>2, <2>2, <2>4, <3>1, <3>2, <4>1, <4>2, <4>3 DEF ReasonInv, Working
    <3>3. CASE stream # "stopped"
      <4>1. step \in torn /\ torn' = torn /\ stopReason' = stopReason /\ step' = step
        BY <1>1, <2>1, <2>2, <3>1, <3>3
      <4>2. 1..step \subseteq torn <=> 1..step - 1 \subseteq torn
        BY <1>2, <2>2, <4>1
      <4>3. ReasonAfter(step)' /\ ReasonAfter(step - 1)' /\ stopReason' # "max_steps"
        BY <2>2, <4>1, <4>2 DEF ReasonAfter
      <4> QED
        BY <1>1, <1>2, <2>4, <3>1, <4>1, <4>3 DEF ReasonInv, Working
    <3> QED
      BY <3>2, <3>3
  <2> QED
    BY <1>2, <2>3, <2>4
<1> QED
  BY <1>3, <1>4, <1>6, <1>7

(* The steps of a call. *)
LEMMA CallTrail ==
  ASSUME TypeOK, StreamInv, TrailInv, ToolStarted \/ Refuse \/ Execute \/ HandlerEnds
  PROVE  TrailInv'
<1> USE LoopAssumption DEF TrailInv
<1>1. /\ UNCHANGED <<finalize, step, calls, messages, stopReason, torn>>
      /\ Working /\ Working' /\ ~Over /\ ~Over'
  BY DEF ToolStarted, Refuse, Execute, HandlerEnds, Answer, streamVars, Working, Over
<1>2. /\ \A s : /\ Started(s) \in Nat /\ Finished(s) \in Nat /\ Handlers(s) \in Nat
                /\ Responses(s)[1] \in Nat /\ Responses(s)[2] \in Nat
      /\ Cardinality(answered) \in Nat /\ IsFiniteSet(answered) /\ step \in Nat
      /\ IsFiniteSet(ran)
  BY Counts DEF PastInv
<1>3. ReasonInv'
  BY <1>1 DEF ReasonInv, ReasonAfter, Working
<1>4. \A i \in DOMAIN messages, s \in Nat :
          messages[i].from = "user" /\ messages[i].step = s =>
              s <= step /\ s # step /\ Finished(s) = Cardinality(messages[i].calls)
  BY <1>1 DEF ResultsInv
<1>5. ASSUME \A s : s # step => Finished(s)' = Finished(s)
      PROVE  ResultsInv'
  BY <1>1, <1>4, <1>5 DEF ResultsInv
<1>6. CASE ToolStarted
  <2>1. /\ Record("tool_started", step) /\ pc = "tools" /\ pc' = "tool_started"
        /\ UNCHANGED <<answered, ran>>
    BY <1>6 DEF ToolStarted
  <2>2. /\ PastInv'
        /\ \A s : /\ Started(s)' = Started(s) + (IF s = step THEN 1 ELSE 0)
                  /\ Finished(s)' = Finished(s)
                  /\ Responses(s)[1]' = Responses(s)[1] /\ Responses(s)[2]' = Responses(s)[2]
                  /\ Handlers(s)' = Handlers(s)
    BY <1>1, <1>2, <2>1, PresentRecorded DEF Finishes
  <2>3. PresentInv'
    BY <1>1, <1>2, <2>1, <2>2 DEF PresentInv, Working
  <2> QED
    BY <1>3, <1>5, <2>2, <2>3
<1>7. CASE Execute
  <2>1. /\ pc = "tool_started" /\ pc' = "executing" /\ UNCHANGED <<answered, trace>>
        /\ ran' = ran \cup {[step |-> step, call |-> current, got |-> blocks[current].got]}
    BY <1>7 DEF Execute
  <2>2. /\ IsFiniteSet(ran')
        /\ \A s : /\ Handlers(s)' \in Nat
                  /\ Handlers(s)' <= Handlers(s) + (IF s = step THEN 1 ELSE 0)
    <3>1. PICK run : run = [step |-> step, call |-> current, got |-> blocks[current].got]
      OBVIOUS
    <3>2. run.step = step /\ ran' = ran \cup {run}
      BY <2>1, <3>1
    <3>3. ASSUME NEW s
          PROVE  /\ IsFiniteSet(ran') /\ Handlers(s)' \in Nat
                 /\ Handlers(s)' <= Handlers(s) + (IF s = run.step THEN 1 ELSE 0)
      BY <1>2, <3>2, HandlerCounted
    <3> QED
      BY <3>2, <3>3
  <2>3. \A s : /\ Started(s)' = Started(s) /\ Finished(s)' = Finished(s)
               /\ Responses(s)' = Responses(s)
    BY <2>1 DEF Started, Finished, Responses, Events
  <2>4. PastInv'
    BY <1>1, <1>2, <2>2, <2>3 DEF PastInv
  <2>5. PresentInv'
    BY <1>1, <1>2, <2>1, <2>2, <2>3 DEF PresentInv, Working
  <2> QED
    BY <1>3, <1>5, <2>3, <2>4, <2>5
<1>8. CASE Refuse \/ HandlerEnds
  <2>1. PICK stage \in Finishes :
            /\ Record(stage, step) /\ answered' = answered \cup {current}
            /\ UNCHANGED ran
    BY <1>8 DEF Refuse, HandlerEnds, Answer, Finishes
  <2>2. /\ pc \in {"tool_started", "executing"} /\ pc' = "tool_finished"
        /\ current \notin answered
    BY <1>8 DEF Refuse, HandlerEnds, Answer, StreamInv
  <2>3. Cardinality(answered') = Cardinality(answered) + 1
    BY <1>2, <2>1, <2>2, FS_AddElement
  <2>4. /\ PastInv'
        /\ \A s : /\ Started(s)' = Started(s)
                  /\ Finished(s)' = Finished(s) + (IF s = step THEN 1 ELSE 0)
                  /\ Responses(s)[1]' = Responses(s)[1] /\ Responses(s)[2]' = Responses(s)[2]
                  /\ Handlers(s)' = Handlers(s)
    BY <1>1, <1>2, <2>1, PresentRecorded DEF Finishes
  <2>5. PresentInv'
    BY <1>1, <1>2, <2>2, <2>3, <2>4 DEF PresentInv, Working
  <2>6. \A s : s # step => Finished(s)' = Finished(s)
    BY <1>2, <2>4
  <2> QED
    BY <1>3, <1>5, <2>4, <2>5, <2>6
<1> QED
  BY <1>6, <1>7, <1>8

(* All results go to the model: as many as the step has finished calls. *)
LEMMA ResultsTrail == ASSUME TypeOK, StreamInv, TrailInv, ReturnResults PROVE TrailInv'
<1> USE LoopAssumption DEF TrailInv
<1>1. /\ UNCHANGED <<finalize, step, calls, answered, stopReason, ran, trace, torn>>
      /\ pc = "tools" /\ pc' = "step" /\ calls = answered
      /\ messages' = Append(messages, Message("user", answered))
  BY DEF ReturnResults, streamVars, Results
<1>2. /\ PastInv'
      /\ \A s : /\ Started(s)' = Started(s) /\ Finished(s)' = Finished(s)
                /\ Handlers(s)' = Handlers(s) /\ Responses(s)' = Responses(s)
  BY <1>1, PastRests
<1>3. PresentInv'
  BY <1>1, <1>2 DEF PresentInv, Over, Working
<1>4. ReasonInv'
  BY <1>1 DEF ReasonInv, ReasonAfter, Working
<1>5. ASSUME NEW i \in DOMAIN messages'
      PROVE  \/ i \in DOMAIN messages /\ messages'[i] = messages[i]
             \/ messages'[i] = Message("user", answered)
  BY <1>1 DEF TypeOK
<1>6. Message("user", answered).step = step /\ Message("user", answered).calls = answered
  BY DEF Message
<1>7. \A s \in Nat : s = step => Finished(s) = Cardinality(answered)
  BY <1>1 DEF PresentInv, Over
<1>8. step \in Nat
  BY Counts DEF PastInv
<1>9. ResultsInv'
  BY <1>1, <1>2, <1>5, <1>6, <1>7, <1>8 DEF ResultsInv, Working
<1> QED
  BY <1>2, <1>3, <1>4, <1>9

LEMMA TrailStep == TypeOK /\ StreamInv /\ TrailInv /\ [Next]_vars => TrailInv'
<1> SUFFICES ASSUME TypeOK, StreamInv, TrailInv, [Next]_vars PROVE TrailInv'
  OBVIOUS
<1>1. CASE StartStep \/ StartFinalStep
  <2>1. pc = "step" /\ step <= MaxSteps /\ Request
    BY <1>1 DEF StartStep, StartFinalStep, StreamInv
  <2>2. step < MaxSteps \/ finalize
    BY <1>1 DEF StartStep, StartFinalStep, WithinLimit
  <2> QED
    BY <2>1, <2>2, RequestTrail
<1>2. CASE UNCHANGED vars
  <2>1. /\ UNCHANGED <<finalize, pc, step, calls, answered, messages, stopReason, ran, trace, torn>>
    BY <1>2 DEF vars, streamVars
  <2>2. /\ PastInv'
        /\ \A s : /\ Started(s)' = Started(s) /\ Finished(s)' = Finished(s)
                  /\ Handlers(s)' = Handlers(s) /\ Responses(s)' = Responses(s)
    BY <2>1, PastRests DEF TrailInv
  <2> QED
    BY <2>1, <2>2 DEF TrailInv, PresentInv, ResultsInv, ReasonInv, ReasonAfter, Over, Working,
       Message
<1> QED
  BY <1>1, <1>2, QuietTrail, ResponseTrail, CallTrail, ResultsTrail DEF Next, Advance

-----------------------------------------------------------------------------
(* The theorems *)

(* Inv is inductive. *)
LEMMA Invariance == Spec => []Inv
<1>1. Init => Inv
  <2> SUFFICES ASSUME Init PROVE Inv
    OBVIOUS
  <2>1. StreamInv
    BY LoopAssumption DEF Init, StreamInv, Working
  <2>2. TurnInv
    BY DEF Init, TurnInv, Working, Dialogue
  <2>3. NoPartialCallRuns
    BY DEF Init, NoPartialCallRuns
  <2> QED
    BY <2>1, <2>2, <2>3, TypeInit DEF Inv
<1>2. Inv /\ [Next]_vars => Inv'
  BY TypeStep, StreamStep, TurnStep, NoPartialCallStep DEF Inv
<1> QED
  BY <1>1, <1>2, PTL DEF Spec

(* The variables keep their types: step_index stays within the limit and   *)
(* the one finalizing step, whatever max_steps is.                         *)
THEOREM TypeCorrect == Spec => []TypeOK
<1>1. Inv => TypeOK
  BY DEF Inv
<1> QED
  BY <1>1, Invariance, PTL

(* AgentLoop.run sends conversations in which turns alternate and every    *)
(* tool_use is answered in the next message; all that the API could refuse *)
(* are results of torn steps, whose response is not there.                 *)
THEOREM RequestsAreWellFormed == Spec => []RequestsWellFormed
<1>1. Inv => RequestsWellFormed
  BY DEF Inv, TurnInv, RequestsWellFormed
<1> QED
  BY <1>1, Invariance, PTL

(* A call whose arguments arrived in part never reaches its handler.       *)
THEOREM NothingPartialRuns == Spec => []NoPartialCallRuns
<1>1. Inv => NoPartialCallRuns
  BY DEF Inv
<1> QED
  BY <1>1, Invariance, PTL

(* TrailInv is inductive, next to Inv. *)
LEMMA TrailInvariance == Spec => []TrailInv
<1>1. Init => TrailInv
  <2> SUFFICES ASSUME Init PROVE TrailInv
    OBVIOUS
  <2>1. \A s, stages : Events(s, stages) = 0
    <3>1. ASSUME NEW s, NEW stages PROVE Events(s, stages) = 0
      <4>1. {i \in DOMAIN trace : trace[i].step = s /\ trace[i].stage \in stages} = {}
        BY DEF Init
      <4> QED
        BY <4>1, FS_EmptySet DEF Events
    <3> QED
      BY <3>1
  <2>2. \A s : Handlers(s) = 0
    <3>1. ASSUME NEW s PROVE Handlers(s) = 0
      <4>1. {r \in ran : r.step = s} = {}
        BY DEF Init
      <4> QED
        BY <4>1, FS_EmptySet DEF Handlers
    <3> QED
      BY <3>1
  <2>3. Cardinality({}) = 0 /\ IsFiniteSet(ran)
    BY FS_EmptySet DEF Init
  <2>4. \A s : Started(s) = 0 /\ Finished(s) = 0 /\ Responses(s) = <<0, 0>>
    BY <2>1 DEF Started, Finished, Responses
  <2>5. PastInv /\ PresentInv
    BY <2>2, <2>3, <2>4 DEF PastInv, PresentInv, Init, Over, Working
  <2>6. ResultsInv
    <3>1. /\ DOMAIN messages = {1} /\ messages[1].step = 0 /\ messages[1].calls = {}
          /\ step = 0 /\ pc = "step"
      BY DEF Init
    <3>2. ~Working /\ pc # "stream"
      BY <3>1 DEF Working
    <3> QED
      BY <2>3, <2>4, <3>1, <3>2 DEF ResultsInv
  <2>7. ReasonInv
    BY LoopAssumption DEF ReasonInv, ReasonAfter, Working, Init
  <2> QED
    BY <2>5, <2>6, <2>7 DEF TrailInv
<1>2. Inv => TypeOK /\ StreamInv
  BY DEF Inv
<1> QED
  BY <1>1, <1>2, Invariance, TrailStep, PTL DEF Spec

(* The trace accounts for every call, every handler and every response,    *)
(* whatever fails, for conversations of any length (on_step).              *)
THEOREM AuditIsComplete == Spec => []AuditTrail
<1>1. Inv /\ TrailInv => AuditTrail
  <2> SUFFICES ASSUME TypeOK, TrailInv PROVE AuditTrail
    BY DEF Inv
  <2> USE LoopAssumption DEF TrailInv
  <2>1. /\ \A s : /\ Started(s) \in Nat /\ Finished(s) \in Nat /\ Handlers(s) \in Nat
                  /\ Responses(s)[1] \in Nat /\ Responses(s)[2] \in Nat
        /\ Cardinality(answered) \in Nat /\ step \in Nat
    BY Counts DEF PastInv
  <2>2. ASSUME NEW s \in 1..MaxSteps + 1
        PROVE  /\ Started(s) - Finished(s) \in {0, 1}
               /\ Handlers(s) <= Started(s)
               /\ pc = "returned" =>
                      /\ Started(s) = Finished(s)
                      /\ Responses(s)[2] = Responses(s)[1]
    <3>1. s \in Nat
      OBVIOUS
    <3>2. CASE s > step
      <4>1. /\ Started(s) = 0 /\ Finished(s) = 0 /\ Handlers(s) = 0
            /\ Responses(s)[1] = 0 /\ Responses(s)[2] = 0
        BY <3>1, <3>2 DEF PastInv
      <4> QED
        BY <4>1
    <3>3. CASE s < step
      BY <2>1, <3>1, <3>3 DEF PastInv
    <3>4. CASE s = step
      BY <2>1, <3>1, <3>4 DEF PresentInv, Over
    <3> QED
      BY <2>1, <3>1, <3>2, <3>3, <3>4
  <2>3. ASSUME NEW i \in DOMAIN messages, messages[i].from = "user"
        PROVE  Finished(messages[i].step) = Cardinality(messages[i].calls)
    <3>1. messages[i].step \in Nat
      <4>1. messages \in Seq(Messages)
        BY DEF TypeOK
      <4>2. messages[i] \in Messages
        BY <4>1
      <4> QED
        BY <4>2 DEF Messages
    <3> QED
      BY <2>3, <3>1 DEF ResultsInv
  <2> QED
    BY <2>2, <2>3 DEF AuditTrail, Started, Finished, Handlers, Responses
<1> QED
  BY <1>1, Invariance, TrailInvariance, PTL

(* The stop_reason of AgentResult tells what happened: the loop ran to its *)
(* limit, or the model answered without a call, or the last stream was     *)
(* torn and it is that of the last response before (AgentLoop.run).        *)
THEOREM StopReasonIsTrue == Spec => []OutcomeIsTrue
<1>1. Inv /\ TrailInv => OutcomeIsTrue
  <2> SUFFICES ASSUME TypeOK, TrailInv, pc = "returned" PROVE OutcomeIsTrue
    BY DEF Inv, OutcomeIsTrue
  <2> USE LoopAssumption DEF TrailInv
  <2>1. /\ \A s : Started(s) \in Nat
        /\ Cardinality(answered) \in Nat /\ step \in Nat
    BY Counts DEF PastInv
  <2>2. Started(step) = Cardinality(answered)
    BY <2>1 DEF PresentInv, Over
  <2>3. Cardinality(answered) = 0 <=> answered = {}
    BY AnsweredNat, FS_EmptySet
  <2>4. CASE stopReason = "max_steps"
    <3>1. /\ step = MaxSteps + (IF finalize THEN 1 ELSE 0)
          /\ step \in 1..MaxSteps => answered # {}
      BY <2>4 DEF ReasonInv
    <3>2. ASSUME NEW s \in 1..MaxSteps PROVE Started(s) > 0
      <4>1. s \in Nat /\ s > 0 /\ (s < step \/ s = step)
        BY <3>1
      <4>2. CASE s < step
        BY <4>1, <4>2 DEF PastInv
      <4>3. CASE s = step
        BY <2>1, <2>2, <2>3, <3>1, <4>1, <4>3
      <4> QED
        BY <4>1, <4>2, <4>3
    <3> QED
      BY <2>4, <3>1, <3>2 DEF OutcomeIsTrue, Started
  <2>5. CASE stopReason # "max_steps"
    <3>1. /\ step <= MaxSteps /\ answered = {}
          /\ step \notin torn => /\ stopReason \in {"end_turn", "max_tokens"}
                                 /\ messages[Len(messages)] = Message("assistant", {})
          /\ step \in torn => ReasonAfter(step - 1)
      BY <2>5 DEF ReasonInv
    <3> QED
      BY <2>2, <2>3, <2>5, <3>1 DEF OutcomeIsTrue, Started, ReasonAfter
  <2> QED
    BY <2>4, <2>5
<1> QED
  BY <1>1, Invariance, TrailInvariance, PTL

=============================================================================
