------------------------------- MODULE AgentLoop -------------------------------
(***************************************************************************)
(* The conversation of one run with the model: core/agent/loop, the        *)
(* assembly of a response in core/llm/anthropic_client, the execution of a *)
(* tool call in core/tools/registry, and the step events that handle_chat  *)
(* records (on_step).                                                      *)
(*                                                                         *)
(* The model streams the blocks of a response one after the other; text    *)
(* and thinking carry no control and are left out, as a response without   *)
(* tool calls is a text.  Where the coroutine suspends (stream, notices,   *)
(* permission, handler) the run may be cancelled.                          *)
(***************************************************************************)
EXTENDS Naturals, Sequences, FiniteSets

CONSTANTS MaxSteps,          \* AgentLoop._max_steps
          MaxBlocks,         \* bound on the tool calls of one response
          TraceMayFail,      \* can a write to the trace store raise?
          StreamMayEndEarly  \* can a stream end without message_stop?

ASSUME LoopAssumption ==
    /\ MaxSteps \in Nat
    /\ MaxBlocks \in Nat
    /\ TraceMayFail \in BOOLEAN
    /\ StreamMayEndEarly \in BOOLEAN

VARIABLES
  finalize,    \* AgentLoop._finalize, fixed
  pc,          \* where the coroutine is
  step,        \* step_index
  blocks,      \* tool_use blocks of the response, in the order they started
  stream,      \* "open", "stopped" by message_stop or "closed" without it
  calls,       \* the loop's tool_uses, as places in blocks
  truncated,   \* those marked truncated
  answered,    \* those with a tool_result
  current,     \* the call the loop is at
  messages,    \* the conversation
  stopReason,  \* the stop_reason of AgentResult
  ran,         \* calls whose handler was executed, with their arguments
  trace,       \* step and tool events
  torn         \* history: the steps whose stream ended without message_stop

streamVars == <<blocks, stream, calls, truncated>>
vars == <<finalize, pc, step, streamVars, answered, current, messages, stopReason, ran, trace, torn>>

(* "step", "tools": between two suspensions; "tool_started" and            *)
(* "tool_finished": sending these notices; "executing": in the handler.    *)
Places == {"step", "stream", "tools", "tool_started", "executing", "tool_finished",
           "returned", "raised", "cancelled"}

(* How much of the arguments it meant to send the model has sent.  A call  *)
(* without arguments is complete from the start.                           *)
Arguments == {"nothing", "part", "all"}

(* The other reasons of a response (stop_sequence, and what the client does *)
(* not know) are treated as end_turn is.                                   *)
Reasons == {"unknown", "end_turn", "tool_use", "max_tokens", "max_steps"}

Stages == {"step_started", "llm_response_done", "tool_started", "tool_completed",
           "tool_failed"}

(* A call is known by its place in the response. *)
Slots == 1..MaxBlocks

Block == [got : Arguments, ended : BOOLEAN]

Event == [stage : Stages, step : Nat]

Messages == [from : {"user", "assistant"}, step : Nat, calls : SUBSET Slots]

TypeOK ==
    /\ finalize \in BOOLEAN
    /\ pc \in Places
    /\ step \in 0..MaxSteps + 1
    /\ blocks \in Seq(Block)
    /\ Len(blocks) <= MaxBlocks
    /\ stream \in {"open", "stopped", "closed"}
    /\ calls \in SUBSET Slots
    /\ truncated \in SUBSET calls
    /\ answered \in SUBSET calls
    /\ current \in Slots \cup {0}
    /\ messages \in Seq(Messages)
    /\ stopReason \in Reasons
    /\ ran \in SUBSET [step : Nat, call : Slots, got : Arguments]
    /\ trace \in Seq(Event)
    /\ torn \in SUBSET (1..MaxSteps + 1)

Init ==
    /\ finalize \in BOOLEAN
    /\ pc = "step"
    /\ step = 0
    /\ blocks = <<>>
    /\ stream = "open"
    /\ calls = {} /\ truncated = {} /\ answered = {} /\ current = 0
    /\ messages = << [from |-> "user", step |-> 0, calls |-> {}] >>
    /\ stopReason = "unknown"
    /\ ran = {}
    /\ trace = <<>>
    /\ torn = {}

-----------------------------------------------------------------------------
(* Helpers *)

Record(stage, at) == trace' = Append(trace, [stage |-> stage, step |-> at])

Message(from, its) == [from |-> from, step |-> step, calls |-> its]

(* The arguments cannot be parsed.  Nothing at all counts as no arguments. *)
ParseFails(b) == b.got = "part"

(* The model stopped at max_tokens inside the last block. *)
CutShort == blocks # <<>> /\ blocks[Len(blocks)].got # "all"

(* Tools are offered, except in the finalizing step. *)
Offered == step <= MaxSteps

-----------------------------------------------------------------------------
(* A step begins *)

(* Mutation: the last step with tools is taken for the finalizing one. *)
WithinLimitStrict == step + 1 < MaxSteps

(* The for loop has a step left. *)
WithinLimit == step < MaxSteps

(* StepStarted is reported, and the request is sent. *)
Request ==
    /\ step' = step + 1
    /\ Record("step_started", step + 1)
    /\ pc' = "stream"
    /\ blocks' = <<>> /\ stream' = "open"
    /\ calls' = {} /\ truncated' = {} /\ answered' = {}
    /\ UNCHANGED <<finalize, current, messages, stopReason, ran, torn>>

StartStep ==
    /\ pc = "step"
    /\ WithinLimit
    /\ Request

(* One more step without tools, to come to an answer. *)
StartFinalStep ==
    /\ pc = "step"
    /\ ~WithinLimit
    /\ finalize
    /\ Request

StopAtLimit ==
    /\ pc = "step"
    /\ ~WithinLimit
    /\ ~finalize
    /\ stopReason' = "max_steps"
    /\ pc' = "returned"
    /\ UNCHANGED <<finalize, step, streamVars, answered, current, messages, ran,
                   trace, torn>>

-----------------------------------------------------------------------------
(* The stream: AnthropicClient.chat_stream, consumed by _chat_once *)

Streaming == pc = "stream" /\ stream = "open"

(* content_block_start of a tool_use block *)
BlockStart ==
    /\ Streaming
    /\ Offered
    /\ Len(blocks) < MaxBlocks
    /\ \A i \in DOMAIN blocks : blocks[i].ended /\ blocks[i].got = "all"
    /\ \E got \in {"nothing", "all"} : blocks' = Append(blocks, [got |-> got, ended |-> FALSE])
    /\ UNCHANGED <<finalize, pc, step, stream, calls, truncated, answered, current,
                   messages, stopReason, ran, trace, torn>>

(* input_json_delta *)
ArgumentsDelta ==
    /\ Streaming
    /\ CutShort /\ ~blocks[Len(blocks)].ended
    /\ \E got \in {"part", "all"} : blocks' = [blocks EXCEPT ![Len(blocks)].got = got]
    /\ UNCHANGED <<finalize, pc, step, stream, calls, truncated, answered, current,
                   messages, stopReason, ran, trace, torn>>

(* content_block_stop of a tool_use block: the arguments are parsed and    *)
(* the call is complete for the loop.                                      *)
BlockStop(i) ==
    /\ Streaming
    /\ i \in DOMAIN blocks /\ ~blocks[i].ended
    /\ blocks' = [blocks EXCEPT ![i].ended = TRUE]
    /\ calls' = calls \cup {i}
    /\ truncated' = IF ParseFails(blocks[i]) THEN truncated \cup {i} ELSE truncated
    /\ UNCHANGED <<finalize, pc, step, stream, answered, current, messages,
                   stopReason, ran, trace, torn>>

(* message_stop: blocks without their stop event are calls that were       *)
(* truncated, and the DoneEvent carries the whole message.                 *)
MessageStop ==
    /\ Streaming
    /\ LET missing == {i \in DOMAIN blocks : ~blocks[i].ended}
       IN  /\ calls' = calls \cup missing
           /\ truncated' = truncated \cup missing
    /\ stream' = "stopped"
    /\ UNCHANGED <<finalize, pc, step, blocks, answered, current, messages,
                   stopReason, ran, trace, torn>>

(* The stop_reason of the response, from message_delta. *)
ResponseReason(reason) ==
    IF CutShort THEN reason = "max_tokens"
    ELSE reason \in {IF calls # {} THEN "tool_use" ELSE "end_turn", "max_tokens"}

(* The connection to the model ends before message_stop. *)
StreamCloses ==
    /\ StreamMayEndEarly
    /\ Streaming
    /\ stream' = "closed"
    /\ torn' = torn \cup {step}
    /\ UNCHANGED <<finalize, pc, step, blocks, calls, truncated, answered, current,
                   messages, stopReason, ran, trace>>

(* Mutation: the loop waits for the DoneEvent. *)
StreamOverIfDone == stream = "stopped"

StreamOver == stream # "open"

(* The end of _chat_once, and StepFinished.  The response enters the       *)
(* conversation if it came whole; with calls the loop goes on to them.     *)
StepFinished ==
    /\ pc = "stream"
    /\ StreamOver
    /\ messages' = IF stream = "stopped"
                   THEN Append(messages, Message("assistant", calls))
                   ELSE messages
    /\ Record("llm_response_done", step)
    /\ \E reason \in Reasons :
           /\ IF stream = "stopped" THEN ResponseReason(reason) ELSE reason = stopReason
           /\ stopReason' = IF step > MaxSteps THEN "max_steps" ELSE reason
    /\ pc' = IF calls # {} /\ Offered THEN "tools" ELSE "returned"
    /\ UNCHANGED <<finalize, step, streamVars, answered, current, ran, torn>>

(* The client raises an LLMError, or the stream breaks. *)
LlmRaises ==
    /\ Streaming
    /\ pc' = "raised"
    /\ UNCHANGED <<finalize, step, streamVars, answered, current, messages,
                   stopReason, ran, trace, torn>>

-----------------------------------------------------------------------------
(* The tool calls of a step, one after the other *)

(* ToolStarted *)
ToolStarted ==
    /\ pc = "tools"
    /\ current' \in calls \ answered
    /\ \A j \in calls \ answered : current' <= j
    /\ Record("tool_started", step)
    /\ pc' = "tool_started"
    /\ UNCHANGED <<finalize, step, streamVars, answered, messages, stopReason, ran,
                   torn>>

(* Mutation: a failure is returned to the model but not recorded. *)
AnswerFailureSilently(i, stage) ==
    /\ answered' = answered \cup {i}
    /\ IF stage = "tool_failed" THEN trace' = trace ELSE Record(stage, step)
    /\ pc' = "tool_finished"

(* A result for the call, and ToolFinished. *)
Answer(i, stage) ==
    /\ answered' = answered \cup {i}
    /\ Record(stage, step)
    /\ pc' = "tool_finished"

(* Truncated, unknown or denied: an error result without an execution. *)
Refuse ==
    /\ pc = "tool_started"
    /\ Answer(current, "tool_failed")
    /\ UNCHANGED <<finalize, step, streamVars, current, messages, stopReason, ran,
                   torn>>

(* Mutation: every call is executed. *)
ExecutableAlways(i) == i \in calls

Executable(i) == i \notin truncated

(* The call is allowed and its handler starts. *)
Execute ==
    /\ pc = "tool_started"
    /\ Executable(current)
    /\ ran' = ran \cup {[step |-> step, call |-> current, got |-> blocks[current].got]}
    /\ pc' = "executing"
    /\ UNCHANGED <<finalize, step, streamVars, answered, current, messages,
                   stopReason, trace, torn>>

(* The handler returns or raises; its exception becomes an error result. *)
HandlerEnds ==
    /\ pc = "executing"
    /\ \E stage \in {"tool_completed", "tool_failed"} : Answer(current, stage)
    /\ UNCHANGED <<finalize, step, streamVars, current, messages, stopReason, ran,
                   torn>>

NextCall ==
    /\ pc = "tool_finished"
    /\ pc' = "tools"
    /\ UNCHANGED <<finalize, step, streamVars, answered, current, messages,
                   stopReason, ran, trace, torn>>

(* Mutation: truncated calls are skipped without a result. *)
ResultsOfWhole == answered \ truncated

Results == answered

(* All results go back to the model in one message. *)
ReturnResults ==
    /\ pc = "tools"
    /\ calls = answered
    /\ messages' = Append(messages, Message("user", Results))
    /\ pc' = "step"
    /\ UNCHANGED <<finalize, step, streamVars, answered, current, stopReason, ran,
                   trace, torn>>

-----------------------------------------------------------------------------
(* The write of an event raises, wherever one is due: the run fails. *)
NotRecorded ==
    /\ TraceMayFail
    /\ \/ pc = "step" /\ (WithinLimit \/ finalize)
       \/ pc = "stream" /\ StreamOver
       \/ pc = "tools" /\ calls # answered
       \/ pc \in {"tool_started", "executing"}
    /\ pc' = "raised"
    /\ UNCHANGED <<finalize, step, streamVars, answered, current, messages,
                   stopReason, ran, trace, torn>>

(* CancelledError, where the coroutine suspends. *)
Cancelled ==
    /\ pc \in {"stream", "tool_started", "executing", "tool_finished"}
    /\ pc' = "cancelled"
    /\ UNCHANGED <<finalize, step, streamVars, answered, current, messages,
                   stopReason, ran, trace, torn>>

Advance ==
    \/ StartStep \/ StartFinalStep \/ StopAtLimit
    \/ BlockStart \/ ArgumentsDelta \/ MessageStop \/ StreamCloses
    \/ \E i \in Slots : BlockStop(i)
    \/ StepFinished \/ LlmRaises
    \/ ToolStarted \/ Refuse \/ Execute \/ HandlerEnds \/ NextCall \/ ReturnResults
    \/ NotRecorded

Next == Advance \/ Cancelled

Spec == Init /\ [][Next]_vars

(* The model ends its responses, handlers return, and the event loop runs  *)
(* the coroutine.  Nobody has to cancel it.                                *)
FairSpec == Spec /\ WF_vars(Advance)

-----------------------------------------------------------------------------
(* Properties *)

(* User and assistant take turns, and each response with tool calls is     *)
(* followed by the results of exactly these calls.  Results without their  *)
(* response are those of a step whose stream was torn.                     *)
Dialogue(m) ==
    /\ m[1].from = "user"
    /\ \A i \in DOMAIN m \ {1} :
           m[i].from = m[i - 1].from => m[i].from = "user" /\ m[i].step \in torn
    /\ \A i \in DOMAIN m :
           m[i].from = "assistant" /\ i < Len(m) =>
               m[i].calls # {} /\ m[i + 1].calls = m[i].calls /\ m[i + 1].step = m[i].step

(* Every request is one the API accepts, whatever calls were truncated,    *)
(* refused or failed, but for the results of torn steps (AgentLoop.run).   *)
RequestsWellFormed ==
    pc \in {"stream", "returned"} =>
        /\ Dialogue(messages)
        /\ pc = "stream" => messages[Len(messages)].from = "user"

(* A call whose arguments could not be parsed is never executed.           *)
NoPartialCallRuns == \A r \in ran : r.got # "part"

Events(s, stages) ==
    Cardinality({i \in DOMAIN trace : trace[i].step = s /\ trace[i].stage \in stages})

Finishes == {"tool_completed", "tool_failed"}

(* The trace accounts for the run: one call is open at most, each handler  *)
(* ran in a call, each result the model was given has its event, and a     *)
(* conversation that returned leaves nothing open.                         *)
AuditTrail ==
    /\ \A s \in 1..MaxSteps + 1 :
        /\ Events(s, {"tool_started"}) - Events(s, Finishes) \in {0, 1}
        /\ Cardinality({r \in ran : r.step = s}) <= Events(s, {"tool_started"})
        /\ pc = "returned" =>
               /\ Events(s, {"tool_started"}) = Events(s, Finishes)
               /\ Events(s, {"llm_response_done"}) = Events(s, {"step_started"})
    /\ \A i \in DOMAIN messages :
           messages[i].from = "user" =>
               Events(messages[i].step, Finishes) = Cardinality(messages[i].calls)

(* The stop reason is true: max_steps only if every step asked for tools,  *)
(* and otherwise the last response, which asked for none, is the answer.   *)
(* If the stream of the last step was torn there is no such response: the  *)
(* reason is that of an earlier step, which asked for tools, or unknown if *)
(* none came whole (AgentLoop.run).                                        *)
OutcomeIsTrue ==
    pc = "returned" =>
        IF stopReason = "max_steps"
        THEN /\ \A s \in 1..MaxSteps : Events(s, {"tool_started"}) > 0
             /\ step = MaxSteps + (IF finalize THEN 1 ELSE 0)
        ELSE /\ step <= MaxSteps /\ Events(step, {"tool_started"}) = 0
             /\ step \notin torn => /\ stopReason \in {"end_turn", "max_tokens"}
                                   /\ messages[Len(messages)] = Message("assistant", {})
             /\ step \in torn => IF 1..step - 1 \subseteq torn
                                 THEN stopReason = "unknown"
                                 ELSE stopReason \in {"tool_use", "max_tokens"}

(* The conversation ends, at the step limit at the latest.                 *)
LoopEnds == <>(pc \in {"returned", "raised", "cancelled"})

=============================================================================
