---------------------------- MODULE PermissionBroker ----------------------------
(***************************************************************************)
(* The permission check before each tool call: core/permissions, the       *)
(* permission.respond handler and ToolRegistry.execute.                    *)
(*                                                                         *)
(* One broker serves all runs.  A call that needs an approval enters the   *)
(* broker's table, is announced to the subscribers of the session, one by  *)
(* one, and then waits for an answer under a timeout.  Answers, timeouts   *)
(* and cancellations come from other coroutines and timers: each of them   *)
(* only marks the future or the task, and the asking task sees the mark    *)
(* when it runs again.  The lock of the broker is never held over a        *)
(* suspension, so it does not show here.                                   *)
(***************************************************************************)
EXTENDS Naturals, Sequences, FiniteSets

CONSTANTS Conns,          \* client connections
          Runs,           \* runs, each in a session of its own
          Ephemeral,      \* runs in an ephemeral session, which has no subscribers
          Calls,          \* tool calls that are checked, and their request ids
          Terms,          \* what the policy knows of a call, see TermsAssumption
          GlobalDefault,  \* PermissionPolicy.global_default
          None,
          TraceMayFail    \* can a write to the trace store raise?

Decisions == {"allow", "deny", "ask"}

ASSUME BrokerAssumption ==
    /\ Ephemeral \subseteq Runs
    /\ None \notin Runs \cup Calls \cup Decisions
    /\ GlobalDefault \in Decisions
    /\ TraceMayFail \in BOOLEAN

(* The decisions of the rules that match a resource of the call, the       *)
(* default the policy sets for the tool, and the default of its own spec.  *)
ASSUME TermsAssumption ==
    Terms \subseteq [rules : SUBSET Decisions, override : Decisions \cup {None},
                     spec : Decisions \cup {None}]

VARIABLES
  subscribers,  \* Session.sinks of the session of a run
  run,          \* "running", "cancelling" once task.cancel() was called, "over"
  current,      \* the call the run has in authorize(), or None
  terms,        \* the terms of a call, None before it is made
  stage,        \* where the call is
  unsent,       \* connections the request has still to be sent to
  asked,        \* connections that got the request
  pending,      \* InteractiveBroker._pending
  future,       \* the future in the pending item
  expired,      \* calls whose timeout fired
  accepted,     \* answers that were confirmed to the client, in order
  ran,          \* calls whose handler was executed
  trace         \* permission events of the call

runVars  == <<subscribers, run>>
askVars  == <<unsent, asked, pending, future, expired, accepted>>
callVars == <<current, terms, stage, ran, trace>>
vars     == <<runVars, askVars, callVars>>

(* "sending": the broadcast; "waiting": wait_for; "done": the call was     *)
(* executed or refused, or its run ended.                                  *)
Stages == {"new", "sending", "waiting", "done"}

(* "void": the future was cancelled, by the timeout or with the task. *)
Futures == {"open", "allow", "deny", "void"}

Answers == {"allow", "deny"}

TypeOK ==
    /\ subscribers \in [Runs -> SUBSET Conns]
    /\ run \in [Runs -> {"running", "cancelling", "over"}]
    /\ current \in [Runs -> Calls \cup {None}]
    /\ terms \in [Calls -> Terms \cup {None}]
    /\ stage \in [Calls -> Stages]
    /\ unsent \in [Calls -> SUBSET Conns]
    /\ asked \in [Calls -> SUBSET Conns]
    /\ pending \in SUBSET Calls
    /\ future \in [Calls -> Futures]
    /\ expired \in SUBSET Calls
    /\ accepted \in [Calls -> Seq(Answers)]
    /\ ran \in SUBSET Calls
    /\ trace \in [Calls -> Seq({"requested", "granted", "denied"})]

Init ==
    /\ subscribers \in [Runs -> SUBSET Conns]
    /\ \A r \in Runs : r \in Ephemeral <=> subscribers[r] = {}
    /\ run = [r \in Runs |-> "running"]
    /\ current = [r \in Runs |-> None]
    /\ terms = [q \in Calls |-> None]
    /\ stage = [q \in Calls |-> "new"]
    /\ unsent = [q \in Calls |-> {}]
    /\ asked = [q \in Calls |-> {}]
    /\ pending = {}
    /\ future = [q \in Calls |-> "open"]
    /\ expired = {}
    /\ accepted = [q \in Calls |-> <<>>]
    /\ ran = {}
    /\ trace = [q \in Calls |-> <<>>]

-----------------------------------------------------------------------------
(* The policy and the end of a check *)

DefaultDecision(t) ==
    IF t.override # None THEN t.override
    ELSE IF t.spec # None THEN t.spec ELSE GlobalDefault

(* PermissionPolicy.evaluate *)
Evaluate(t) ==
    IF "deny" \in t.rules THEN "deny"
    ELSE IF "ask" \in t.rules THEN "ask"
    ELSE IF "allow" \in t.rules THEN "allow"
    ELSE DefaultDecision(t)

(* The stage that records an outcome. *)
Verdict(outcome) == IF outcome = "allow" THEN "granted" ELSE "denied"

Asking(r, q) == current[r] = q /\ stage[q] \in {"sending", "waiting"}

(* Mutation: the requests of all runs are swept. *)
CancelForRunAll(r) ==
    /\ pending' = {}
    /\ future' = [q \in Calls |-> IF q \in pending /\ future[q] = "open"
                                  THEN "deny" ELSE future[q]]

(* cancel_for_run: denies what is still pending of the run. *)
CancelForRun(r) ==
    /\ pending' = {q \in pending : ~Asking(r, q)}
    /\ future' = [q \in Calls |-> IF q \in pending /\ Asking(r, q) /\ future[q] = "open"
                                  THEN "deny" ELSE future[q]]

(* Mutation: the handler runs before its grant is on record. *)
ConcludeRunFirst(r, q, outcome, events) ==
    /\ stage' = [stage EXCEPT ![q] = "done"]
    /\ current' = [current EXCEPT ![r] = None]
    /\ ran' = IF outcome = "allow" THEN ran \cup {q} ELSE ran
    /\ \/ /\ trace' = [trace EXCEPT ![q] = Append(events, Verdict(outcome))]
          /\ run' = run
       \/ /\ TraceMayFail
          /\ trace' = [trace EXCEPT ![q] = events]
          /\ run' = [run EXCEPT ![r] = "over"]

(* The outcome is recorded, and the handler runs if it is a grant.  If the *)
(* record raises, the run fails; it has nothing left for cancel_for_run.   *)
Conclude(r, q, outcome, events) ==
    /\ stage' = [stage EXCEPT ![q] = "done"]
    /\ current' = [current EXCEPT ![r] = None]
    /\ \/ /\ trace' = [trace EXCEPT ![q] = Append(events, Verdict(outcome))]
          /\ ran' = IF outcome = "allow" THEN ran \cup {q} ELSE ran
          /\ run' = run
       \/ /\ TraceMayFail
          /\ trace' = [trace EXCEPT ![q] = events]
          /\ run' = [run EXCEPT ![r] = "over"]
          /\ ran' = ran

-----------------------------------------------------------------------------
(* The task of a run *)

(* A call the policy decides alone. *)
Decide(r, q, t) ==
    /\ run[r] = "running" /\ current[r] = None /\ stage[q] = "new"
    /\ Evaluate(t) # "ask"
    /\ terms' = [terms EXCEPT ![q] = t]
    /\ Conclude(r, q, Evaluate(t), <<"requested">>)
    /\ UNCHANGED <<subscribers, askVars>>

(* authorize and ask, up to the first wait. *)
Ask(r, q, t) ==
    /\ run[r] = "running" /\ current[r] = None /\ stage[q] = "new"
    /\ Evaluate(t) = "ask"
    /\ terms' = [terms EXCEPT ![q] = t]
    /\ trace' = [trace EXCEPT ![q] = <<"requested">>]
    /\ current' = [current EXCEPT ![r] = q]
    /\ pending' = pending \cup {q}
    /\ unsent' = [unsent EXCEPT ![q] = subscribers[r]]
    /\ stage' = [stage EXCEPT ![q] = IF subscribers[r] = {} THEN "waiting" ELSE "sending"]
    /\ UNCHANGED <<runVars, asked, future, expired, accepted, ran>>

(* The first record of a call raises: the run fails. *)
RequestNotRecorded(r, q, t) ==
    /\ TraceMayFail
    /\ run[r] = "running" /\ current[r] = None /\ stage[q] = "new"
    /\ terms' = [terms EXCEPT ![q] = t]
    /\ stage' = [stage EXCEPT ![q] = "done"]
    /\ run' = [run EXCEPT ![r] = "over"]
    /\ UNCHANGED <<subscribers, askVars, current, ran, trace>>

(* Mutation: a request is left in the table when its task is cancelled. *)
LeaveTableUnlessCancelled(q, cancelled) ==
    pending' = IF cancelled THEN pending ELSE pending \ {q}

(* The finally block of ask. *)
LeaveTable(q, cancelled) == pending' = pending \ {q}

(* One endpoint of the broadcast, which may be broken.  An answer that     *)
(* came during the broadcast is taken without a wait.                      *)
Send(r, q, c) ==
    /\ Asking(r, q) /\ stage[q] = "sending" /\ run[r] = "running"
    /\ c \in unsent[q]
    /\ unsent' = [unsent EXCEPT ![q] = @ \ {c}]
    /\ asked' \in {asked, [asked EXCEPT ![q] = @ \cup {c}]}
    /\ \/ /\ unsent[q] # {c}
          /\ UNCHANGED <<run, pending, stage, current, ran, trace>>
       \/ /\ unsent[q] = {c} /\ future[q] = "open"
          /\ stage' = [stage EXCEPT ![q] = "waiting"]
          /\ UNCHANGED <<run, pending, current, ran, trace>>
       \/ /\ unsent[q] = {c} /\ future[q] # "open"
          /\ LeaveTable(q, FALSE)
          /\ Conclude(r, q, future[q], trace[q])
    /\ UNCHANGED <<subscribers, terms, future, expired, accepted>>

(* wait_for ends: with TimeoutError if its timeout fired, whatever became  *)
(* of the future meanwhile.                                                *)
Resume(r, q) ==
    /\ Asking(r, q) /\ stage[q] = "waiting" /\ run[r] = "running"
    /\ future[q] # "open"
    /\ LeaveTable(q, FALSE)
    /\ Conclude(r, q, IF q \in expired THEN "deny" ELSE future[q], trace[q])
    /\ UNCHANGED <<subscribers, terms, unsent, asked, future, expired, accepted>>

(* CancelledError is delivered, wherever the task waits. *)
Cancelled(r) ==
    /\ run[r] = "cancelling"
    /\ run' = [run EXCEPT ![r] = "over"]
    /\ current' = [current EXCEPT ![r] = None]
    /\ \/ /\ current[r] = None
          /\ UNCHANGED <<stage, pending>>
       \/ \E q \in Calls :
              /\ current[r] = q
              /\ stage' = [stage EXCEPT ![q] = "done"]
              /\ LeaveTable(q, TRUE)
    /\ UNCHANGED <<subscribers, terms, unsent, asked, future, expired, accepted, ran, trace>>

(* handle_chat ends by itself, between two calls. *)
Finish(r) ==
    /\ run[r] = "running" /\ current[r] = None
    /\ run' = [run EXCEPT ![r] = "over"]
    /\ CancelForRun(r)
    /\ UNCHANGED <<subscribers, unsent, asked, expired, accepted, callVars>>

-----------------------------------------------------------------------------
(* Everybody else *)

(* Mutation: an answer overrides an earlier one. *)
RespondLast(c, q, answer) ==
    /\ c \in asked[q]
    /\ stage[q] \in {"sending", "waiting"} /\ future[q] # "void"
    /\ future' = [future EXCEPT ![q] = answer]
    /\ accepted' = [accepted EXCEPT ![q] = Append(@, answer)]
    /\ UNCHANGED <<runVars, callVars, unsent, asked, expired, pending>>

(* permission.respond.  Without a pending item it only reports an error.   *)
Respond(c, q, answer) ==
    /\ c \in asked[q] /\ q \in pending
    /\ pending' = pending \ {q}
    /\ IF future[q] = "open"
       THEN /\ future' = [future EXCEPT ![q] = answer]
            /\ accepted' = [accepted EXCEPT ![q] = Append(@, answer)]
       ELSE UNCHANGED <<future, accepted>>
    /\ UNCHANGED <<runVars, callVars, unsent, asked, expired>>

(* task.cancel() on a task that waits for the future: the future is        *)
(* cancelled unless it has a result.                                       *)
Void(q) == [future EXCEPT ![q] = IF @ = "open" THEN "void" ELSE @]

(* Mutation: the timeout only notes that it fired. *)
ExpireQuietly(q) ==
    /\ stage[q] = "waiting" /\ q \notin expired
    /\ expired' = expired \cup {q}
    /\ UNCHANGED <<runVars, callVars, unsent, asked, pending, future, accepted>>

(* The timer of wait_for fires before the task runs again. *)
Expire(q) ==
    /\ stage[q] = "waiting" /\ q \notin expired
    /\ expired' = expired \cup {q}
    /\ future' = Void(q)
    /\ UNCHANGED <<runVars, callVars, unsent, asked, pending, accepted>>

(* Run.cancel, by a leaving connection or the shutdown. *)
CancelRun(r) ==
    /\ run[r] = "running"
    /\ run' = [run EXCEPT ![r] = "cancelling"]
    /\ IF current[r] # None /\ stage[current[r]] = "waiting"
       THEN future' = Void(current[r])
       ELSE future' = future
    /\ UNCHANGED <<subscribers, callVars, unsent, asked, pending, expired, accepted>>

(* Clients come to and leave the session of a run. *)
Subscribe(c, r) ==
    /\ r \notin Ephemeral /\ c \notin subscribers[r]
    /\ subscribers' = [subscribers EXCEPT ![r] = @ \cup {c}]
    /\ UNCHANGED <<run, askVars, callVars>>

Unsubscribe(c, r) ==
    /\ c \in subscribers[r]
    /\ subscribers' = [subscribers EXCEPT ![r] = @ \ {c}]
    /\ UNCHANGED <<run, askVars, callVars>>

RunStep(r) ==
    \/ Cancelled(r)
    \/ Finish(r)
    \/ \E q \in Calls :
        \/ \E t \in Terms : Decide(r, q, t) \/ Ask(r, q, t) \/ RequestNotRecorded(r, q, t)
        \/ \E c \in Conns : Send(r, q, c)
        \/ Resume(r, q)

ClientStep(c) ==
    \/ \E q \in Calls, answer \in Answers : Respond(c, q, answer)
    \/ \E r \in Runs : Subscribe(c, r) \/ Unsubscribe(c, r)

Next ==
    \/ \E r \in Runs : RunStep(r) \/ CancelRun(r)
    \/ \E q \in Calls : Expire(q)
    \/ \E c \in Conns : ClientStep(c)

Spec == Init /\ [][Next]_vars

(* The event loop runs every ready task and fires every timer, and a       *)
(* client takes what it is sent or is dropped.  Nobody has to answer.      *)
LiveSpec ==
    /\ Spec
    /\ \A r \in Runs : WF_vars(Cancelled(r))
    /\ \A r \in Runs, q \in Calls : WF_vars(Resume(r, q))
    /\ \A r \in Runs, q \in Calls : WF_vars(\E c \in Conns : Send(r, q, c))
    /\ \A q \in Calls : WF_vars(Expire(q))

-----------------------------------------------------------------------------
(* Properties *)

Concluded(q) == Len(trace[q]) = 2

(* A tool runs only if no rule denies it and either the policy allows it   *)
(* or an allowance was the first answer; of the answers to one request a   *)
(* single one is confirmed.                                                *)
RunsOnlyIfAllowed ==
    /\ \A q \in Calls : Len(accepted[q]) <= 1
    /\ \A q \in ran : /\ "deny" \notin terms[q].rules
                      /\ Evaluate(terms[q]) = "allow" \/ accepted[q] = <<"allow">>

(* A call that was asked for is refused only by a client or by its own     *)
(* timeout: no other run, answer or timer can refuse it.                   *)
RefusedForCause ==
    \A q \in Calls :
        Concluded(q) /\ Evaluate(terms[q]) = "ask" /\ q \notin ran =>
            q \in expired \/ accepted[q] = <<"deny">>

(* The table of the broker holds nothing but requests that a live run is   *)
(* waiting for, and every such request that can still be answered.         *)
TableIsExact ==
    \A q \in Calls :
        /\ q \in pending =>
               \E r \in Runs : Asking(r, q) /\ run[r] # "over"
        /\ stage[q] \in {"sending", "waiting"} /\ future[q] = "open" => q \in pending

(* No handler runs without its grant in the trace, and the other way       *)
(* round, also when trace writes fail.                                     *)
RunsAreOnRecord ==
    \A q \in Calls : q \in ran <=> trace[q] = <<"requested", "granted">>

(* Every check ends, though no client answers. *)
EveryCheckEnds == \A r \in Runs : current[r] # None ~> current[r] = None

=============================================================================
