------------------------- MODULE PermissionBrokerProofs -------------------------
(***************************************************************************)
(* Proofs about PermissionBroker.  The invariant follows a call through    *)
(* its stages: a call that was not made yet has left no trace at all, a    *)
(* call that is asked for belongs to one live run, and the future of a     *)
(* call agrees with the answers that were confirmed.                       *)
(***************************************************************************)
EXTENDS PermissionBroker, TLAPS

Active(q) == stage[q] \in {"sending", "waiting"}

(* A run in authorize() is live, and no two runs are in it with one call. *)
CurrentInv ==
    /\ \A r \in Runs : current[r] # None => Active(current[r]) /\ run[r] # "over"
    /\ \A r, s \in Runs : current[r] = current[s] /\ current[r] # None => r = s

NewInv(q) ==
    stage[q] = "new" => q \notin pending /\ future[q] = "open" /\ q \notin expired
                        /\ accepted[q] = <<>> /\ trace[q] = <<>> /\ q \notin ran

ActiveInv(q) ==
    Active(q) =>
        /\ \E r \in Runs : current[r] = q
        /\ trace[q] = <<"requested">> /\ q \notin ran
        /\ terms[q] \in Terms /\ Evaluate(terms[q]) = "ask"
        /\ future[q] = "open" => q \in pending
        /\ stage[q] = "sending" => future[q] # "void" /\ q \notin expired

(* Only the timeout of the call or the end of its run voids its future. *)
VoidInv(q) ==
    Active(q) /\ future[q] = "void" =>
        q \in expired \/ \E r \in Runs : current[r] = q /\ run[r] = "cancelling"

AnswerInv(q) ==
    /\ q \in pending => Active(q)
    /\ \/ accepted[q] = <<>> /\ future[q] \in {"open", "void"}
       \/ /\ q \notin pending
          /\ future[q] = "allow" /\ accepted[q] = <<"allow">>
       \/ /\ q \notin pending
          /\ future[q] = "deny" /\ accepted[q] = <<"deny">>

(* How a call that is over went. *)
DoneInv(q) ==
    \/ trace[q] = <<>> /\ q \notin ran
    \/ trace[q] = <<"requested">> /\ q \notin ran
    \/ /\ trace[q] = <<"requested", "granted">> /\ q \in ran
       /\ "deny" \notin terms[q].rules
       /\ Evaluate(terms[q]) = "allow" \/ accepted[q] = <<"allow">>
    \/ /\ trace[q] = <<"requested", "denied">> /\ q \notin ran
       /\ Evaluate(terms[q]) = "ask" => q \in expired \/ accepted[q] = <<"deny">>

CallInv(q) == NewInv(q) /\ ActiveInv(q) /\ VoidInv(q) /\ AnswerInv(q) /\ DoneInv(q)

Inv ==
    /\ TypeOK
    /\ CurrentInv
    /\ \A q \in Calls : CallInv(q)

-----------------------------------------------------------------------------
(* The policy *)

(* A denying rule is decisive. *)
LEMMA DenyingRule ==
    ASSUME NEW t \in Terms, "deny" \in t.rules
    PROVE  Evaluate(t) = "deny"
BY DEF Evaluate

(* The policy always comes to a decision. *)
LEMMA EvaluateType ==
    ASSUME NEW t \in Terms
    PROVE  Evaluate(t) \in Decisions
<1>1. t.override \in Decisions \cup {None} /\ t.spec \in Decisions \cup {None}
  BY TermsAssumption
<1>2. QED
  BY <1>1, BrokerAssumption DEF Evaluate, DefaultDecision, Decisions

-----------------------------------------------------------------------------
(* Steps *)

(* The server starts in the invariant. *)
LEMMA InitInv == Init => Inv
BY BrokerAssumption DEF Init, Inv, TypeOK, CurrentInv, CallInv, NewInv, ActiveInv, VoidInv, AnswerInv,
   DoneInv, Active, Stages, Futures

(* What the end of a check does to the call and its run. *)
LEMMA ConcludeType ==
    ASSUME TypeOK, NEW r \in Runs, NEW q \in Calls, NEW outcome, NEW events,
           events \in Seq({"requested", "granted", "denied"}),
           Conclude(r, q, outcome, events)
    PROVE  /\ stage' \in [Calls -> Stages]
           /\ current' \in [Runs -> Calls \cup {None}]
           /\ trace' \in [Calls -> Seq({"requested", "granted", "denied"})]
           /\ ran' \in SUBSET Calls
           /\ run' \in [Runs -> {"running", "cancelling", "over"}]
<1> DEFINE Events == {"requested", "granted", "denied"}
<1>1. Append(events, Verdict(outcome)) \in Seq(Events)
  BY DEF Verdict
<1>2. PICK e \in Seq(Events) : trace' = [trace EXCEPT ![q] = e]
  BY <1>1 DEF Conclude
<1>3. trace' \in [Calls -> Seq(Events)]
  BY <1>2 DEF TypeOK
<1>4. ran' \in SUBSET Calls /\ run' \in [Runs -> {"running", "cancelling", "over"}]
  BY DEF Conclude, TypeOK
<1>5. stage' \in [Calls -> Stages] /\ current' \in [Runs -> Calls \cup {None}]
  BY DEF Conclude, TypeOK, Stages
<1>6. QED
  BY <1>3, <1>4, <1>5

(* Every step preserves the types. *)
LEMMA TypeStep == TypeOK /\ [Next]_vars => TypeOK'
<1> SUFFICES ASSUME TypeOK, [Next]_vars PROVE TypeOK'
  OBVIOUS
<1> USE DEF TypeOK, runVars, askVars, callVars, Stages, Futures, Answers
<1>1. ASSUME NEW r \in Runs, NEW q \in Calls, NEW t \in Terms, Decide(r, q, t) PROVE TypeOK'
  <2>1. <<"requested">> \in Seq({"requested", "granted", "denied"})
    OBVIOUS
  <2>2. QED
    BY <1>1, <2>1, ConcludeType DEF Decide
<1>2. ASSUME NEW r \in Runs, NEW q \in Calls, NEW t \in Terms, Ask(r, q, t) PROVE TypeOK'
  BY <1>2 DEF Ask
<1>3. ASSUME NEW r \in Runs, NEW q \in Calls, NEW t \in Terms, RequestNotRecorded(r, q, t)
      PROVE  TypeOK'
  BY <1>3 DEF RequestNotRecorded
<1>4. ASSUME NEW r \in Runs, NEW q \in Calls, NEW c \in Conns, Send(r, q, c) PROVE TypeOK'
  <2>1. unsent' \in [Calls -> SUBSET Conns] /\ asked' \in [Calls -> SUBSET Conns]
    <3>1. [asked EXCEPT ![q] = @ \cup {c}] \in [Calls -> SUBSET Conns]
      OBVIOUS
    <3>2. asked' \in [Calls -> SUBSET Conns]
      BY <1>4, <3>1 DEF Send
    <3>3. unsent' \in [Calls -> SUBSET Conns]
      BY <1>4 DEF Send
    <3>4. QED
      BY <3>2, <3>3
  <2>2. UNCHANGED <<subscribers, terms, future, expired, accepted>>
    BY <1>4 DEF Send
  <2>3. CASE LeaveTable(q, FALSE) /\ Conclude(r, q, future[q], trace[q])
    <3>1. trace[q] \in Seq({"requested", "granted", "denied"})
      OBVIOUS
    <3>2. pending' \in SUBSET Calls
      BY <2>3 DEF LeaveTable
    <3>3. QED
      BY <2>1, <2>2, <2>3, <3>1, <3>2, ConcludeType
  <2>4. CASE /\ stage' \in {stage, [stage EXCEPT ![q] = "waiting"]}
             /\ UNCHANGED <<run, pending, current, ran, trace>>
    <3>1. stage' \in [Calls -> Stages]
      BY <2>4
    <3>2. QED
      BY <2>1, <2>2, <2>4, <3>1
  <2>5. QED
    BY <1>4, <2>3, <2>4 DEF Send
<1>5. ASSUME NEW r \in Runs, NEW q \in Calls, Resume(r, q) PROVE TypeOK'
  <2>1. trace[q] \in Seq({"requested", "granted", "denied"})
    OBVIOUS
  <2>2. QED
    BY <1>5, <2>1, ConcludeType DEF Resume, LeaveTable
<1>6. ASSUME NEW r \in Runs, Cancelled(r) PROVE TypeOK'
  BY <1>6 DEF Cancelled, LeaveTable
<1>7. ASSUME NEW r \in Runs, Finish(r) PROVE TypeOK'
  BY <1>7 DEF Finish, CancelForRun
<1>8. ASSUME NEW c \in Conns, NEW q \in Calls, NEW answer \in Answers, Respond(c, q, answer)
      PROVE  TypeOK'
  <2>1. accepted[q] \in Seq(Answers)
    OBVIOUS
  <2>2. Append(accepted[q], answer) \in Seq(Answers)
    BY <2>1
  <2>3. accepted' \in [Calls -> Seq(Answers)]
    BY <1>8, <2>2 DEF Respond
  <2>4. future' \in [Calls -> Futures] /\ pending' \in SUBSET Calls
    BY <1>8 DEF Respond
  <2>5. QED
    BY <1>8, <2>3, <2>4 DEF Respond
<1>9. ASSUME NEW c \in Conns, NEW r \in Runs, Subscribe(c, r) \/ Unsubscribe(c, r)
      PROVE  TypeOK'
  BY <1>9 DEF Subscribe, Unsubscribe
<1>10. ASSUME NEW q \in Calls, Expire(q) PROVE TypeOK'
  BY <1>10 DEF Expire, Void
<1>11. ASSUME NEW r \in Runs, CancelRun(r) PROVE TypeOK'
  BY <1>11 DEF CancelRun, Void
<1>12. CASE UNCHANGED vars
  BY <1>12 DEF vars
<1>13. QED
  BY <1>1, <1>2, <1>3, <1>4, <1>5, <1>6, <1>7, <1>8, <1>9, <1>10, <1>11, <1>12
     DEF Next, RunStep, ClientStep

(* A call keeps its invariant if a step does not touch it or its run. *)
LEMMA Frame ==
    ASSUME NEW p \in Calls, CallInv(p),
           stage'[p] = stage[p], trace'[p] = trace[p], terms'[p] = terms[p],
           future'[p] = future[p], accepted'[p] = accepted[p],
           p \in pending' <=> p \in pending,
           p \in expired' <=> p \in expired,
           p \in ran' <=> p \in ran,
           \A s \in Runs : current[s] = p =>
               current'[s] = p /\ (run[s] = "cancelling" => run'[s] = "cancelling")
    PROVE  CallInv(p)'
<1> USE DEF CallInv, Active
<1>1. NewInv(p)' /\ AnswerInv(p)' /\ DoneInv(p)'
  BY DEF NewInv, AnswerInv, DoneInv
<1>2. ActiveInv(p)'
  BY DEF ActiveInv
<1>3. VoidInv(p)'
  BY DEF VoidInv
<1>4. QED
  BY <1>1, <1>2, <1>3

(* The end of a check, for its own call: the outcome has a cause. *)
LEMMA ConcludeCall ==
    ASSUME TypeOK, NEW r \in Runs, NEW q \in Calls, NEW outcome,
           Conclude(r, q, outcome, <<"requested">>),
           q \notin ran, q \notin pending',
           AnswerInv(q), future'[q] = future[q], accepted'[q] = accepted[q],
           q \in expired' <=> q \in expired,
           outcome = "allow" =>
               /\ "deny" \notin terms'[q].rules
               /\ Evaluate(terms'[q]) = "allow" \/ accepted[q] = <<"allow">>,
           outcome # "allow" /\ Evaluate(terms'[q]) = "ask" =>
               q \in expired \/ accepted[q] = <<"deny">>
    PROVE  CallInv(q)'
<1>1. stage'[q] = "done"
  BY DEF Conclude, TypeOK
<1>2. NewInv(q)' /\ ActiveInv(q)' /\ VoidInv(q)' /\ AnswerInv(q)'
  BY <1>1 DEF NewInv, ActiveInv, VoidInv, AnswerInv, Active
<1>3. \/ trace'[q] = <<"requested", "granted">> /\ outcome = "allow" /\ q \in ran'
      \/ trace'[q] = <<"requested", "denied">> /\ outcome # "allow" /\ q \notin ran'
      \/ trace'[q] = <<"requested">> /\ q \notin ran'
  BY DEF Conclude, Verdict, TypeOK
<1>4. DoneInv(q)'
  BY <1>3 DEF DoneInv
<1>5. QED
  BY <1>2, <1>4 DEF CallInv

(* The end of a check, for the other calls. *)
LEMMA ConcludeOthers ==
    ASSUME TypeOK, NEW r \in Runs, NEW q \in Calls, NEW outcome, NEW events,
           Conclude(r, q, outcome, events),
           NEW p \in Calls, p # q, CallInv(p),
           current[r] \in {q, None}, None \notin Calls,
           terms'[p] = terms[p], future'[p] = future[p], accepted'[p] = accepted[p],
           p \in pending' <=> p \in pending, p \in expired' <=> p \in expired
    PROVE  CallInv(p)'
<1>1. stage'[p] = stage[p] /\ trace'[p] = trace[p]
  BY DEF Conclude, TypeOK
<1>2. p \in ran' <=> p \in ran
  BY DEF Conclude
<1>3. \A s \in Runs : current[s] = p =>
          current'[s] = p /\ (run[s] = "cancelling" => run'[s] = "cancelling")
  BY DEF Conclude, TypeOK
<1>4. QED
  BY <1>1, <1>2, <1>3, Frame

(* The end of a check, for the runs. *)
LEMMA ConcludeCurrent ==
    ASSUME TypeOK, CurrentInv, NEW r \in Runs, NEW q \in Calls, NEW outcome, NEW events,
           Conclude(r, q, outcome, events),
           \A s \in Runs : s # r => current[s] # q, None \notin Calls
    PROVE  CurrentInv'
<1>1. \A s \in Runs : s # r => current'[s] = current[s] /\ run'[s] = run[s]
  BY DEF Conclude, TypeOK
<1>2. current'[r] = None
  BY DEF Conclude, TypeOK
<1>3. \A p \in Calls : p # q => stage'[p] = stage[p]
  BY DEF Conclude, TypeOK
<1>4. \A s \in Runs : current[s] \in Calls \cup {None}
  BY DEF TypeOK
<1>5. QED
  BY <1>1, <1>2, <1>3, <1>4 DEF CurrentInv, Active

(* Every step preserves the invariant. *)
LEMMA InvStep == Inv /\ [Next]_vars => Inv'
<1> SUFFICES ASSUME Inv, [Next]_vars PROVE CurrentInv' /\ \A p \in Calls : CallInv(p)'
  BY TypeStep DEF Inv
<1>t. TypeOK /\ CurrentInv /\ (\A p \in Calls : CallInv(p)) /\ None \notin Calls
  BY BrokerAssumption DEF Inv
<1>e. DEFINE Goal == CurrentInv' /\ \A p \in Calls : CallInv(p)'
<1>1. ASSUME NEW r \in Runs, NEW q \in Calls, NEW t \in Terms, Decide(r, q, t) PROVE Goal
  <2>1. NewInv(q) /\ AnswerInv(q) /\ stage[q] = "new"
    BY <1>1, <1>t DEF Decide, CallInv
  <2>2. /\ Conclude(r, q, Evaluate(t), <<"requested">>)
        /\ current[r] = None /\ Evaluate(t) # "ask"
        /\ terms' = [terms EXCEPT ![q] = t]
        /\ UNCHANGED askVars
    BY <1>1 DEF Decide
  <2>3. \A s \in Runs : current[s] # q
    BY <2>1, <1>t DEF CurrentInv, Active
  <2>4. CurrentInv'
    BY <1>t, <2>2, <2>3, ConcludeCurrent
  <2>5. terms'[q] = t /\ (Evaluate(t) = "allow" => "deny" \notin t.rules)
    BY <1>t, <2>2, DenyingRule DEF TypeOK
  <2>6. CallInv(q)'
    BY <1>t, <2>1, <2>2, <2>5, ConcludeCall DEF NewInv, askVars
  <2>7. ASSUME NEW p \in Calls, p # q PROVE CallInv(p)'
    <3>1. terms'[p] = terms[p]
      BY <1>t, <2>2, <2>7 DEF TypeOK
    <3>2. QED
      BY <1>t, <2>2, <2>7, <3>1, ConcludeOthers DEF askVars
  <2>8. QED
    BY <2>4, <2>6, <2>7
<1>2. ASSUME NEW r \in Runs, NEW q \in Calls, NEW t \in Terms, Ask(r, q, t) PROVE Goal
  <2>1. NewInv(q) /\ AnswerInv(q) /\ stage[q] = "new"
    BY <1>2, <1>t DEF Ask, CallInv
  <2>2. \A s \in Runs : current[s] # q
    BY <2>1, <1>t DEF CurrentInv, Active
  <2>3. CurrentInv'
    BY <1>2, <1>t, <2>2 DEF Ask, CurrentInv, Active, TypeOK, runVars
  <2>4. CallInv(q)'
    BY <1>2, <1>t, <2>1 DEF Ask, CallInv, NewInv, ActiveInv, VoidInv, AnswerInv, DoneInv,
       Active, TypeOK
  <2>5. ASSUME NEW p \in Calls, p # q PROVE CallInv(p)'
    BY <1>2, <1>t, <2>5, Frame DEF Ask, TypeOK, runVars
  <2>6. QED
    BY <2>3, <2>4, <2>5
<1>3. ASSUME NEW r \in Runs, NEW q \in Calls, NEW t \in Terms, RequestNotRecorded(r, q, t)
      PROVE  Goal
  <2>1. NewInv(q) /\ AnswerInv(q) /\ stage[q] = "new"
    BY <1>3, <1>t DEF RequestNotRecorded, CallInv
  <2>2. \A s \in Runs : current[s] # q
    BY <2>1, <1>t DEF CurrentInv, Active
  <2>3. CurrentInv'
    BY <1>3, <1>t, <2>2 DEF RequestNotRecorded, CurrentInv, Active, TypeOK
  <2>4. CallInv(q)'
    BY <1>3, <1>t, <2>1 DEF RequestNotRecorded, CallInv, NewInv, ActiveInv, VoidInv, AnswerInv,
       DoneInv, Active, TypeOK, askVars
  <2>5. ASSUME NEW p \in Calls, p # q PROVE CallInv(p)'
    BY <1>3, <1>t, <2>5, Frame DEF RequestNotRecorded, TypeOK, askVars
  <2>6. QED
    BY <2>3, <2>4, <2>5
<1>4. ASSUME NEW r \in Runs, NEW q \in Calls, Asking(r, q), run[r] = "running",
             future[q] # "open", LeaveTable(q, FALSE),
             stage[q] = "sending" \/ stage[q] = "waiting",
             Conclude(r, q, IF q \in expired THEN "deny" ELSE future[q], trace[q]),
             UNCHANGED <<terms, future, expired, accepted>>
      PROVE  Goal
  <2> DEFINE outcome == IF q \in expired THEN "deny" ELSE future[q]
  <2>1. CallInv(q) /\ Active(q) /\ current[r] = q
    BY <1>4, <1>t DEF Active, Asking
  <2>2. \A s \in Runs : s # r => current[s] # q
    BY <2>1, <1>t DEF CurrentInv
  <2>3. CurrentInv'
    BY <1>t, <1>4, <2>2, ConcludeCurrent
  <2>4. q \notin pending' /\ \A p \in Calls : p # q => (p \in pending' <=> p \in pending)
    BY <1>4 DEF LeaveTable
  <2>5. /\ trace[q] = <<"requested">> /\ q \notin ran
        /\ terms[q] \in Terms /\ Evaluate(terms[q]) = "ask"
    BY <2>1 DEF CallInv, ActiveInv
  <2>6. "deny" \notin terms[q].rules
    BY <2>5, DenyingRule
  <2>7. q \notin expired => future[q] # "void"
    BY <1>4, <2>1, <2>2 DEF CallInv, VoidInv
  <2>8. /\ outcome = "allow" => accepted[q] = <<"allow">>
        /\ outcome # "allow" => q \in expired \/ accepted[q] = <<"deny">>
    BY <1>4, <2>1, <2>7 DEF CallInv, AnswerInv
  <2>9. CallInv(q)'
    <3>1. Conclude(r, q, outcome, <<"requested">>)
      BY <1>4, <2>5
    <3>2. AnswerInv(q)
      BY <2>1 DEF CallInv
    <3> HIDE DEF outcome
    <3>3. QED
      BY <1>t, <1>4, <2>4, <2>5, <2>6, <2>8, <3>1, <3>2, ConcludeCall
  <2>10. ASSUME NEW p \in Calls, p # q PROVE CallInv(p)'
    BY <1>t, <1>4, <2>1, <2>4, <2>10, ConcludeOthers
  <2>11. QED
    BY <2>3, <2>9, <2>10
<1>5. ASSUME NEW r \in Runs, NEW q \in Calls, NEW c \in Conns, Send(r, q, c) PROVE Goal
  <2>1. /\ Asking(r, q) /\ run[r] = "running" /\ stage[q] = "sending" /\ CallInv(q)
        /\ UNCHANGED <<terms, future, expired, accepted>>
    BY <1>5, <1>t DEF Send
  <2>2. q \notin expired /\ future[q] # "void"
    BY <2>1 DEF CallInv, ActiveInv, Active
  <2>3. CASE future[q] # "open" /\ LeaveTable(q, FALSE) /\ Conclude(r, q, future[q], trace[q])
    BY <2>1, <2>2, <2>3, <1>4
  <2>4. CASE stage' = stage /\ UNCHANGED <<run, pending, current, ran, trace>>
    <3>1. CurrentInv'
      BY <1>t, <2>4 DEF CurrentInv, Active
    <3>2. ASSUME NEW p \in Calls PROVE CallInv(p)'
      BY <1>t, <2>1, <2>4, Frame
    <3>3. QED
      BY <3>1, <3>2
  <2>5. CASE /\ future[q] = "open" /\ stage' = [stage EXCEPT ![q] = "waiting"]
             /\ UNCHANGED <<run, pending, current, ran, trace>>
    <3>1. CurrentInv'
      BY <1>t, <2>5 DEF CurrentInv, Active, TypeOK
    <3>2. stage'[q] = "waiting"
      BY <1>t, <2>5 DEF TypeOK
    <3>3. CallInv(q)'
      BY <2>1, <2>2, <2>5, <3>2 DEF CallInv, NewInv, ActiveInv, VoidInv, AnswerInv, DoneInv, Active
    <3>4. ASSUME NEW p \in Calls, p # q PROVE CallInv(p)'
      <4>1. stage'[p] = stage[p]
        BY <1>t, <2>5, <3>4 DEF TypeOK
      <4>2. QED
        BY <1>t, <2>1, <2>5, <4>1, Frame
    <3>5. QED
      BY <3>1, <3>3, <3>4
  <2>6. QED
    BY <1>5, <2>3, <2>4, <2>5 DEF Send
<1>6. ASSUME NEW r \in Runs, NEW q \in Calls, Resume(r, q) PROVE Goal
  BY <1>6, <1>4 DEF Resume
<1>7. ASSUME NEW r \in Runs, Cancelled(r) PROVE Goal
  <2>1. /\ run[r] = "cancelling" /\ current' = [current EXCEPT ![r] = None]
        /\ run' = [run EXCEPT ![r] = "over"]
        /\ UNCHANGED <<terms, future, expired, accepted, ran, trace>>
    BY <1>7 DEF Cancelled
  <2>2. \A s \in Runs : s # r => current'[s] = current[s] /\ run'[s] = run[s]
    BY <1>t, <2>1 DEF TypeOK
  <2>3. current'[r] = None
    BY <1>t, <2>1 DEF TypeOK
  <2>4. CASE current[r] = None /\ UNCHANGED <<stage, pending>>
    <3>1. CurrentInv'
      BY <1>t, <2>2, <2>3, <2>4 DEF CurrentInv, Active
    <3>2. ASSUME NEW p \in Calls PROVE CallInv(p)'
      BY <1>t, <2>1, <2>2, <2>3, <2>4, Frame
    <3>3. QED
      BY <3>1, <3>2
  <2>5. ASSUME NEW q \in Calls, current[r] = q, stage' = [stage EXCEPT ![q] = "done"],
               LeaveTable(q, TRUE)
        PROVE  Goal
    <3>1. \A s \in Runs : s # r => current[s] # q
      BY <1>t, <2>5 DEF CurrentInv
    <3>2. stage'[q] = "done" /\ \A p \in Calls : p # q => stage'[p] = stage[p]
      BY <1>t, <2>5 DEF TypeOK
    <3>3. \A s \in Runs : current[s] \in Calls \cup {None}
      BY <1>t DEF TypeOK
    <3>4. CurrentInv'
      BY <1>t, <2>2, <2>3, <3>1, <3>2, <3>3 DEF CurrentInv, Active
    <3>5. CallInv(q)'
      BY <1>t, <2>1, <2>5, <3>2
         DEF CallInv, NewInv, ActiveInv, VoidInv, AnswerInv, DoneInv, Active, LeaveTable
    <3>6. ASSUME NEW p \in Calls, p # q PROVE CallInv(p)'
      BY <1>t, <2>1, <2>2, <2>5, <3>2, <3>6, Frame DEF LeaveTable
    <3>7. QED
      BY <3>4, <3>5, <3>6
  <2>6. QED
    BY <1>7, <2>4, <2>5 DEF Cancelled
<1>8. ASSUME NEW r \in Runs, Finish(r) PROVE Goal
  <2>1. /\ run' = [run EXCEPT ![r] = "over"] /\ current[r] = None /\ run[r] = "running"
        /\ CancelForRun(r) /\ UNCHANGED <<expired, accepted, callVars>>
    BY <1>8 DEF Finish
  <2>2. \A q \in Calls : ~Asking(r, q)
    BY <1>t, <2>1 DEF Asking
  <2>3. \A q \in Calls : future'[q] = future[q] /\ (q \in pending' <=> q \in pending)
    BY <1>t, <2>1, <2>2 DEF CancelForRun
  <2>4. CurrentInv'
    BY <1>t, <2>1 DEF CurrentInv, Active, TypeOK, callVars
  <2>5. ASSUME NEW p \in Calls PROVE CallInv(p)'
    <3>1. \A s \in Runs : run[s] = "cancelling" => run'[s] = "cancelling"
      BY <1>t, <2>1 DEF TypeOK
    <3>2. QED
      BY <1>t, <2>1, <2>3, <3>1, Frame DEF callVars
  <2>6. QED
    BY <2>4, <2>5
<1>9. ASSUME NEW c \in Conns, NEW q \in Calls, NEW answer \in Answers, Respond(c, q, answer)
      PROVE  Goal
  <2>1. q \in pending /\ pending' = pending \ {q} /\ UNCHANGED <<run, callVars, expired>>
    BY <1>9 DEF Respond, runVars
  <2>2. CallInv(q) /\ Active(q)
    BY <1>t, <2>1 DEF CallInv, AnswerInv
  <2>3. CurrentInv'
    BY <1>t, <2>1 DEF CurrentInv, Active, callVars
  <2>4. CallInv(q)'
    <3>1. accepted[q] = <<>> /\ future[q] \in {"open", "void"}
      BY <2>1, <2>2 DEF CallInv, AnswerInv
    <3>2. \/ future[q] = "void" /\ future'[q] = "void" /\ accepted'[q] = <<>>
          \/ future'[q] = "allow" /\ accepted'[q] = <<"allow">>
          \/ future'[q] = "deny" /\ accepted'[q] = <<"deny">>
      BY <1>9, <1>t, <3>1 DEF Respond, Answers, TypeOK
    <3>3. AnswerInv(q)'
      BY <2>1, <3>2 DEF AnswerInv
    <3>4. NewInv(q)' /\ DoneInv(q)'
      BY <2>1, <2>2, <3>1 DEF CallInv, NewInv, ActiveInv, DoneInv, Active, callVars
    <3>5. ActiveInv(q)' /\ VoidInv(q)'
      BY <2>1, <2>2, <3>2 DEF CallInv, ActiveInv, VoidInv, Active, callVars
    <3>6. QED
      BY <3>3, <3>4, <3>5 DEF CallInv
  <2>5. ASSUME NEW p \in Calls, p # q PROVE CallInv(p)'
    <3>1. future'[p] = future[p] /\ accepted'[p] = accepted[p]
      BY <1>9, <1>t, <2>5 DEF Respond, TypeOK
    <3>2. QED
      BY <1>t, <2>1, <2>5, <3>1, Frame DEF callVars
  <2>6. QED
    BY <2>3, <2>4, <2>5
<1>10. ASSUME NEW q \in Calls, Expire(q) PROVE Goal
  <2>1. /\ stage[q] = "waiting" /\ expired' = expired \cup {q} /\ future' = Void(q)
        /\ UNCHANGED <<run, callVars, pending, accepted>>
    BY <1>10 DEF Expire, runVars
  <2>2. CallInv(q)
    BY <1>t
  <2>3. CurrentInv'
    BY <1>t, <2>1 DEF CurrentInv, Active, callVars
  <2>4. future'[q] = IF future[q] = "open" THEN "void" ELSE future[q]
    BY <1>t, <2>1 DEF Void, TypeOK
  <2>5. CallInv(q)'
    BY <2>1, <2>2, <2>4
       DEF CallInv, NewInv, ActiveInv, VoidInv, AnswerInv, DoneInv, Active, callVars
  <2>6. ASSUME NEW p \in Calls, p # q PROVE CallInv(p)'
    <3>1. future'[p] = future[p]
      BY <1>t, <2>1, <2>6 DEF Void, TypeOK
    <3>2. QED
      BY <1>t, <2>1, <2>6, <3>1, Frame DEF callVars
  <2>7. QED
    BY <2>3, <2>5, <2>6
<1>11. ASSUME NEW r \in Runs, CancelRun(r) PROVE Goal
  <2>1. /\ run[r] = "running" /\ run' = [run EXCEPT ![r] = "cancelling"]
        /\ UNCHANGED <<callVars, pending, expired, accepted>>
    BY <1>11 DEF CancelRun
  <2>2. CurrentInv'
    BY <1>t, <2>1 DEF CurrentInv, Active, TypeOK, callVars
  <2>3. run'[r] = "cancelling" /\ \A s \in Runs : run[s] = "cancelling" => run'[s] = "cancelling"
    BY <1>t, <2>1 DEF TypeOK
  <2>4. ASSUME NEW p \in Calls, future'[p] = future[p] PROVE CallInv(p)'
    BY <1>t, <2>1, <2>3, <2>4, Frame DEF callVars
  <2>5. CASE future' = future
    BY <2>2, <2>4, <2>5
  <2>6. CASE current[r] # None /\ stage[current[r]] = "waiting" /\ future' = Void(current[r])
    <3>1. PICK q \in Calls : q = current[r]
      BY <1>t, <2>6 DEF TypeOK
    <3>2. future'[q] = IF future[q] = "open" THEN "void" ELSE future[q]
      BY <1>t, <2>6, <3>1 DEF Void, TypeOK
    <3>3. stage[q] = "waiting" /\ current'[r] = q /\ CallInv(q)
      BY <1>t, <2>1, <2>6, <3>1 DEF callVars
    <3>5. CallInv(q)'
      <4>1. NewInv(q)' /\ AnswerInv(q)' /\ DoneInv(q)'
        BY <2>1, <3>2, <3>3 DEF CallInv, NewInv, AnswerInv, DoneInv, Active, callVars
      <4>2. ActiveInv(q)' /\ VoidInv(q)'
        BY <2>1, <2>3, <3>2, <3>3 DEF CallInv, ActiveInv, VoidInv, Active, callVars
      <4>3. QED
        BY <4>1, <4>2 DEF CallInv
    <3>6. ASSUME NEW p \in Calls, p # q PROVE CallInv(p)'
      <4>1. future'[p] = future[p]
        BY <1>t, <2>6, <3>1, <3>6 DEF Void, TypeOK
      <4>2. QED
        BY <2>4, <4>1
    <3>7. QED
      BY <2>2, <3>1, <3>5, <3>6
  <2>7. QED
    BY <1>11, <2>5, <2>6 DEF CancelRun
<1>12. CASE /\ UNCHANGED <<run, askVars, callVars>>
  <2>1. CurrentInv'
    BY <1>t, <1>12 DEF CurrentInv, Active, callVars
  <2>2. ASSUME NEW p \in Calls PROVE CallInv(p)'
    BY <1>t, <1>12, Frame DEF askVars, callVars
  <2>3. QED
    BY <2>1, <2>2
<1>13. ASSUME NEW c \in Conns, NEW r \in Runs, Subscribe(c, r) \/ Unsubscribe(c, r) PROVE Goal
  BY <1>12, <1>13 DEF Subscribe, Unsubscribe
<1>14. CASE UNCHANGED vars
  BY <1>12, <1>14 DEF vars, runVars
<1>15. QED
  BY <1>1, <1>2, <1>3, <1>5, <1>6, <1>7, <1>8, <1>9, <1>10, <1>11, <1>13, <1>14
     DEF Next, RunStep, ClientStep

-----------------------------------------------------------------------------
(* Theorems *)

(* The invariant holds in every reachable state. *)
THEOREM InvariantHolds == Spec => []Inv
BY InitInv, InvStep, PTL DEF Spec

(* The type of every variable of the permission check. *)
THEOREM TypeCorrect == Spec => []TypeOK
<1>1. Inv => TypeOK
  BY DEF Inv
<1>2. QED
  BY <1>1, InvariantHolds, PTL

(* A tool runs only if the policy or the first answer allows it. *)
THEOREM NothingRunsUnallowed == Spec => []RunsOnlyIfAllowed
<1>1. Inv => RunsOnlyIfAllowed
  <2> SUFFICES ASSUME Inv, NEW q \in Calls
               PROVE  /\ Len(accepted[q]) <= 1
                      /\ q \in ran => /\ "deny" \notin terms[q].rules
                                      /\ Evaluate(terms[q]) = "allow" \/ accepted[q] = <<"allow">>
    <3>1. Inv => ran \subseteq Calls
      BY DEF Inv, TypeOK
    <3>2. QED
      BY <3>1 DEF RunsOnlyIfAllowed
  <2>1. accepted[q] = <<>> \/ accepted[q] = <<"allow">> \/ accepted[q] = <<"deny">>
    BY DEF Inv, CallInv, AnswerInv
  <2>2. Len(accepted[q]) <= 1
    <3>1. CASE accepted[q] = <<>>
      BY <3>1
    <3>2. CASE accepted[q] = <<"allow">>
      BY <3>2
    <3>3. CASE accepted[q] = <<"deny">>
      BY <3>3
    <3>4. QED
      BY <2>1, <3>1, <3>2, <3>3
  <2>3. QED
    BY <2>2 DEF Inv, CallInv, DoneInv
<1>2. QED
  BY <1>1, InvariantHolds, PTL

(* A call that was asked for is refused by a client or its timeout only. *)
THEOREM RefusalsHaveCause == Spec => []RefusedForCause
<1>1. Inv => RefusedForCause
  BY DEF Inv, CallInv, DoneInv, RefusedForCause, Concluded
<1>2. QED
  BY <1>1, InvariantHolds, PTL

(* The table of the broker neither leaks nor loses a request. *)
THEOREM NoLeak == Spec => []TableIsExact
<1>1. Inv => TableIsExact
  BY BrokerAssumption
     DEF Inv, CallInv, ActiveInv, AnswerInv, CurrentInv, Active, TableIsExact, Asking
<1>2. QED
  BY <1>1, InvariantHolds, PTL

(* What runs is what the trace grants. *)
THEOREM GrantsAreOnRecord == Spec => []RunsAreOnRecord
<1>1. Inv => RunsAreOnRecord
  <2> SUFFICES ASSUME Inv, NEW q \in Calls
               PROVE  q \in ran <=> trace[q] = <<"requested", "granted">>
    BY DEF RunsAreOnRecord
  <2> DEFINE granted == <<"requested", "granted">>
  <2>1. /\ granted # <<>> /\ granted # <<"requested">>
        /\ granted # <<"requested", "denied">>
    <3>1. Len(granted) = 2 /\ Len(<<"requested">>) = 1 /\ granted[2] = "granted"
      OBVIOUS
    <3>2. QED
      BY <3>1
  <2>2. QED
    BY <2>1 DEF Inv, CallInv, DoneInv
<1>2. QED
  BY <1>1, InvariantHolds, PTL

=============================================================================
