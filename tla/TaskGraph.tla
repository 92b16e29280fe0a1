------------------------------- MODULE TaskGraph -------------------------------
(***************************************************************************)
(* The plan of one run: core/task/graph as the plan tools of               *)
(* core/tools/builtin/plan drive it, with the observer that handle_chat    *)
(* installs (on_task_change).                                              *)
(*                                                                         *)
(* The agent loop executes one tool call at a time.  A call changes the    *)
(* graph at once and then announces the change, task by task: an event in  *)
(* the trace and a snapshot to the audience.  The announcement suspends,   *)
(* so the run may be cancelled in it, and a trace write may raise.  A call *)
(* that is refused changes nothing and has no action here.                 *)
(***************************************************************************)
EXTENDS Integers, Sequences, FiniteSets, SequencesExt

CONSTANTS Ids,            \* task ids the model may use
          DepLists,       \* dependency lists it may state
          MaxAttempts,    \* bound on the failures of all tasks
          MaxLost         \* bound on the tasks whose event does not reach the trace

ASSUME GraphAssumption ==
    /\ DepLists \subseteq Seq(Ids)
    /\ MaxAttempts \in Nat
    /\ MaxLost \in Nat

VARIABLES
  status,      \* Task.status, "absent" for an id without task
  deps,        \* Task.deps
  attempts,    \* Task.attempts
  change,      \* the kind of change being announced, or "none"
  left,        \* the tasks it has still to be announced for
  recorded,    \* the status the events of the task in the trace tell
  reopened,    \* how many task_reopened events the trace has
  unrecorded,  \* tasks with an event that did not reach the trace
  plan,        \* the last snapshot the audience got
  over         \* was the run cancelled?

graphVars == <<status, deps, attempts>>
auditVars == <<recorded, reopened, unrecorded, plan>>
vars == <<graphVars, change, left, auditVars, over>>

Statuses == {"absent", "pending", "in_progress", "completed"}

Kinds == {"added", "started", "completed", "reopened", "suspended", "updated"}

(* _TASK_CHANGE_STAGE: an update of dependencies leaves no event. *)
Traced == Kinds \ {"updated"}

TypeOK ==
    /\ status \in [Ids -> Statuses]
    /\ deps \in [Ids -> Seq(Ids)]
    /\ attempts \in [Ids -> Nat]
    /\ change \in Kinds \cup {"none"}
    /\ left \in SUBSET Ids
    /\ recorded \in [Ids -> Statuses]
    /\ reopened \in [Ids -> Nat]
    /\ unrecorded \in SUBSET Ids
    /\ plan \in [status : [Ids -> Statuses], deps : [Ids -> Seq(Ids)],
                 attempts : [Ids -> Nat]]
    /\ over \in BOOLEAN

(* TaskGraph.snapshot *)
Snapshot == [status |-> status, deps |-> deps, attempts |-> attempts]

Init ==
    /\ status = [t \in Ids |-> "absent"]
    /\ deps = [t \in Ids |-> <<>>]
    /\ attempts = [t \in Ids |-> 0]
    /\ change = "none"
    /\ left = {}
    /\ recorded = [t \in Ids |-> "absent"]
    /\ reopened = [t \in Ids |-> 0]
    /\ unrecorded = {}
    /\ plan = Snapshot
    /\ over = FALSE

-----------------------------------------------------------------------------
(* Checks of the graph *)

Tasks == {t \in Ids : status[t] # "absent"}

(* _assert_deps_exist *)
DepsExist(tasks, ds) == \A t \in tasks : ToSet(ds[t]) \subseteq tasks

Occurrences(seq, x) == Cardinality({i \in DOMAIN seq : seq[i] = x})

(* Mutation: a dependency that is listed twice counts once. *)
IndegreeOfSet(tasks, ds) == [t \in tasks |-> Cardinality(ToSet(ds[t]))]

Indegree(tasks, ds) == [t \in tasks |-> Len(ds[t])]

(* _assert_acyclic is Kahn's algorithm: <<queue, indegree>>. *)
KahnStates(tasks) == Seq(tasks) \X [tasks -> Int]

(* The head of the queue is visited: its successors lose the edges to it,  *)
(* those that lose their last one are queued.                              *)
Visit(tasks, ds, s) ==
    LET successor(t) == Occurrences(ds[t], Head(s[1])) > 0
        now == [t \in tasks |-> s[2][t] - Occurrences(ds[t], Head(s[1]))]
        freed == {t \in tasks : successor(t) /\ now[t] = 0}
    IN  <<Tail(s[1]) \o SetToSeq(freed), now>>

(* How many tasks are visited until the queue is empty. *)
Visited(tasks, ds) ==
    LET visits[s \in KahnStates(tasks)] ==
            IF s[1] = <<>> THEN 0 ELSE 1 + visits[Visit(tasks, ds, s)]
        indegree == Indegree(tasks, ds)
    IN  visits[<<SetToSeq({t \in tasks : indegree[t] = 0}), indegree>>]

(* Mutation: the new dependencies are only looked up. *)
ValidIfKnown(tasks, ds) == DepsExist(tasks, ds)

Valid(tasks, ds) == DepsExist(tasks, ds) /\ Visited(tasks, ds) = Cardinality(tasks)

(* current_task_id() is not None *)
Busy == \E t \in Ids : status[t] = "in_progress"

(* The agent loop may make a plan tool call. *)
Idle == change = "none" /\ ~over

(* _emit for each task of the change. *)
Begin(kind, tasks) == change' = kind /\ left' = tasks

-----------------------------------------------------------------------------
(* The plan tools *)

(* add_tasks: a list of tasks *)
Add(batch, ds) ==
    /\ Idle
    /\ IsFiniteSet(batch) /\ batch # {} /\ batch \cap Tasks = {}
    /\ deps' = [t \in Ids |-> IF t \in batch THEN ds[t] ELSE deps[t]]
    /\ Valid(Tasks \cup batch, deps')
    /\ status' = [t \in Ids |-> IF t \in batch THEN "pending" ELSE status[t]]
    /\ Begin("added", batch)
    /\ UNCHANGED <<attempts, auditVars, over>>

(* Mutation: any task that has not ended may get new dependencies. *)
MayUpdateUnfinished(t) == status[t] \in {"pending", "in_progress"}

MayUpdate(t) == status[t] = "pending"

(* update_deps.  A task that depends on itself would be a cycle as well.   *)
Update(t, ds) ==
    /\ Idle
    /\ MayUpdate(t)
    /\ t \notin ToSet(ds)
    /\ deps' = [deps EXCEPT ![t] = ds]
    /\ Valid(Tasks, deps')
    /\ Begin("updated", {t})
    /\ UNCHANGED <<status, attempts, auditVars, over>>

Startable(t) == status[t] = "pending"

DepsCompleted(t) == \A d \in ToSet(deps[t]) : status[d] = "completed"

(* start_task *)
Start(t) ==
    /\ Idle
    /\ Startable(t)
    /\ ~Busy
    /\ DepsCompleted(t)
    /\ status' = [status EXCEPT ![t] = "in_progress"]
    /\ Begin("started", {t})
    /\ UNCHANGED <<deps, attempts, auditVars, over>>

(* complete_task *)
Complete(t) ==
    /\ Idle
    /\ status[t] = "in_progress"
    /\ status' = [status EXCEPT ![t] = "completed"]
    /\ Begin("completed", {t})
    /\ UNCHANGED <<deps, attempts, auditVars, over>>

(* reopen_task: back to pending because of a failure ... *)
Reopen(t) ==
    /\ Idle
    /\ status[t] = "in_progress"
    /\ SumFunction(attempts) < MaxAttempts
    /\ status' = [status EXCEPT ![t] = "pending"]
    /\ attempts' = [attempts EXCEPT ![t] = @ + 1]
    /\ Begin("reopened", {t})
    /\ UNCHANGED <<deps, auditVars, over>>

(* Mutation: giving way is announced, and so counted, as a failure. *)
SuspendAsFailure(t) ==
    /\ Idle
    /\ status[t] = "in_progress"
    /\ status' = [status EXCEPT ![t] = "pending"]
    /\ Begin("reopened", {t})
    /\ UNCHANGED <<deps, attempts, auditVars, over>>

(* suspend_task: ... or to give way, which is not an attempt. *)
Suspend(t) ==
    /\ Idle
    /\ status[t] = "in_progress"
    /\ status' = [status EXCEPT ![t] = "pending"]
    /\ Begin("suspended", {t})
    /\ UNCHANGED <<deps, attempts, auditVars, over>>

-----------------------------------------------------------------------------
(* Announcing a change: on_task_change *)

(* The status a task has after an event. *)
Tells(kind) ==
    CASE kind = "started" -> "in_progress"
      [] kind = "completed" -> "completed"
      [] kind \in {"added", "reopened", "suspended"} -> "pending"

Record(t) ==
    IF change \in Traced
    THEN /\ recorded' = [recorded EXCEPT ![t] = Tells(change)]
         /\ reopened' = [reopened EXCEPT ![t] = @ + IF change = "reopened" THEN 1 ELSE 0]
    ELSE UNCHANGED <<recorded, reopened>>

(* Mutation: what leaves no event is not sent to the audience either. *)
AnnounceTraced(t) ==
    /\ ~over
    /\ t \in left
    /\ Record(t)
    /\ plan' = IF change \in Traced THEN Snapshot ELSE plan
    /\ left' = left \ {t}
    /\ change' = IF left' = {} THEN "none" ELSE change
    /\ UNCHANGED <<graphVars, unrecorded, over>>

(* One task: its event, if the change has one, and a snapshot to the       *)
(* audience.  The call returns with the last one.                          *)
Announce(t) ==
    /\ ~over
    /\ t \in left
    /\ Record(t)
    /\ plan' = Snapshot
    /\ left' = left \ {t}
    /\ change' = IF left' = {} THEN "none" ELSE change
    /\ UNCHANGED <<graphVars, unrecorded, over>>

(* The trace write raises: the call ends with an error result, although    *)
(* the graph has changed, and the rest is not announced.                   *)
AnnounceFails ==
    /\ Cardinality(unrecorded \cup left) <= MaxLost
    /\ ~over
    /\ change \in Traced
    /\ unrecorded' = unrecorded \cup left
    /\ left' = {}
    /\ change' = "none"
    /\ UNCHANGED <<graphVars, recorded, reopened, plan, over>>

(* CancelledError, while a snapshot is being sent or elsewhere in the run. *)
Cancel ==
    /\ ~over
    /\ over' = TRUE
    /\ unrecorded' = unrecorded \cup left
    /\ left' = {}
    /\ change' = "none"
    /\ UNCHANGED <<graphVars, recorded, reopened, plan>>

ToolCall ==
    \/ \E batch \in SUBSET Ids : \E ds \in [batch -> DepLists] : Add(batch, ds)
    \/ \E t \in Ids :
        \/ \E ds \in DepLists : Update(t, ds)
        \/ Start(t)
        \/ Complete(t)
        \/ Reopen(t)
        \/ Suspend(t)

Next ==
    \/ ToolCall
    \/ \E t \in Ids : Announce(t)
    \/ AnnounceFails
    \/ Cancel

Spec == Init /\ [][Next]_vars

-----------------------------------------------------------------------------
(* Properties *)

(* The reference: every set of tasks has one that waits for none of them. *)
WellFounded(tasks, ds) ==
    \A waiting \in SUBSET tasks :
        waiting # {} => \E t \in waiting : ToSet(ds[t]) \cap waiting = {}

(* The cycle check refuses exactly the changes that would close a cycle,   *)
(* whatever dependencies are repeated in a list.                           *)
CycleCheckExact ==
    Idle => \A t \in Tasks, ds \in DepLists :
        LET changed == [deps EXCEPT ![t] = ds]
        IN  DepsExist(Tasks, changed) =>
                (Valid(Tasks, changed) <=> WellFounded(Tasks, changed))

(* Work follows the dependencies: whatever was started has all of its      *)
(* dependencies completed, also after they were changed, and one task is   *)
(* in progress at most.                                                    *)
StartedInOrder ==
    /\ \A t \in Ids : status[t] \in {"in_progress", "completed"} => DepsCompleted(t)
    /\ \A t, u \in Ids : status[t] = "in_progress" /\ status[u] = "in_progress" => t = u

(* A plan cannot get stuck: unless all tasks are completed, one is in      *)
(* progress or one is ready to start.                                      *)
NeverStuck ==
    (\E t \in Tasks : status[t] # "completed") =>
        Busy \/ \E t \in Tasks : Startable(t) /\ DepsCompleted(t)

(* The trace tells the plan: between two calls the last event of a task    *)
(* gives its status, and its failures, not its suspensions, are counted.   *)
TraceTellsPlan ==
    \A t \in Ids \ (unrecorded \cup left) :
        /\ recorded[t] = status[t]
        /\ reopened[t] = attempts[t]

(* A completed task stays completed and keeps its dependencies. *)
CompletedIsFrozen ==
    [][\A t \in Ids : status[t] = "completed" =>
           status'[t] = "completed" /\ deps'[t] = deps[t] /\ attempts'[t] = attempts[t]]_vars

(* The audience has the current plan whenever no change is being announced *)
(* and none failed to be.                                                  *)
PlanUpToDate == change = "none" /\ unrecorded = {} => plan = Snapshot

=============================================================================
