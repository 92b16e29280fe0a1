---------------------------- MODULE TaskGraphProofs ----------------------------
(***************************************************************************)
(* Proofs about TaskGraph for any set of task ids and dependency lists.    *)
(* The cycle check is Kahn's algorithm, and it is exact for every graph    *)
(* (KahnIsExact), so that the plan stays acyclic and never gets stuck.     *)
(***************************************************************************)
EXTENDS TaskGraph, FiniteSetTheorems, SequenceTheorems, WellFoundedInduction, TLAPS

USE DEF Statuses, Kinds, Traced, graphVars, auditVars

(* What a change that is being announced says is so. *)
ChangeIsSo ==
    /\ change = "none" <=> left = {}
    /\ change \in Traced => \A t \in left : status[t] = Tells(change)
    /\ change = "updated" => \A t \in left \ unrecorded : recorded[t] = status[t]
    /\ \A t \in left \ unrecorded :
           attempts[t] = reopened[t] + IF change = "reopened" THEN 1 ELSE 0

(* Every task of the plan depends on tasks of the plan, and no set of them *)
(* waits for itself.                                                       *)
PlanInv ==
    /\ IsFiniteSet(Tasks)
    /\ DepsExist(Tasks, deps)
    /\ WellFounded(Tasks, deps)

Inv ==
    /\ TypeOK /\ StartedInOrder /\ PlanInv
    /\ ChangeIsSo /\ TraceTellsPlan /\ PlanUpToDate

-----------------------------------------------------------------------------
(* Types *)

(* A run starts with an empty plan. *)
LEMMA TypeInit == Init => TypeOK
<1> SUFFICES ASSUME Init PROVE TypeOK
  OBVIOUS
<1>1. /\ status \in [Ids -> Statuses]
      /\ deps \in [Ids -> Seq(Ids)]
      /\ attempts \in [Ids -> Nat]
  BY DEF Init
<1>2. plan \in [status : [Ids -> Statuses], deps : [Ids -> Seq(Ids)],
               attempts : [Ids -> Nat]]
  BY <1>1 DEF Init, Snapshot
<1> QED
  BY <1>1, <1>2 DEF Init, TypeOK

(* What the audience is sent is a plan. *)
LEMMA SnapshotType ==
  ASSUME TypeOK
  PROVE  Snapshot \in [status : [Ids -> Statuses], deps : [Ids -> Seq(Ids)],
                       attempts : [Ids -> Nat]]
  BY DEF TypeOK, Snapshot

(* Every step keeps the types. *)
LEMMA TypeStep == TypeOK /\ [Next]_vars => TypeOK'
<1> SUFFICES ASSUME TypeOK, [Next]_vars PROVE TypeOK'
  OBVIOUS
<1>1. ASSUME NEW batch \in SUBSET Ids, NEW ds \in [batch -> DepLists], Add(batch, ds)
      PROVE  TypeOK'
  <2>1. deps' \in [Ids -> Seq(Ids)]
    BY <1>1, GraphAssumption DEF TypeOK, Add
  <2>2. status' \in [Ids -> Statuses] /\ left' \in SUBSET Ids /\ change' \in Kinds
    BY <1>1 DEF TypeOK, Add, Begin
  <2> QED
    BY <1>1, <2>1, <2>2 DEF TypeOK, Add
<1>2. ASSUME NEW t \in Ids, NEW ds \in DepLists, Update(t, ds) PROVE TypeOK'
  <2>1. deps' \in [Ids -> Seq(Ids)]
    BY <1>2, GraphAssumption DEF TypeOK, Update
  <2> QED
    BY <1>2, <2>1 DEF TypeOK, Update, Begin
<1>3. ASSUME NEW t \in Ids, Start(t) PROVE TypeOK'
  BY <1>3 DEF TypeOK, Start, Begin
<1>4. ASSUME NEW t \in Ids, Complete(t) PROVE TypeOK'
  BY <1>4 DEF TypeOK, Complete, Begin
<1>5. ASSUME NEW t \in Ids, Reopen(t) PROVE TypeOK'
  BY <1>5 DEF TypeOK, Reopen, Begin
<1>6. ASSUME NEW t \in Ids, Suspend(t) PROVE TypeOK'
  BY <1>6 DEF TypeOK, Suspend, Begin
<1>7. ASSUME NEW t \in Ids, Announce(t) PROVE TypeOK'
  <2>1. recorded' \in [Ids -> Statuses] /\ reopened' \in [Ids -> Nat]
    <3>1. change \in Traced => Tells(change) \in Statuses
      BY DEF Tells
    <3>2. (IF change = "reopened" THEN 1 ELSE 0) \in Nat
      OBVIOUS
    <3>3. CASE change \in Traced
      <4>1. /\ recorded' = [recorded EXCEPT ![t] = Tells(change)]
            /\ reopened' = [reopened EXCEPT ![t] = @ + IF change = "reopened" THEN 1 ELSE 0]
        BY <1>7, <3>3 DEF Announce, Record
      <4> QED
        BY <3>1, <3>2, <3>3, <4>1 DEF TypeOK
    <3>4. CASE change \notin Traced
      BY <1>7, <3>4 DEF TypeOK, Announce, Record
    <3> QED
      BY <3>3, <3>4
  <2>2. plan' \in [status : [Ids -> Statuses], deps : [Ids -> Seq(Ids)],
                  attempts : [Ids -> Nat]]
    BY <1>7, SnapshotType DEF Announce
  <2>3. /\ UNCHANGED <<status, deps, attempts, unrecorded, over>>
        /\ left' \in SUBSET Ids
        /\ change' \in Kinds \cup {"none"}
    BY <1>7 DEF TypeOK, Announce
  <2> QED
    BY <2>1, <2>2, <2>3 DEF TypeOK
<1>8. CASE AnnounceFails
  BY <1>8 DEF TypeOK, AnnounceFails
<1>9. CASE Cancel
  BY <1>9 DEF TypeOK, Cancel
<1>10. CASE UNCHANGED vars
  BY <1>10 DEF TypeOK, vars
<1> QED
  BY <1>1, <1>2, <1>3, <1>4, <1>5, <1>6, <1>7, <1>8, <1>9, <1>10 DEF Next, ToolCall

-----------------------------------------------------------------------------
(* The order of work *)

(* Only update_deps and start_task could put work before what it needs. *)
LEMMA OrderStep == TypeOK /\ StartedInOrder /\ [Next]_vars => StartedInOrder'
<1> SUFFICES ASSUME TypeOK, StartedInOrder, [Next]_vars PROVE StartedInOrder'
  OBVIOUS
<1>1. ASSUME NEW batch \in SUBSET Ids, NEW ds \in [batch -> DepLists], Add(batch, ds)
      PROVE  StartedInOrder'
  <2>1. \A t \in Ids : status'[t] \in {"in_progress", "completed"}
                          => status'[t] = status[t] /\ deps'[t] = deps[t]
    BY <1>1 DEF TypeOK, Add
  <2>2. \A t \in Ids : status[t] = "completed" => status'[t] = "completed"
    BY <1>1 DEF TypeOK, Add, Tasks
  <2>3. \A t \in Ids : ToSet(deps[t]) \subseteq Ids
    BY DEF TypeOK, ToSet
  <2> QED
    BY <2>1, <2>2, <2>3 DEF StartedInOrder, DepsCompleted
<1>2. ASSUME NEW t \in Ids, NEW ds \in DepLists, Update(t, ds) PROVE StartedInOrder'
  <2>1. status' = status /\ status[t] = "pending"
    BY <1>2 DEF Update, MayUpdate
  <2>2. \A u \in Ids : u # t => deps'[u] = deps[u]
    BY <1>2 DEF TypeOK, Update
  <2> QED
    BY <2>1, <2>2 DEF StartedInOrder, DepsCompleted
<1>3. ASSUME NEW t \in Ids, Start(t) PROVE StartedInOrder'
  <2>1. /\ deps' = deps /\ DepsCompleted(t)
        /\ \A u \in Ids : status'[u] = IF u = t THEN "in_progress" ELSE status[u]
        /\ \A u \in Ids : status[u] # "in_progress"
        /\ status[t] = "pending"
    BY <1>3 DEF TypeOK, Start, Startable, Busy
  <2>2. \A u \in Ids : ToSet(deps[u]) \subseteq Ids
    BY DEF TypeOK, ToSet
  <2> QED
    BY <2>1, <2>2 DEF StartedInOrder, DepsCompleted
<1>4. ASSUME NEW t \in Ids, Complete(t) PROVE StartedInOrder'
  <2>1. /\ deps' = deps /\ status[t] = "in_progress"
        /\ \A u \in Ids : status'[u] = IF u = t THEN "completed" ELSE status[u]
    BY <1>4 DEF TypeOK, Complete
  <2>2. \A u \in Ids : ToSet(deps[u]) \subseteq Ids
    BY DEF TypeOK, ToSet
  <2> QED
    BY <2>1, <2>2 DEF StartedInOrder, DepsCompleted
<1>5. ASSUME NEW t \in Ids, Reopen(t) \/ Suspend(t) PROVE StartedInOrder'
  <2>1. /\ deps' = deps /\ status[t] = "in_progress"
        /\ \A u \in Ids : status'[u] = IF u = t THEN "pending" ELSE status[u]
    BY <1>5 DEF TypeOK, Reopen, Suspend
  <2>2. \A u \in Ids : ToSet(deps[u]) \subseteq Ids
    BY DEF TypeOK, ToSet
  <2> QED
    BY <2>1, <2>2 DEF StartedInOrder, DepsCompleted
<1>6. CASE UNCHANGED <<status, deps>>
  BY <1>6 DEF StartedInOrder, DepsCompleted
<1> QED
  BY <1>1, <1>2, <1>3, <1>4, <1>5, <1>6
     DEF Next, ToolCall, Announce, AnnounceFails, Cancel, vars

(* A completed task is never touched again, by whatever call. *)
LEMMA FrozenStep ==
  ASSUME TypeOK, [Next]_vars, NEW t \in Ids, status[t] = "completed"
  PROVE  status'[t] = "completed" /\ deps'[t] = deps[t] /\ attempts'[t] = attempts[t]
<1>1. ASSUME NEW batch \in SUBSET Ids, NEW ds \in [batch -> DepLists], Add(batch, ds)
      PROVE  status'[t] = "completed" /\ deps'[t] = deps[t] /\ attempts'[t] = attempts[t]
  <2>1. t \notin batch
    BY <1>1 DEF Add, Tasks
  <2> QED
    BY <1>1, <2>1 DEF TypeOK, Add
<1>2. ASSUME NEW u \in Ids, NEW ds \in DepLists, Update(u, ds)
      PROVE  status'[t] = "completed" /\ deps'[t] = deps[t] /\ attempts'[t] = attempts[t]
  BY <1>2 DEF TypeOK, Update, MayUpdate
<1>3. ASSUME NEW u \in Ids, Start(u) \/ Complete(u) \/ Reopen(u) \/ Suspend(u)
      PROVE  status'[t] = "completed" /\ deps'[t] = deps[t] /\ attempts'[t] = attempts[t]
  BY <1>3 DEF TypeOK, Start, Startable, Complete, Reopen, Suspend
<1> QED
  BY <1>1, <1>2, <1>3 DEF Next, ToolCall, Announce, AnnounceFails, Cancel, vars

-----------------------------------------------------------------------------
(* The trace and the audience *)

(* Before the first call there is nothing to tell. *)
LEMMA TraceInit == Init => ChangeIsSo /\ TraceTellsPlan /\ PlanUpToDate
  BY DEF Init, ChangeIsSo, TraceTellsPlan, PlanUpToDate, Snapshot

(* Every step keeps the trace and what is being announced in agreement. *)
LEMMA TraceStep ==
  ASSUME TypeOK, ChangeIsSo, TraceTellsPlan, [Next]_vars
  PROVE  ChangeIsSo' /\ TraceTellsPlan'
<1>1. ASSUME NEW batch \in SUBSET Ids, NEW ds \in [batch -> DepLists], Add(batch, ds)
      PROVE  ChangeIsSo' /\ TraceTellsPlan'
  <2>1. /\ left = {} /\ left' = batch /\ batch # {} /\ change' = "added"
        /\ UNCHANGED <<recorded, reopened, unrecorded, attempts>>
        /\ \A t \in Ids : status'[t] = IF t \in batch THEN "pending" ELSE status[t]
    BY <1>1 DEF Add, Idle, Begin, ChangeIsSo
  <2> QED
    BY <2>1 DEF TypeOK, ChangeIsSo, TraceTellsPlan, Tells
<1>2. ASSUME NEW t \in Ids, NEW ds \in DepLists, Update(t, ds)
      PROVE  ChangeIsSo' /\ TraceTellsPlan'
  <2>1. /\ left = {} /\ left' = {t} /\ change' = "updated"
        /\ UNCHANGED <<recorded, reopened, unrecorded, attempts, status>>
    BY <1>2 DEF Update, Idle, Begin, ChangeIsSo
  <2> QED
    BY <2>1 DEF TypeOK, ChangeIsSo, TraceTellsPlan
<1>3. ASSUME NEW t \in Ids, Start(t) \/ Complete(t) \/ Suspend(t)
      PROVE  ChangeIsSo' /\ TraceTellsPlan'
  <2>1. /\ left = {} /\ left' = {t}
        /\ change' \in {"started", "completed", "suspended"}
        /\ UNCHANGED <<recorded, reopened, unrecorded, attempts>>
        /\ \A u \in Ids : status'[u] = IF u = t THEN Tells(change') ELSE status[u]
    BY <1>3 DEF TypeOK, Start, Complete, Suspend, Idle, Begin, ChangeIsSo, Tells
  <2> QED
    BY <2>1 DEF TypeOK, ChangeIsSo, TraceTellsPlan
<1>4. ASSUME NEW t \in Ids, Reopen(t) PROVE ChangeIsSo' /\ TraceTellsPlan'
  <2>1. /\ left = {} /\ left' = {t} /\ change' = "reopened"
        /\ UNCHANGED <<recorded, reopened, unrecorded>>
        /\ \A u \in Ids : status'[u] = IF u = t THEN "pending" ELSE status[u]
        /\ \A u \in Ids : attempts'[u] = IF u = t THEN attempts[u] + 1 ELSE attempts[u]
    BY <1>4 DEF TypeOK, Reopen, Idle, Begin, ChangeIsSo
  <2> QED
    BY <2>1 DEF TypeOK, ChangeIsSo, TraceTellsPlan, Tells
<1>5. ASSUME NEW t \in Ids, Announce(t) PROVE ChangeIsSo' /\ TraceTellsPlan'
  <2>1. /\ t \in left /\ left' = left \ {t}
        /\ change' = IF left' = {} THEN "none" ELSE change
        /\ UNCHANGED <<status, attempts, unrecorded>>
    BY <1>5 DEF Announce
  <2>2. \A u \in Ids : u # t => recorded'[u] = recorded[u] /\ reopened'[u] = reopened[u]
    BY <1>5 DEF TypeOK, Announce, Record
  <2>3. t \notin unrecorded => recorded'[t] = status[t] /\ reopened'[t] = attempts[t]
    <3>1. CASE change \in Traced
      BY <1>5, <3>1 DEF TypeOK, Announce, Record, ChangeIsSo
    <3>2. CASE change = "updated"
      BY <1>5, <3>2 DEF TypeOK, Announce, Record, ChangeIsSo
    <3> QED
      BY <2>1, <3>1, <3>2 DEF TypeOK, ChangeIsSo
  <2>4. ChangeIsSo'
    BY <2>1, <2>2 DEF TypeOK, ChangeIsSo
  <2>5. TraceTellsPlan'
    BY <2>1, <2>2, <2>3 DEF TypeOK, TraceTellsPlan
  <2> QED
    BY <2>4, <2>5
<1>6. ASSUME AnnounceFails \/ Cancel PROVE ChangeIsSo' /\ TraceTellsPlan'
  <2>1. /\ left' = {} /\ change' = "none" /\ unrecorded' = unrecorded \cup left
        /\ UNCHANGED <<status, attempts, recorded, reopened>>
    BY <1>6 DEF AnnounceFails, Cancel
  <2> QED
    BY <2>1 DEF ChangeIsSo, TraceTellsPlan
<1>7. CASE UNCHANGED vars
  BY <1>7 DEF vars, ChangeIsSo, TraceTellsPlan
<1> QED
  BY <1>1, <1>2, <1>3, <1>4, <1>5, <1>6, <1>7 DEF Next, ToolCall

(* The snapshot of the last announcement is the plan. *)
LEMMA PlanStep ==
  ASSUME ChangeIsSo, ChangeIsSo', PlanUpToDate, [Next]_vars
  PROVE  PlanUpToDate'
<1>1. ASSUME NEW batch \in SUBSET Ids, NEW ds \in [batch -> DepLists], Add(batch, ds)
      PROVE  PlanUpToDate'
  BY <1>1 DEF Add, Begin, PlanUpToDate
<1>2. ASSUME NEW t \in Ids, NEW ds \in DepLists, Update(t, ds) PROVE PlanUpToDate'
  BY <1>2 DEF Update, Begin, PlanUpToDate
<1>3. ASSUME NEW t \in Ids, Start(t) \/ Complete(t) \/ Reopen(t) \/ Suspend(t)
      PROVE  PlanUpToDate'
  BY <1>3 DEF Start, Complete, Reopen, Suspend, Begin, PlanUpToDate
<1>4. ASSUME NEW t \in Ids, Announce(t) PROVE PlanUpToDate'
  BY <1>4 DEF Announce, PlanUpToDate, Snapshot
<1>5. CASE AnnounceFails \/ Cancel
  BY <1>5 DEF AnnounceFails, Cancel, ChangeIsSo, PlanUpToDate, Snapshot
<1>6. CASE UNCHANGED vars
  BY <1>6 DEF vars, PlanUpToDate, Snapshot
<1> QED
  BY <1>1, <1>2, <1>3, <1>4, <1>5, <1>6 DEF Next, ToolCall

-----------------------------------------------------------------------------
(* Induction and recursion over a measure *)

(* Every set of numbers has a least one: induction without an operator as  *)
(* parameter, by the least counterexample.                                 *)
LEMMA Least ==
  ASSUME NEW T, T \subseteq Nat, T # {}
  PROVE  \E n \in T : \A m \in T : n <= m
<1> DEFINE Less == {ss \in Nat \X Nat : ss[1] < ss[2]}
<1>1. IsWellFoundedOn(Less, Nat)
  BY NatLessThanWellFounded DEF OpToRel
<1>2. PICK n \in T : \A m \in T : ~ (<<m, n>> \in Less)
  <2> HIDE DEF Less
  <2> QED BY <1>1, WFMin
<1>3. ASSUME NEW m \in T, m < n PROVE FALSE
  <2>1. <<m, n>> \in Less
    BY <1>3
  <2> QED BY <2>1, <1>2
<1> QED
  BY <1>3

(* f counts the steps from x until B is reached, at the x less than n. *)
Counts(f, n, X, next, m, B) ==
    LET below == {x \in X : m[x] < n}
    IN  /\ f \in [below -> Nat]
        /\ \A x \in below : f[x] = IF x \in B THEN 0 ELSE 1 + f[next[x]]

(* There is such an f for every n: one for n - 1 and one step more. *)
LEMMA CountsExist ==
  ASSUME NEW X, NEW next \in [X -> X], NEW m \in [X -> Nat], NEW B,
         \A x \in X \ B : m[next[x]] < m[x]
  PROVE  \A n \in Nat : \E f : Counts(f, n, X, next, m, B)
<1> DEFINE Bad == {n \in Nat : ~ \E f : Counts(f, n, X, next, m, B)}
<1> SUFFICES ASSUME Bad # {} PROVE FALSE
  OBVIOUS
<1>1. PICK n \in Bad : \A k \in Bad : n <= k
  <2>1. Bad \subseteq Nat
    OBVIOUS
  <2> HIDE DEF Bad
  <2> QED BY <2>1, Least
<1>2. n # 0
  <2>1. SUFFICES ASSUME n = 0 PROVE FALSE
    OBVIOUS
  <2>2. {x \in X : m[x] < 0} = {}
    OBVIOUS
  <2>3. Counts([x \in {} |-> 0], 0, X, next, m, B)
    BY <2>2 DEF Counts
  <2> QED BY <2>1, <2>3
<1>3. PICK f : Counts(f, n - 1, X, next, m, B)
  BY <1>1, <1>2
<1> DEFINE below == {x \in X : m[x] < n}
           g == [x \in below |-> IF x \in B THEN 0 ELSE 1 + f[next[x]]]
<1>4. \A x \in below \ B : /\ next[x] \in below
                           /\ m[next[x]] < n - 1
                           /\ f[next[x]] \in Nat
  BY <1>3 DEF Counts
<1>5. \A x \in below \ B : g[next[x]] = f[next[x]]
  BY <1>3, <1>4 DEF Counts
<1>6. g \in [below -> Nat]
  BY <1>4
<1>7. \A x \in below : g[x] = IF x \in B THEN 0 ELSE 1 + g[next[x]]
  BY <1>5
<1>8. Counts(g, n, X, next, m, B)
  <2> HIDE DEF g
  <2> QED BY <1>6, <1>7 DEF Counts
<1> QED
  BY <1>8

(* Two of them agree wherever both are defined. *)
LEMMA CountsAgree ==
  ASSUME NEW X, NEW next \in [X -> X], NEW m \in [X -> Nat], NEW B,
         \A x \in X \ B : m[next[x]] < m[x],
         NEW n \in Nat, NEW k \in Nat, n <= k,
         NEW f, Counts(f, n, X, next, m, B), NEW g, Counts(g, k, X, next, m, B)
  PROVE  \A x \in X : m[x] < n => f[x] = g[x]
<1> DEFINE Bad == {i \in Nat : \E x \in X : m[x] = i /\ i < n /\ f[x] # g[x]}
<1> SUFFICES ASSUME Bad # {} PROVE FALSE
  OBVIOUS
<1>1. PICK i \in Bad : \A j \in Bad : i <= j
  <2>1. Bad \subseteq Nat
    OBVIOUS
  <2> HIDE DEF Bad
  <2> QED BY <2>1, Least
<1>2. PICK x \in X : m[x] = i /\ i < n /\ f[x] # g[x]
  BY <1>1
<1>3. /\ f[x] = IF x \in B THEN 0 ELSE 1 + f[next[x]]
      /\ g[x] = IF x \in B THEN 0 ELSE 1 + g[next[x]]
  BY <1>2 DEF Counts
<1>4. x \notin B /\ f[next[x]] # g[next[x]]
  BY <1>2, <1>3
<1>5. next[x] \in X /\ m[next[x]] < i /\ m[next[x]] \in Nat
  BY <1>2, <1>4
<1>6. m[next[x]] \in Bad
  BY <1>2, <1>4, <1>5
<1> QED
  BY <1>1, <1>5, <1>6

(* A recursion that counts its steps down defines a function. *)
LEMMA CountingDefines ==
  ASSUME NEW X, NEW next \in [X -> X], NEW m \in [X -> Nat], NEW B,
         \A x \in X \ B : m[next[x]] < m[x]
  PROVE  \E f \in [X -> Nat] : \A x \in X : f[x] = IF x \in B THEN 0 ELSE 1 + f[next[x]]
<1> DEFINE C(n) == CHOOSE f : Counts(f, n, X, next, m, B)
           F == [x \in X |-> C(m[x] + 1)[x]]
<1>1. \A n \in Nat : Counts(C(n), n, X, next, m, B)
  BY CountsExist
<1> HIDE DEF C
<1>2. ASSUME NEW x \in X PROVE F[x] \in Nat
  <2>1. m[x] + 1 \in Nat /\ m[x] < m[x] + 1
    OBVIOUS
  <2>2. C(m[x] + 1) \in [{y \in X : m[y] < m[x] + 1} -> Nat]
    BY <1>1, <2>1 DEF Counts
  <2> QED BY <2>1, <2>2
<1>3. ASSUME NEW x \in X PROVE F[x] = IF x \in B THEN 0 ELSE 1 + F[next[x]]
  <2>1. m[x] + 1 \in Nat /\ m[x] < m[x] + 1
    OBVIOUS
  <2>2. C(m[x] + 1)[x] = IF x \in B THEN 0 ELSE 1 + C(m[x] + 1)[next[x]]
    BY <1>1, <2>1 DEF Counts
  <2>3. CASE x \in B
    BY <2>2, <2>3
  <2>4. CASE x \notin B
    <3>1. /\ next[x] \in X
          /\ m[next[x]] \in Nat /\ m[next[x]] < m[x]
          /\ m[next[x]] + 1 \in Nat /\ m[next[x]] + 1 <= m[x] + 1 /\ m[next[x]] < m[next[x]] + 1
      BY <2>4
    <3>2. C(m[next[x]] + 1)[next[x]] = C(m[x] + 1)[next[x]]
      BY <1>1, <2>1, <3>1, CountsAgree
    <3> QED BY <2>2, <2>4, <3>1, <3>2
  <2> QED BY <2>3, <2>4
<1> HIDE DEF F
<1>4. F \in [X -> Nat]
  BY <1>2 DEF F
<1> QED
  BY <1>3, <1>4
-----------------------------------------------------------------------------
(* Kahn's algorithm *)

(* A set as a sequence: every element once. *)
LEMMA SetAsSeq ==
  ASSUME NEW S, IsFiniteSet(S)
  PROVE  /\ SetToSeq(S) \in Seq(S)
         /\ Len(SetToSeq(S)) = Cardinality(S)
         /\ IsInjective(SetToSeq(S))
         /\ ToSet(SetToSeq(S)) = S
<1> DEFINE n == Cardinality(S)
           q == SetToSeq(S)
<1>1. n \in Nat /\ ExistsBijection(1 .. n, S)
  BY FS_CardinalityType
<1>2. \E f \in [1 .. n -> S] : IsInjective(f)
  BY <1>1 DEF ExistsBijection, Bijection, Injection
<1>3. q \in [1 .. n -> S] /\ IsInjective(q)
  BY <1>2 DEF SetToSeq
<1> HIDE DEF q
<1>4. q \in Injection(1 .. n, S)
  BY <1>3 DEF Injection
<1>5. IsFiniteSet(1 .. n) /\ Cardinality(1 .. n) = n
  BY <1>1, FS_Interval
<1>6. q \in Surjection(1 .. n, S)
  BY <1>4, <1>5, FS_Injection
<1>7. \A x \in S : \E i \in 1 .. n : q[i] = x
  BY <1>6 DEF Surjection
<1>8. q \in Seq(S) /\ Len(q) = n /\ DOMAIN q = 1 .. n
  BY <1>1, <1>3
<1>9. ToSet(q) = S
  BY <1>3, <1>7, <1>8 DEF ToSet
<1> QED
  BY <1>3, <1>8, <1>9 DEF q

(* The edges of a list of dependencies that do not come from D. *)
Edges(list, D) == {i \in DOMAIN list : list[i] \notin D}

(* There are finitely many, and none if all dependencies are in D. *)
LEMMA EdgesFinite ==
  ASSUME NEW V, NEW list \in Seq(V), NEW D
  PROVE  /\ IsFiniteSet(Edges(list, D))
         /\ Cardinality(Edges(list, D)) \in Nat
         /\ Cardinality(Edges(list, D)) = 0 <=> \A d \in ToSet(list) : d \in D
<1>1. DOMAIN list = 1 .. Len(list) /\ Len(list) \in Nat
  OBVIOUS
<1>2. IsFiniteSet(1 .. Len(list))
  BY <1>1, FS_Interval
<1>3. Edges(list, D) \in SUBSET (1 .. Len(list))
  BY <1>1 DEF Edges
<1>4. IsFiniteSet(Edges(list, D)) /\ Cardinality(Edges(list, D)) \in Nat
  BY <1>2, <1>3, FS_Subset, FS_CardinalityType
<1>5. Cardinality(Edges(list, D)) = 0 <=> Edges(list, D) = {}
  BY <1>4, FS_EmptySet
<1>6. Edges(list, D) = {} <=> \A d \in ToSet(list) : d \in D
  BY DEF Edges, ToSet
<1> QED
  BY <1>4, <1>5, <1>6

(* The edges from a task that joins D are its occurrences in the list. *)
LEMMA OccurrencesOf ==
  ASSUME NEW V, NEW list \in Seq(V), NEW h
  PROVE  /\ Occurrences(list, h) \in Nat
         /\ \A D : h \notin D =>
              Cardinality(Edges(list, D)) = Cardinality(Edges(list, D \cup {h})) + Occurrences(list, h)
<1> DEFINE Of == {i \in DOMAIN list : list[i] = h}
<1>1. DOMAIN list = 1 .. Len(list) /\ Len(list) \in Nat
  OBVIOUS
<1>2. IsFiniteSet(Of) /\ Cardinality(Of) \in Nat
  <2>1. Of \in SUBSET (1 .. Len(list)) /\ IsFiniteSet(1 .. Len(list))
    BY <1>1, FS_Interval
  <2> HIDE DEF Of
  <2> QED
    BY <2>1, FS_Subset, FS_CardinalityType
<1>3. Occurrences(list, h) = Cardinality(Of)
  BY DEF Occurrences
<1>4. ASSUME NEW D, h \notin D
      PROVE  Cardinality(Edges(list, D)) = Cardinality(Edges(list, D \cup {h})) + Cardinality(Of)
  <2>1. /\ Edges(list, D) = Edges(list, D \cup {h}) \cup Of
        /\ Edges(list, D \cup {h}) \cap Of = {}
    BY <1>4 DEF Edges
  <2>2. /\ IsFiniteSet(Edges(list, D \cup {h}))
        /\ Cardinality(Edges(list, D \cup {h})) \in Nat
    BY EdgesFinite
  <2> DEFINE R == Edges(list, D \cup {h})
  <2> HIDE DEF Of, R
  <2>3. Cardinality(R \cup Of) = Cardinality(R) + Cardinality(Of) - Cardinality(R \cap Of)
    BY <1>2, <2>2, FS_Union DEF R
  <2>4. Cardinality(R \cap Of) = 0
    BY <2>1, FS_EmptySet DEF R
  <2> QED
    BY <1>2, <2>1, <2>2, <2>3, <2>4 DEF R
<1> QED
  BY <1>2, <1>3, <1>4

(* Between two visits: D are the tasks visited so far.  In the queue are   *)
(* those whose last edge is gone.                                          *)
Kahn(tasks, ds, s, D) ==
    /\ s \in KahnStates(tasks)
    /\ IsInjective(s[1])
    /\ D \subseteq tasks /\ ToSet(s[1]) \cap D = {}
    /\ \A t \in tasks : s[2][t] = Cardinality(Edges(ds[t], D))
    /\ \A t \in tasks : s[2][t] = 0 <=> t \in D \cup ToSet(s[1])

(* Dependencies are listed. *)
Lists(tasks, ds) == \A t \in tasks : \E V : ds[t] \in Seq(V)

(* What a visit frees. *)
Freed(tasks, ds, s) ==
    {t \in tasks : Occurrences(ds[t], Head(s[1])) > 0 /\ s[2][t] = Occurrences(ds[t], Head(s[1]))}

(* A visit, part by part. *)
LEMMA VisitIs ==
  ASSUME NEW tasks, IsFiniteSet(tasks), NEW ds, Lists(tasks, ds),
         NEW s \in KahnStates(tasks), s[1] # <<>>
  PROVE  /\ Visit(tasks, ds, s) \in KahnStates(tasks)
         /\ Visit(tasks, ds, s)[1] = Tail(s[1]) \o SetToSeq(Freed(tasks, ds, s))
         /\ \A t \in tasks : Visit(tasks, ds, s)[2][t] = s[2][t] - Occurrences(ds[t], Head(s[1]))
         /\ IsFiniteSet(Freed(tasks, ds, s))
<1> DEFINE now == [t \in tasks |-> s[2][t] - Occurrences(ds[t], Head(s[1]))]
           freed == {t \in tasks : Occurrences(ds[t], Head(s[1])) > 0 /\ now[t] = 0}
<1>1. s[1] \in Seq(tasks) /\ s[2] \in [tasks -> Int]
  BY DEF KahnStates
<1>2. \A t \in tasks : Occurrences(ds[t], Head(s[1])) \in Nat
  BY OccurrencesOf DEF Lists
<1>3. now \in [tasks -> Int]
  BY <1>1, <1>2
<1>4. freed = Freed(tasks, ds, s)
  BY <1>1, <1>2 DEF Freed
<1>5. IsFiniteSet(freed) /\ SetToSeq(freed) \in Seq(tasks)
  <2>1. freed \in SUBSET tasks
    OBVIOUS
  <2> HIDE DEF freed
  <2>2. IsFiniteSet(freed)
    BY <2>1, FS_Subset
  <2>3. SetToSeq(freed) \in Seq(freed)
    BY <2>2, SetAsSeq
  <2> QED
    BY <2>1, <2>2, <2>3
<1>6. Tail(s[1]) \o SetToSeq(freed) \in Seq(tasks)
  <2> HIDE DEF freed
  <2>1. Tail(s[1]) \in Seq(tasks)
    BY <1>1
  <2> QED
    BY <1>5, <2>1, ConcatProperties
<1>7. Visit(tasks, ds, s) = <<Tail(s[1]) \o SetToSeq(freed), now>>
  BY DEF Visit
<1> HIDE DEF freed
<1>8. \A t \in tasks : now[t] = s[2][t] - Occurrences(ds[t], Head(s[1]))
  OBVIOUS
<1> HIDE DEF now
<1>9. /\ Visit(tasks, ds, s)[1] = Tail(s[1]) \o SetToSeq(freed)
      /\ Visit(tasks, ds, s)[2] = now
  BY <1>7
<1>10. Visit(tasks, ds, s) \in KahnStates(tasks)
  <2> DEFINE queue == Tail(s[1]) \o SetToSeq(freed)
  <2>1. Visit(tasks, ds, s) = <<queue, now>> /\ queue \in Seq(tasks)
    BY <1>6, <1>7
  <2> HIDE DEF queue
  <2> QED
    BY <1>3, <2>1 DEF KahnStates
<1> QED
  BY <1>4, <1>5, <1>8, <1>9, <1>10

(* A visit takes one from the queue and adds tasks that never come again. *)
Measure(tasks, s) == Len(s[1]) + Cardinality({t \in tasks : s[2][t] > 0})

(* So visits come to an end. *)
LEMMA VisitsEnd ==
  ASSUME NEW tasks, IsFiniteSet(tasks), NEW ds, Lists(tasks, ds),
         NEW s \in KahnStates(tasks)
  PROVE  /\ Measure(tasks, s) \in Nat
         /\ s[1] # <<>> => Measure(tasks, Visit(tasks, ds, s)) < Measure(tasks, s)
<1> DEFINE open(z) == {t \in tasks : z[2][t] > 0}
<1>1. \A z : IsFiniteSet(open(z)) /\ Cardinality(open(z)) \in Nat
  <2> SUFFICES ASSUME NEW z PROVE IsFiniteSet(open(z)) /\ Cardinality(open(z)) \in Nat
    OBVIOUS
  <2>1. open(z) \in SUBSET tasks
    OBVIOUS
  <2> HIDE DEF open
  <2> QED
    BY <2>1, FS_Subset, FS_CardinalityType
<1>2. s[1] \in Seq(tasks) /\ s[2] \in [tasks -> Int]
  BY DEF KahnStates
<1>3. ASSUME s[1] # <<>> PROVE Measure(tasks, Visit(tasks, ds, s)) < Measure(tasks, s)
  <2> DEFINE next == Visit(tasks, ds, s)
             freed == Freed(tasks, ds, s)
  <2>1. /\ next \in KahnStates(tasks)
        /\ next[1] = Tail(s[1]) \o SetToSeq(freed)
        /\ \A t \in tasks : next[2][t] = s[2][t] - Occurrences(ds[t], Head(s[1]))
        /\ IsFiniteSet(freed)
    BY <1>3, VisitIs
  <2>2. \A t \in tasks : Occurrences(ds[t], Head(s[1])) \in Nat
    BY OccurrencesOf DEF Lists
  <2>3. freed \subseteq open(s) /\ open(next) \in SUBSET (open(s) \ freed)
    <3> HIDE DEF next
    <3> QED
      BY <1>2, <2>1, <2>2 DEF Freed
  <2>4. Len(next[1]) = Len(s[1]) - 1 + Cardinality(freed)
    <3> HIDE DEF next, freed
    <3>1. SetToSeq(freed) \in Seq(freed) /\ Len(SetToSeq(freed)) = Cardinality(freed)
      BY <2>1, SetAsSeq
    <3>2. Tail(s[1]) \in Seq(tasks) /\ Len(Tail(s[1])) = Len(s[1]) - 1
      BY <1>2, <1>3
    <3>3. Len(Tail(s[1]) \o SetToSeq(freed)) = Len(Tail(s[1])) + Len(SetToSeq(freed))
      BY <3>1, <3>2
    <3> QED
      BY <2>1, <3>1, <3>2, <3>3
  <2> HIDE DEF open, next, freed
  <2>5. /\ IsFiniteSet(open(s) \ freed)
        /\ Cardinality(open(s) \ freed) = Cardinality(open(s)) - Cardinality(open(s) \cap freed)
    BY <1>1, FS_Difference
  <2>6. open(s) \cap freed = freed
    BY <2>3
  <2>7. Cardinality(open(next)) <= Cardinality(open(s) \ freed)
    BY <2>3, <2>5, FS_Subset
  <2>8. Len(s[1]) \in Nat /\ Cardinality(freed) \in Nat
    BY <1>2, <2>1, FS_CardinalityType
  <2>11. Cardinality(open(s)) \in Nat /\ Cardinality(open(next)) \in Nat
    BY <1>1
  <2>12. Cardinality(open(s) \ freed) = Cardinality(open(s)) - Cardinality(freed)
    BY <2>5, <2>6
  <2>13. Cardinality(open(next)) <= Cardinality(open(s)) - Cardinality(freed)
    BY <2>7, <2>12
  <2>9. Len(next[1]) + Cardinality(open(next)) < Len(s[1]) + Cardinality(open(s))
    BY <2>4, <2>8, <2>11, <2>13
  <2>10. /\ Measure(tasks, next) = Len(next[1]) + Cardinality(open(next))
         /\ Measure(tasks, s) = Len(s[1]) + Cardinality(open(s))
    BY DEF Measure, open
  <2> QED
    BY <2>9, <2>10 DEF next
<1>4. Measure(tasks, s) \in Nat
  <2>1. Len(s[1]) \in Nat
    BY <1>2
  <2>3. Cardinality(open(s)) \in Nat
    BY <1>1
  <2> HIDE DEF open
  <2>2. Len(s[1]) + Cardinality(open(s)) \in Nat
    BY <2>1, <2>3
  <2> QED
    BY <2>2 DEF Measure, open
<1> QED
  BY <1>3, <1>4

(* A queue without repetitions: its head, and its tail. *)
LEMMA QueueParts ==
  ASSUME NEW S, NEW q \in Seq(S), q # <<>>, IsInjective(q)
  PROVE  /\ Head(q) \in ToSet(q) /\ Head(q) \in S
         /\ ToSet(Tail(q)) = ToSet(q) \ {Head(q)}
         /\ IsInjective(Tail(q))
<1>1. Len(q) \in Nat \ {0} /\ DOMAIN q = 1 .. Len(q) /\ Head(q) = q[1]
  OBVIOUS
<1>2. /\ Tail(q) \in Seq(S) /\ DOMAIN Tail(q) = 1 .. Len(q) - 1
      /\ \A i \in 1 .. Len(q) - 1 : Tail(q)[i] = q[i + 1]
  BY <1>1
<1>3. \A a, b \in 1 .. Len(q) : q[a] = q[b] => a = b
  BY <1>1 DEF IsInjective
<1>4. ToSet(Tail(q)) = {q[i] : i \in 2 .. Len(q)}
  <2>1. ASSUME NEW x \in ToSet(Tail(q)) PROVE x \in {q[i] : i \in 2 .. Len(q)}
    <3>1. PICK i \in 1 .. Len(q) - 1 : x = q[i + 1]
      BY <1>2, <2>1 DEF ToSet
    <3>2. i + 1 \in 2 .. Len(q)
      BY <1>1, <3>1
    <3> QED BY <3>1, <3>2
  <2>2. ASSUME NEW i \in 2 .. Len(q) PROVE q[i] \in ToSet(Tail(q))
    <3>1. i - 1 \in 1 .. Len(q) - 1 /\ Tail(q)[i - 1] = q[i - 1 + 1] /\ i - 1 + 1 = i
      BY <1>1, <1>2
    <3> QED BY <1>2, <3>1 DEF ToSet
  <2> QED BY <2>1, <2>2
<1>5. ToSet(Tail(q)) = ToSet(q) \ {Head(q)}
  BY <1>1, <1>3, <1>4 DEF ToSet
<1>6. IsInjective(Tail(q))
  BY <1>1, <1>2, <1>3 DEF IsInjective
<1>7. q[1] \in S /\ q[1] \in ToSet(q)
  BY <1>1 DEF ToSet
<1> QED
  BY <1>1, <1>5, <1>6, <1>7

(* Two such queues, one after the other. *)
LEMMA ConcatOf ==
  ASSUME NEW S, NEW p \in Seq(S), NEW q \in Seq(S), IsInjective(p), IsInjective(q),
         ToSet(p) \cap ToSet(q) = {}
  PROVE  /\ ToSet(p \o q) = ToSet(p) \cup ToSet(q)
         /\ IsInjective(p \o q)
<1>1. /\ Len(p) \in Nat /\ Len(q) \in Nat
      /\ DOMAIN p = 1 .. Len(p) /\ DOMAIN q = 1 .. Len(q)
      /\ DOMAIN (p \o q) = 1 .. Len(p) + Len(q)
      /\ \A i \in 1 .. Len(p) + Len(q) : (p \o q)[i] = IF i <= Len(p) THEN p[i] ELSE q[i - Len(p)]
  BY ConcatProperties
<1>2. \A i \in 1 .. Len(p) : (p \o q)[i] = p[i] /\ i \in 1 .. Len(p) + Len(q)
  BY <1>1
<1>3. \A i \in 1 .. Len(q) : (p \o q)[i + Len(p)] = q[i] /\ i + Len(p) \in 1 .. Len(p) + Len(q)
  BY <1>1
<1>4. \A i \in 1 .. Len(p) + Len(q) : i \in 1 .. Len(p) \/ (i - Len(p) \in 1 .. Len(q) /\ i > Len(p))
  BY <1>1
<1>5. ToSet(p \o q) = ToSet(p) \cup ToSet(q)
  <2>1. ASSUME NEW x \in ToSet(p \o q) PROVE x \in ToSet(p) \cup ToSet(q)
    <3>1. PICK i \in 1 .. Len(p) + Len(q) : x = (p \o q)[i]
      BY <1>1, <2>1 DEF ToSet
    <3>2. CASE i \in 1 .. Len(p)
      BY <1>1, <1>2, <3>1, <3>2 DEF ToSet
    <3>3. CASE i - Len(p) \in 1 .. Len(q) /\ i > Len(p)
      <4>1. x = q[i - Len(p)]
        BY <1>1, <3>1, <3>3
      <4> QED BY <1>1, <3>3, <4>1 DEF ToSet
    <3> QED BY <1>4, <3>2, <3>3
  <2>2. ToSet(p) \subseteq ToSet(p \o q)
    BY <1>1, <1>2 DEF ToSet
  <2>3. ToSet(q) \subseteq ToSet(p \o q)
    BY <1>1, <1>3 DEF ToSet
  <2> QED BY <2>1, <2>2, <2>3
<1>6. ASSUME NEW a \in 1 .. Len(p) + Len(q), NEW b \in 1 .. Len(p) + Len(q), (p \o q)[a] = (p \o q)[b]
      PROVE  a = b
  <2>1. \A i \in 1 .. Len(p), j \in 1 .. Len(q) : p[i] # q[j]
    BY <1>1 DEF ToSet
  <2>2. CASE a <= Len(p) /\ b <= Len(p)
    BY <1>1, <1>6, <2>2 DEF IsInjective
  <2>3. CASE a > Len(p) /\ b > Len(p)
    <3>1. q[a - Len(p)] = q[b - Len(p)] /\ a - Len(p) \in 1 .. Len(q) /\ b - Len(p) \in 1 .. Len(q)
      BY <1>1, <1>6, <2>3
    <3>2. a - Len(p) = b - Len(p)
      BY <1>1, <3>1 DEF IsInjective
    <3> QED BY <1>1, <3>2
  <2> QED BY <1>1, <1>4, <1>6, <2>1, <2>2, <2>3
<1>7. IsInjective(p \o q)
  BY <1>1, <1>6 DEF IsInjective
<1> QED
  BY <1>5, <1>7

(* A visit takes Kahn's algorithm one task on. *)
LEMMA VisitKeeps ==
  ASSUME NEW tasks, IsFiniteSet(tasks), NEW ds, Lists(tasks, ds),
         NEW s, NEW D, Kahn(tasks, ds, s, D), s[1] # <<>>
  PROVE  /\ Kahn(tasks, ds, Visit(tasks, ds, s), D \cup {Head(s[1])})
         /\ Head(s[1]) \in tasks \ D
         /\ ToSet(ds[Head(s[1])]) \subseteq D
<1> DEFINE h == Head(s[1])
           next == Visit(tasks, ds, s)
           freed == Freed(tasks, ds, s)
           E == D \cup {h}
<1>1. /\ s \in KahnStates(tasks) /\ s[1] \in Seq(tasks) /\ s[2] \in [tasks -> Int]
      /\ IsInjective(s[1]) /\ D \subseteq tasks /\ ToSet(s[1]) \cap D = {}
      /\ \A t \in tasks : s[2][t] = Cardinality(Edges(ds[t], D))
      /\ \A t \in tasks : s[2][t] = 0 <=> t \in D \cup ToSet(s[1])
  BY DEF Kahn, KahnStates
<1>2. /\ h \in ToSet(s[1]) /\ h \in tasks /\ h \notin D
      /\ ToSet(Tail(s[1])) = ToSet(s[1]) \ {h}
      /\ IsInjective(Tail(s[1])) /\ Tail(s[1]) \in Seq(tasks)
  BY <1>1, QueueParts
<1>3. /\ next \in KahnStates(tasks)
      /\ next[1] = Tail(s[1]) \o SetToSeq(freed)
      /\ \A t \in tasks : next[2][t] = s[2][t] - Occurrences(ds[t], h)
      /\ IsFiniteSet(freed)
  BY <1>1, VisitIs
<1>4. ASSUME NEW t \in tasks
      PROVE  /\ Occurrences(ds[t], h) \in Nat
             /\ Cardinality(Edges(ds[t], D)) = Cardinality(Edges(ds[t], E)) + Occurrences(ds[t], h)
             /\ Cardinality(Edges(ds[t], E)) \in Nat
             /\ Cardinality(Edges(ds[t], D)) = 0 <=> \A d \in ToSet(ds[t]) : d \in D
  <2>1. PICK V : ds[t] \in Seq(V)
    BY DEF Lists
  <2> QED
    BY <1>2, <2>1, OccurrencesOf, EdgesFinite
<1>5. ToSet(ds[h]) \subseteq D
  BY <1>1, <1>2, <1>4
<1>15. \A t \in tasks : t \in freed <=> Occurrences(ds[t], h) > 0 /\ s[2][t] = Occurrences(ds[t], h)
  BY DEF Freed
<1>16. freed \subseteq tasks
  BY DEF Freed
<1>17. E \subseteq tasks /\ E = D \cup {h}
  BY <1>1, <1>2
<1> HIDE DEF next, freed, h, E
<1>18. ASSUME NEW t \in tasks
       PROVE  /\ next[2][t] = Cardinality(Edges(ds[t], E))
              /\ s[2][t] = next[2][t] + Occurrences(ds[t], h)
              /\ next[2][t] \in Nat /\ Occurrences(ds[t], h) \in Nat
  <2>1. s[2][t] = Cardinality(Edges(ds[t], D)) /\ next[2][t] = s[2][t] - Occurrences(ds[t], h)
    BY <1>1, <1>3
  <2> QED
    BY <1>4, <2>1
<1>6. \A t \in tasks : t \in freed <=> s[2][t] # 0 /\ next[2][t] = 0
  BY <1>15, <1>18
<1>7. \A t \in tasks : next[2][t] = Cardinality(Edges(ds[t], E))
  BY <1>18
<1>8. freed \subseteq tasks /\ freed \cap (D \cup ToSet(s[1])) = {}
  BY <1>1, <1>6, <1>16
<1>9. /\ SetToSeq(freed) \in Seq(tasks) /\ IsInjective(SetToSeq(freed))
      /\ ToSet(SetToSeq(freed)) = freed
  <2>1. SetToSeq(freed) \in Seq(freed) /\ IsInjective(SetToSeq(freed))
        /\ ToSet(SetToSeq(freed)) = freed
    BY <1>3, SetAsSeq
  <2> QED BY <1>8, <2>1
<1>10. ToSet(Tail(s[1])) \cap freed = {}
  BY <1>2, <1>8
<1>11. ToSet(next[1]) = (ToSet(s[1]) \ {h}) \cup freed /\ IsInjective(next[1])
  <2> DEFINE p == Tail(s[1])
             q == SetToSeq(freed)
  <2>1. p \in Seq(tasks) /\ q \in Seq(tasks) /\ IsInjective(p) /\ IsInjective(q)
        /\ ToSet(p) \cap ToSet(q) = {}
    BY <1>2, <1>9, <1>10
  <2> HIDE DEF p, q
  <2>2. ToSet(p \o q) = ToSet(p) \cup ToSet(q) /\ IsInjective(p \o q)
    BY <2>1, ConcatOf
  <2> QED
    BY <1>2, <1>3, <1>9, <2>2 DEF p, q
<1>12. \A t \in tasks : next[2][t] = 0 <=> t \in E \cup ToSet(next[1])
  <2> SUFFICES ASSUME NEW t \in tasks PROVE next[2][t] = 0 <=> t \in E \cup ToSet(next[1])
    OBVIOUS
  <2>1. s[2][t] = 0 => next[2][t] = 0
    BY <1>18
  <2>2. t \in E \cup ToSet(next[1]) <=> (t \in D \cup ToSet(s[1]) \/ t \in freed)
    BY <1>2, <1>11, <1>17
  <2> QED
    BY <1>1, <1>6, <2>1, <2>2
<1>13. ToSet(next[1]) \cap E = {}
  BY <1>1, <1>2, <1>8, <1>11, <1>17
<1>14. Kahn(tasks, ds, next, E)
  BY <1>3, <1>7, <1>11, <1>12, <1>13, <1>17 DEF Kahn
<1> QED
  BY <1>2, <1>5, <1>14, <1>17 DEF next, h

(* A set of tasks that wait for each other. *)
Stuck(ds, W) == \A t \in W : ToSet(ds[t]) \cap W # {}

(* What is visited in the end: the tasks whose dependencies are visited.   *)
(* They include none that was not visited before and waits in a circle.    *)
Final(tasks, ds, D, end) ==
    /\ D \subseteq end /\ end \subseteq tasks
    /\ \A t \in tasks : (\A d \in ToSet(ds[t]) : d \in end) => t \in end
    /\ \A W \in SUBSET tasks : Stuck(ds, W) /\ W \cap D = {} => W \cap end = {}

(* With an empty queue every task without an edge has been visited. *)
LEMMA QueueEmpty ==
  ASSUME NEW tasks, NEW ds, Lists(tasks, ds), NEW s, NEW D, Kahn(tasks, ds, s, D), s[1] = <<>>
  PROVE  Final(tasks, ds, D, D)
<1>1. ToSet(s[1]) = {}
  BY DEF ToSet
<1>2. ASSUME NEW t \in tasks, \A d \in ToSet(ds[t]) : d \in D PROVE t \in D
  <2>1. Cardinality(Edges(ds[t], D)) = 0
    BY <1>2, EdgesFinite DEF Lists
  <2> QED
    BY <1>1, <2>1 DEF Kahn
<1> QED
  BY <1>2 DEF Final, Kahn

(* Where f counts the visits from s on, it counts the tasks that are       *)
(* visited in the end and were not before: induction over those left.      *)
LEMMA VisitsReach ==
  ASSUME NEW tasks, IsFiniteSet(tasks), NEW ds, Lists(tasks, ds), NEW f,
         \A s \in KahnStates(tasks) : f[s] = IF s[1] = <<>> THEN 0 ELSE 1 + f[Visit(tasks, ds, s)]
  PROVE  \A s, D : Kahn(tasks, ds, s, D) =>
            \E end : Final(tasks, ds, D, end) /\ f[s] = Cardinality(end) - Cardinality(D)
<1> DEFINE Goal(s, D) == \E end : Final(tasks, ds, D, end) /\ f[s] = Cardinality(end) - Cardinality(D)
           Bad == {n \in Nat : \E s, D : Kahn(tasks, ds, s, D) /\ Cardinality(tasks \ D) = n /\ ~ Goal(s, D)}
<1> HIDE DEF Goal
<1>1. ASSUME NEW D, D \subseteq tasks
      PROVE  IsFiniteSet(D) /\ Cardinality(D) \in Nat /\ Cardinality(tasks \ D) \in Nat
  <2>1. IsFiniteSet(D)
    BY <1>1, FS_Subset
  <2>2. IsFiniteSet(tasks \ D)
    BY FS_Difference
  <2> QED
    BY <2>1, <2>2, FS_CardinalityType
<1>2. Bad = {}
  <2> SUFFICES ASSUME Bad # {} PROVE FALSE
    OBVIOUS
  <2>1. PICK n \in Bad : \A k \in Bad : n <= k
    <3>1. Bad \subseteq Nat
      OBVIOUS
    <3> HIDE DEF Bad
    <3> QED BY <3>1, Least
  <2>2. PICK s, D : Kahn(tasks, ds, s, D) /\ Cardinality(tasks \ D) = n /\ ~ Goal(s, D)
    BY <2>1
  <2>3. s \in KahnStates(tasks) /\ D \subseteq tasks
    BY <2>2 DEF Kahn
  <2>4. s[1] # <<>>
    <3> SUFFICES ASSUME s[1] = <<>> PROVE FALSE
      OBVIOUS
    <3>1. Final(tasks, ds, D, D)
      BY <2>2, QueueEmpty
    <3>2. f[s] = Cardinality(D) - Cardinality(D)
      <4>1. f[s] = 0
        BY <2>3
      <4>2. Cardinality(D) \in Nat
        BY <1>1, <2>3
      <4> QED
        BY <4>1, <4>2
    <3> QED
      BY <2>2, <3>1, <3>2 DEF Goal
  <2> DEFINE h == Head(s[1])
             next == Visit(tasks, ds, s)
             E == D \cup {h}
  <2>5. /\ Kahn(tasks, ds, next, E)
        /\ h \in tasks \ D /\ ToSet(ds[h]) \subseteq D
    BY <2>2, <2>4, VisitKeeps
  <2>6. f[s] = 1 + f[next]
    BY <2>3, <2>4
  <2> HIDE DEF h, next, E
  <2>7. E = D \cup {h} /\ E \subseteq tasks
    BY <2>3, <2>5 DEF E
  <2>8. Cardinality(E) = Cardinality(D) + 1
    BY <1>1, <2>3, <2>5, <2>7, FS_AddElement
  <2>9. Cardinality(tasks \ E) \in Nat /\ Cardinality(tasks \ E) < n
    <3>1. tasks \ E = (tasks \ D) \ {h} /\ IsFiniteSet(tasks \ D)
      BY <2>7, FS_Difference
    <3>2. Cardinality(tasks \ E) = Cardinality(tasks \ D) - 1
      BY <2>5, <3>1, FS_RemoveElement
    <3> QED
      <4>1. Cardinality(tasks \ E) \in Nat /\ n \in Nat
        BY <1>1, <2>7
      <4> QED
        BY <2>2, <3>2, <4>1
  <2>10. Goal(next, E)
    <3>1. Cardinality(tasks \ E) \notin Bad
      <4>1. n \in Nat
        OBVIOUS
      <4> HIDE DEF Bad
      <4> QED
        BY <2>1, <2>9, <4>1
    <3> QED
      BY <2>5, <2>9, <3>1
  <2>11. PICK end : Final(tasks, ds, E, end) /\ f[next] = Cardinality(end) - Cardinality(E)
    BY <2>10 DEF Goal
  <2>12. Cardinality(end) \in Nat
    BY <1>1, <2>11 DEF Final
  <2>13. f[s] = Cardinality(end) - Cardinality(D)
    <3>1. Cardinality(D) \in Nat
      BY <1>1, <2>3
    <3> QED
      BY <2>6, <2>8, <2>11, <2>12, <3>1
  <2>14. Final(tasks, ds, D, end)
    <3>1. ASSUME NEW W \in SUBSET tasks, Stuck(ds, W), W \cap D = {} PROVE W \cap E = {}
      BY <2>5, <2>7, <3>1 DEF Stuck
    <3> QED
      BY <2>7, <2>11, <3>1 DEF Final
  <2> QED
    BY <2>2, <2>13, <2>14 DEF Goal
<1>3. ASSUME NEW s, NEW D, Kahn(tasks, ds, s, D) PROVE Goal(s, D)
  <2>1. Cardinality(tasks \ D) \in Nat
    BY <1>1, <1>3 DEF Kahn
  <2>2. Cardinality(tasks \ D) \notin Bad
    BY <1>2
  <2> QED
    BY <1>3, <2>1, <2>2
<1> QED
  BY <1>3 DEF Goal

(* The cycle check is exact: all tasks are visited if and only if no set   *)
(* of tasks waits for itself, however often a dependency is repeated.      *)
THEOREM KahnIsExact ==
  ASSUME NEW tasks, IsFiniteSet(tasks), NEW ds, Lists(tasks, ds), DepsExist(tasks, ds)
  PROVE  Visited(tasks, ds) = Cardinality(tasks) <=> WellFounded(tasks, ds)
<1> DEFINE X == KahnStates(tasks)
           next == [s \in X |-> IF s[1] = <<>> THEN s ELSE Visit(tasks, ds, s)]
           measure == [s \in X |-> Measure(tasks, s)]
           last == {s \in X : s[1] = <<>>}
           Counting(f) == f = [s \in X |-> IF s[1] = <<>> THEN 0 ELSE 1 + f[Visit(tasks, ds, s)]]
           visits == CHOOSE f : Counting(f)
           indegree == Indegree(tasks, ds)
           sources == {t \in tasks : indegree[t] = 0}
           start == <<SetToSeq(sources), indegree>>
<1>1. Visited(tasks, ds) = visits[start]
  BY DEF Visited
<1>2. \E f : Counting(f)
  <2>1. next \in [X -> X] /\ measure \in [X -> Nat]
    BY VisitIs, VisitsEnd
  <2>2. \A s \in X \ last : measure[next[s]] < measure[s]
    <3> SUFFICES ASSUME NEW s \in X, s[1] # <<>> PROVE measure[next[s]] < measure[s]
      OBVIOUS
    <3>1. next[s] = Visit(tasks, ds, s) /\ next[s] \in X
      BY VisitIs
    <3> QED
      BY <3>1, VisitsEnd
  <2>3. \A s \in X : s \in last <=> s[1] = <<>>
    OBVIOUS
  <2>4. \A s \in X : s[1] # <<>> => next[s] = Visit(tasks, ds, s)
    OBVIOUS
  <2> HIDE DEF X, next, measure, last
  <2>5. PICK f \in [X -> Nat] : \A s \in X : f[s] = IF s \in last THEN 0 ELSE 1 + f[next[s]]
    BY <2>1, <2>2, CountingDefines
  <2>6. \A s \in X : f[s] = IF s[1] = <<>> THEN 0 ELSE 1 + f[Visit(tasks, ds, s)]
    BY <2>3, <2>4, <2>5
  <2> QED
    BY <2>5, <2>6
<1>3. Counting(visits)
  <2> HIDE DEF Counting
  <2> QED BY <1>2
<1> HIDE DEF visits
<1>4. \A s \in KahnStates(tasks) : visits[s] = IF s[1] = <<>> THEN 0 ELSE 1 + visits[Visit(tasks, ds, s)]
  BY <1>3
<1>5. Kahn(tasks, ds, start, {})
  <2>1. ASSUME NEW t \in tasks
        PROVE  indegree[t] \in Nat /\ indegree[t] = Cardinality(Edges(ds[t], {}))
    <3>1. PICK V : ds[t] \in Seq(V)
      BY DEF Lists
    <3>2. Len(ds[t]) \in Nat /\ Edges(ds[t], {}) = 1 .. Len(ds[t])
      BY <3>1 DEF Edges
    <3>3. Cardinality(1 .. Len(ds[t])) = Len(ds[t])
      BY <3>2, FS_Interval
    <3> QED
      BY <3>2, <3>3 DEF Indegree
  <2>2. indegree \in [tasks -> Int]
    BY <2>1 DEF Indegree
  <2>3. sources \in SUBSET tasks
    OBVIOUS
  <2>4. \A t \in tasks : indegree[t] = 0 <=> t \in sources
    OBVIOUS
  <2> HIDE DEF sources, indegree
  <2>5. IsFiniteSet(sources)
    BY <2>3, FS_Subset
  <2>6. SetToSeq(sources) \in Seq(sources) /\ IsInjective(SetToSeq(sources))
        /\ ToSet(SetToSeq(sources)) = sources
    BY <2>5, SetAsSeq
  <2>7. SetToSeq(sources) \in Seq(tasks)
    BY <2>3, <2>6
  <2>8. start[1] = SetToSeq(sources) /\ start[2] = indegree
    OBVIOUS
  <2>9. start \in KahnStates(tasks)
    BY <2>2, <2>7 DEF KahnStates
  <2> HIDE DEF start
  <2> QED
    BY <2>1, <2>4, <2>6, <2>8, <2>9 DEF Kahn
<1> HIDE DEF start
<1>6. PICK end : Final(tasks, ds, {}, end) /\ visits[start] = Cardinality(end) - Cardinality({})
  BY <1>4, <1>5, VisitsReach
<1>7. Cardinality(end) \in Nat /\ visits[start] = Cardinality(end)
  BY <1>6, FS_EmptySet, FS_Subset, FS_CardinalityType DEF Final
<1>8. Cardinality(end) = Cardinality(tasks) <=> end = tasks
  BY <1>6, FS_Subset DEF Final
<1>9. ASSUME end = tasks PROVE WellFounded(tasks, ds)
  <2> SUFFICES ASSUME NEW W \in SUBSET tasks, W # {}, \A t \in W : ToSet(ds[t]) \cap W # {}
               PROVE  FALSE
    BY DEF WellFounded
  <2>1. W \cap end = {}
    BY <1>6 DEF Final, Stuck
  <2> QED
    BY <1>9, <2>1
<1>10. ASSUME WellFounded(tasks, ds) PROVE end = tasks
  <2> SUFFICES ASSUME tasks \ end # {} PROVE FALSE
    BY <1>6 DEF Final
  <2>1. PICK t \in tasks \ end : ToSet(ds[t]) \cap (tasks \ end) = {}
    BY <1>10 DEF WellFounded
  <2>2. \A d \in ToSet(ds[t]) : d \in end
    BY <2>1 DEF DepsExist
  <2> QED
    BY <1>6, <2>1, <2>2 DEF Final
<1> QED
  BY <1>1, <1>7, <1>8, <1>9, <1>10

-----------------------------------------------------------------------------
(* The plan stays acyclic *)

(* What the cycle check accepts is well-founded. *)
LEMMA ValidIsWellFounded ==
  ASSUME NEW tasks, IsFiniteSet(tasks), NEW ds, Lists(tasks, ds), Valid(tasks, ds)
  PROVE  DepsExist(tasks, ds) /\ WellFounded(tasks, ds)
  BY KahnIsExact DEF Valid

(* Only add_tasks and update_deps change the graph, and both check it. *)
LEMMA PlanStays ==
  ASSUME TypeOK, TypeOK', PlanInv, [Next]_vars
  PROVE  PlanInv'
<1>0. Lists(Tasks', deps')
  BY DEF TypeOK, Lists, Tasks
<1>1. ASSUME NEW batch \in SUBSET Ids, NEW ds \in [batch -> DepLists], Add(batch, ds)
      PROVE  PlanInv'
  <2>1. Tasks' = Tasks \cup batch /\ IsFiniteSet(batch) /\ Valid(Tasks \cup batch, deps')
    BY <1>1 DEF TypeOK, Add, Tasks
  <2>2. IsFiniteSet(Tasks')
    BY <2>1, FS_Union DEF PlanInv
  <2>3. DepsExist(Tasks', deps') /\ WellFounded(Tasks', deps')
    BY <1>0, <2>1, <2>2, ValidIsWellFounded
  <2> QED
    BY <2>2, <2>3 DEF PlanInv
<1>2. ASSUME NEW t \in Ids, NEW ds \in DepLists, Update(t, ds) PROVE PlanInv'
  <2>1. Tasks' = Tasks /\ Valid(Tasks, deps')
    BY <1>2 DEF Update, Tasks
  <2>2. DepsExist(Tasks', deps') /\ WellFounded(Tasks', deps')
    BY <1>0, <2>1, ValidIsWellFounded DEF PlanInv
  <2> QED
    BY <2>1, <2>2 DEF PlanInv
<1>3. ASSUME NEW t \in Ids, Start(t) \/ Complete(t) \/ Reopen(t) \/ Suspend(t)
      PROVE  PlanInv'
  <2>1. deps' = deps /\ Tasks' = Tasks
    BY <1>3 DEF TypeOK, Start, Startable, Complete, Reopen, Suspend, Tasks
  <2> QED
    BY <2>1 DEF PlanInv
<1>4. CASE UNCHANGED <<status, deps>>
  BY <1>4 DEF PlanInv, Tasks
<1> QED
  BY <1>1, <1>2, <1>3, <1>4 DEF Next, ToolCall, Announce, AnnounceFails, Cancel, vars

(* The set of waiting tasks has one that waits for none of them. *)
LEMMA SomethingToDo ==
  ASSUME TypeOK, PlanInv
  PROVE  NeverStuck
<1> DEFINE waiting == {t \in Tasks : status[t] = "pending"}
<1> SUFFICES ASSUME \E t \in Tasks : status[t] # "completed", ~Busy
             PROVE  \E t \in Tasks : Startable(t) /\ DepsCompleted(t)
  BY DEF NeverStuck
<1>1. \A t \in Tasks : status[t] \in {"pending", "completed"}
  BY DEF TypeOK, Tasks, Busy
<1>2. waiting \in SUBSET Tasks /\ waiting # {}
  BY <1>1
<1>3. PICK t \in waiting : ToSet(deps[t]) \cap waiting = {}
  BY <1>2 DEF PlanInv, WellFounded
<1>4. ToSet(deps[t]) \subseteq Tasks
  BY <1>3 DEF PlanInv, DepsExist
<1> QED
  BY <1>1, <1>3, <1>4 DEF Startable, DepsCompleted

(* The check decides about every change of one task's dependencies. *)
LEMMA ChangesAreChecked ==
  ASSUME TypeOK, PlanInv
  PROVE  CycleCheckExact
<1> SUFFICES ASSUME NEW t \in Tasks, NEW ds \in DepLists,
                    DepsExist(Tasks, [deps EXCEPT ![t] = ds])
             PROVE  Valid(Tasks, [deps EXCEPT ![t] = ds])
                      <=> WellFounded(Tasks, [deps EXCEPT ![t] = ds])
  BY DEF CycleCheckExact
<1>1. Lists(Tasks, [deps EXCEPT ![t] = ds])
  BY GraphAssumption DEF TypeOK, Lists, Tasks
<1> QED
  BY <1>1, KahnIsExact DEF PlanInv, Valid

(* Before the first call there is no task. *)
LEMMA PlanInit == Init => PlanInv
<1> SUFFICES ASSUME Init PROVE PlanInv
  OBVIOUS
<1>1. Tasks = {}
  BY DEF Init, Tasks
<1> QED
  BY <1>1, FS_EmptySet DEF PlanInv, DepsExist, WellFounded

(* The inductive invariant holds throughout. *)
LEMMA Invariance == Spec => []Inv
<1>1. Init => StartedInOrder
  BY DEF Init, StartedInOrder
<1>2. Init => Inv
  BY <1>1, TypeInit, TraceInit, PlanInit DEF Inv
<1>3. Inv /\ [Next]_vars => Inv'
  BY TypeStep, OrderStep, TraceStep, PlanStep, PlanStays DEF Inv
<1> QED
  BY <1>2, <1>3, PTL DEF Spec

-----------------------------------------------------------------------------
(* Every variable of the plan keeps its type. *)
THEOREM TypeCorrect == Spec => []TypeOK
  BY Invariance, PTL DEF Inv

(* Whatever the model asks for, in whatever order, work follows the        *)
(* dependencies and one task at most is in progress.                       *)
THEOREM WorkInOrder == Spec => []StartedInOrder
  BY Invariance, PTL DEF Inv

(* Between two calls the cycle check would refuse exactly the new          *)
(* dependencies that close a cycle, for plans and lists of any length.     *)
THEOREM CycleCheckIsExact == Spec => []CycleCheckExact
<1>1. Inv => CycleCheckExact
  BY ChangesAreChecked DEF Inv
<1> QED
  BY <1>1, Invariance, PTL

(* A plan with open tasks has one in progress or one that may be started,  *)
(* whatever was added, changed, failed or suspended.                       *)
THEOREM PlanNeverStuck == Spec => []NeverStuck
<1>1. Inv => NeverStuck
  BY SomethingToDo DEF Inv
<1> QED
  BY <1>1, Invariance, PTL

(* The events that reached the trace tell the status and the attempts of   *)
(* each task none of whose events was lost.                                *)
THEOREM TraceIsFaithful == Spec => []TraceTellsPlan
  BY Invariance, PTL DEF Inv

(* The audience is never left with an old plan, unless an announcement was *)
(* cut short.                                                              *)
THEOREM PlanIsCurrent == Spec => []PlanUpToDate
  BY Invariance, PTL DEF Inv

(* A completed task keeps its status, dependencies and attempts. *)
THEOREM CompletedStays == Spec => CompletedIsFrozen
<1>1. Inv /\ [Next]_vars
         => [\A t \in Ids : status[t] = "completed" =>
                status'[t] = "completed" /\ deps'[t] = deps[t] /\ attempts'[t] = attempts[t]]_vars
  BY FrozenStep DEF Inv
<1> QED
  BY <1>1, Invariance, PTL DEF Spec, CompletedIsFrozen

=============================================================================
