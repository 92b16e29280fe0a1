--------------------------- MODULE SessionRunsProofs ---------------------------
(***************************************************************************)
(* Proofs about SessionRuns for any sets of connections, sessions and      *)
(* runs.  RunningIsActive is not inductive: that a new chat finds no other *)
(* running run of its session, and that clearing active_run never hides    *)
(* one, rest on how the state of a run, its task, its cancellation and the *)
(* connections that wait for it are related.  RunInv says how.             *)
(*                                                                         *)
(* SessionRuns implements RunService: that rests on what has been told of  *)
(* a run at each place of its task (TellInv).  What a run leaves behind,   *)
(* if no trace write fails, rests on who is waiting for a run that is      *)
(* being cancelled (WaitInv).                                              *)
(*                                                                         *)
(* The second part is about ServerShutdown: the runs in flight have ended  *)
(* before stop() turns to the connections, their ends are on record unless *)
(* a connection was cancelled while it waited for them, and no run         *)
(* outlives stop() but those that NoRunOutlivesStop names.  What the first *)
(* part shows of a step is used as it is: while the server holds the event *)
(* loop no such step is possible.  What covers a run the steps of stop()   *)
(* and of cancelled connections keep with exceptions only: a cancelled     *)
(* clean-up leaves runs to nobody.                                         *)
(* What was told stays true (TellInv, LeaveBut), and somebody can always   *)
(* move, since what a coroutine waits for does not wait for it (Waits).    *)
(***************************************************************************)
EXTENDS ServerShutdown, FiniteSetTheorems, TLAPS

-----------------------------------------------------------------------------
(* The inductive invariant *)

(* A run belongs to a named session or to its own.  Before it is created   *)
(* nothing else knows it.                                                  *)
HomeSession ==
    \A r \in Runs :
        /\ state[r] # "none" => sessionId[r] \in Named \cup {r} /\ initiator[r] \in Conns
        /\ state[r] = "none" => task[r] = "none"

(* Only a run of the session is its active run. *)
ActiveRunHome ==
    \A s \in Sessions : activeRun[s] # None =>
        state[activeRun[s]] # "none" /\ sessionId[activeRun[s]] = s

(* Where the task is, unless it was cancelled, tells the state of the run. *)
TaskPhase ==
    \A r \in Runs :
        /\ cancelRequested[r] => state[r] = "cancelled"
        /\ task[r] = "unwind" => cancelRequested[r]
        /\ task[r] \in {"agent", "final_stream", "interrupted_notice"}
              => cancelRequested[r] \/ state[r] = "running"
        /\ task[r] = "done" => state[r] \in Terminal

(* Who waits for which run. *)
AwaitedRun ==
    \A c \in Conns :
        /\ conn[c] = "accepting" => /\ awaiting[c] # None
                                    /\ state[awaiting[c]] # "none"
                                    /\ task[awaiting[c]] = "none"
        /\ conn[c] \in {"reading", "gone"} => awaiting[c] = None
        /\ conn[c] # "accepting" /\ awaiting[c] # None => state[awaiting[c]] = "cancelled"

(* Each run being accepted has one connection that accepts it. *)
OneAcceptor ==
    \A c, d \in Conns :
        conn[c] = "accepting" /\ conn[d] = "accepting" /\ awaiting[c] = awaiting[d] => c = d

RunInv == HomeSession /\ ActiveRunHome /\ RunningIsActive /\ TaskPhase /\ AwaitedRun
             /\ OneAcceptor

-----------------------------------------------------------------------------
(* Type correctness *)

USE DEF Sessions, Terminal, RunStates, ConnStates, TaskStates, Results, TraceStages,
        Notices, connVars, sessionVars, runVars

(* What the shared parts of the actions do to the types. *)
LEMMA RecordType ==
  ASSUME TypeOK, NEW r \in Runs, NEW stage \in TraceStages, Record(r, stage)
  PROVE  trace' \in [Runs -> Seq(TraceStages)]
  BY DEF TypeOK, Record

(* A notice goes to the end of what was sent about the run. *)
LEMMA NotifyType ==
  ASSUME TypeOK, NEW r \in Runs, NEW kind \in Notices, Notify(r, kind)
  PROVE  notices' \in [Runs -> Seq(Notices)]
  BY DEF TypeOK, Notify

(* SessionChannel.attach, or nothing if the channel is there already. *)
LEMMA SubscribeType ==
  ASSUME TypeOK, NEW c \in Conns, NEW s \in Named, SubscribeUnlessCurrent(c, s)
  PROVE  channel' \in [Conns -> Named \cup {None}] /\ sinks' \in [Named -> SUBSET Conns]
<1>1. CASE channel[c] = s
  BY <1>1 DEF TypeOK, SubscribeUnlessCurrent
<1>2. CASE channel[c] # s
  <2>1. channel' = [channel EXCEPT ![c] = s] /\ sinks' = [sinks EXCEPT ![s] = @ \cup {c}]
    BY <1>2 DEF SubscribeUnlessCurrent, Subscribe
  <2>2. sinks[s] \cup {c} \in SUBSET Conns
    BY DEF TypeOK
  <2> QED
    BY <2>1, <2>2 DEF TypeOK
<1> QED
  BY <1>1, <1>2

(* Session.active_run back to None. *)
LEMMA ReleaseType ==
  ASSUME TypeOK, NEW r \in Runs, Release(r)
  PROVE  activeRun' \in [Sessions -> Runs \cup {None}]
  BY DEF TypeOK, Release

(* cancel_run up to its await. *)
LEMMA CancelRunType ==
  ASSUME TypeOK, NEW c \in Conns, NEW r \in Runs, CancelRun(c, r)
  PROVE  /\ state' \in [Runs -> RunStates]
         /\ cancelRequested' \in [Runs -> BOOLEAN]
         /\ awaiting' \in [Conns -> Runs \cup {None}]
         /\ holder' \in Conns \cup {None}
  BY DEF TypeOK, CancelRun

(* Either way on from registry.detach. *)
LEMMA AfterDetachType ==
  ASSUME TypeOK, NEW c \in Conns, AfterDetach(c)
  PROVE  /\ emptied' \in [Conns -> SUBSET Named]
         /\ conn' \in [Conns -> ConnStates]
         /\ holder' \in Conns \cup {None}
         /\ own' \in [Conns -> SUBSET Runs]
<1> DEFINE mine == {r \in Runs : initiator[r] = c /\ task[r] \notin {"none", "done"}}
<1>1. mine \in SUBSET Runs
  OBVIOUS
<1>2. own' = own \/ own' = [own EXCEPT ![c] = mine]
  BY DEF AfterDetach
<1> HIDE DEF mine
<1>3. own' \in [Conns -> SUBSET Runs]
  BY <1>1, <1>2 DEF TypeOK
<1>4. emptied' \in [Conns -> SUBSET Named]
  BY DEF AfterDetach, TypeOK
<1>5. /\ conn' \in [Conns -> ConnStates]
      /\ holder' \in Conns \cup {None}
  BY DEF AfterDetach, TypeOK
<1> QED
  BY <1>3, <1>4, <1>5

(* The except branches of handle_chat. *)
LEMMA FailType ==
  ASSUME TypeOK, NEW r \in Runs, Fail(r)
  PROVE  /\ result' \in [Runs -> Results]
         /\ heartbeat' \in [Runs -> BOOLEAN]
         /\ task' \in [Runs -> TaskStates]
         /\ trace' \in [Runs -> Seq(TraceStages)]
         /\ state' \in [Runs -> RunStates]
<1>1. trace' \in [Runs -> Seq(TraceStages)]
  BY RecordType DEF Fail, TypeOK
<1> QED
  BY <1>1 DEF TypeOK, Fail, StopHeartbeat, Goto

(* The server starts with every variable in its type. *)
LEMMA TypeInit == Init => TypeOK
  BY DEF Init, TypeOK

(* Every step keeps the types.  HomeSession is needed where a task         *)
(* subscribes its initiator.                                               *)
LEMMA TypeStep == TypeOK /\ HomeSession /\ [Next]_vars => TypeOK'
<1> SUFFICES ASSUME TypeOK, HomeSession, [Next]_vars PROVE TypeOK'
  OBVIOUS
<1>1. ASSUME NEW c \in Conns, NEW s \in Named, Attach(c, s) PROVE TypeOK'
  BY <1>1, ConstantsAssumption DEF TypeOK, Attach, Reading, Subscribe
<1>2. ASSUME NEW c \in Conns, NEW s \in Named, ChatBusy(c, s) PROVE TypeOK'
  BY <1>2, ConstantsAssumption DEF TypeOK, ChatBusy, Reading, Subscribe
<1>3. ASSUME NEW c \in Conns, NEW s \in Named, ChatNotRecorded(c, s) PROVE TypeOK'
  BY <1>3, SubscribeType DEF TypeOK, ChatNotRecorded
<1>4. ASSUME NEW c \in Conns, NEW s \in Named, NEW r \in Runs, StartChat(c, s, r) PROVE TypeOK'
  BY <1>4, RecordType, NotifyType, SubscribeType DEF TypeOK, StartChat, CreateRun, Reading
<1>5. ASSUME NEW c \in Conns, NEW r \in Runs, StartEphemeralChat(c, r) PROVE TypeOK'
  BY <1>5, ConstantsAssumption DEF TypeOK, StartEphemeralChat, CreateRun, Reading,
     Record, Notify
<1>6. ASSUME NEW c \in Conns, Detach(c) PROVE TypeOK'
  BY <1>6, ConstantsAssumption DEF TypeOK, Detach, Reading, LeaveSessions
<1>7. ASSUME NEW c \in Conns, Disconnect(c) PROVE TypeOK'
  BY <1>7, ConstantsAssumption DEF TypeOK, Disconnect, Reading, LeaveSessions
<1>8. ASSUME NEW c \in Conns, CreateTask(c) PROVE TypeOK'
  BY <1>8, ConstantsAssumption DEF TypeOK, CreateTask
<1>9. ASSUME NEW c \in Conns, NEW s \in Named, OnSessionEmpty(c, s) PROVE TypeOK'
  BY <1>9, CancelRunType DEF TypeOK, OnSessionEmpty, IsActive
<1>10. ASSUME NEW c \in Conns, DetachDone(c) PROVE TypeOK'
  BY <1>10, AfterDetachType DEF TypeOK, DetachDone
<1>11. ASSUME NEW c \in Conns, NEW r \in Runs, CancelRunIfUnobserved(c, r) PROVE TypeOK'
  BY <1>11, CancelRunType DEF TypeOK, CancelRunIfUnobserved, IsActive
<1>12. ASSUME NEW c \in Conns, ConnectionClosed(c) PROVE TypeOK'
  BY <1>12, ConstantsAssumption DEF TypeOK, ConnectionClosed
<1>13. ASSUME NEW c \in Conns, RunCancelled(c) PROVE TypeOK'
  BY <1>13, RecordType, ReleaseType DEF TypeOK, RunCancelled, CancelLanded
<1>14. ASSUME NEW c \in Conns, CancelNotRecorded(c) PROVE TypeOK'
  <2>1. /\ emptied' \in [Conns -> SUBSET Named]
        /\ conn' \in [Conns -> ConnStates]
        /\ own' \in [Conns -> SUBSET Runs]
        /\ holder' \in Conns \cup {None}
    <3>1. CASE AfterDetach(c)
      BY <3>1, AfterDetachType
    <3>2. CASE ~AfterDetach(c)
      BY <1>14, <3>2 DEF TypeOK, CancelNotRecorded
    <3> QED
      BY <3>1, <3>2
  <2> QED
    BY <1>14, <2>1 DEF TypeOK, CancelNotRecorded
<1>15. ASSUME NEW r \in Runs, ExecuteChat(r) PROVE TypeOK'
  <2>1. initiator[r] \in Conns
    BY <1>15 DEF ExecuteChat, HomeSession
  <2>2. channel' \in [Conns -> Named \cup {None}] /\ sinks' \in [Named -> SUBSET Conns]
    BY <1>15, <2>1, SubscribeType DEF TypeOK, ExecuteChat, IsNamed
  <2> QED
    BY <1>15, <2>2 DEF TypeOK, ExecuteChat, At, Goto
<1>16. ASSUME NEW r \in Runs, ExecuteCancelled(r) PROVE TypeOK'
  BY <1>16, ConstantsAssumption DEF TypeOK, ExecuteCancelled, At, Goto, LeaveSession,
     Release
<1>17. ASSUME NEW r \in Runs, NeverStarted(r) PROVE TypeOK'
  BY <1>17, ConstantsAssumption DEF TypeOK, NeverStarted, Goto
<1>18. ASSUME NEW r \in Runs, AgentReturns(r) PROVE TypeOK'
  BY <1>18, ConstantsAssumption DEF TypeOK, AgentReturns, At, Goto
<1>19. ASSUME NEW r \in Runs, AgentRaises(r) PROVE TypeOK'
  BY <1>19, FailType DEF TypeOK, AgentRaises
<1>20. ASSUME NEW r \in Runs, RunCompleted(r) PROVE TypeOK'
  BY <1>20, ConstantsAssumption DEF TypeOK, RunCompleted, At, StopHeartbeat, Goto,
     Record, RecordTurn
<1>21. ASSUME NEW r \in Runs, RunInterrupted(r) PROVE TypeOK'
  BY <1>21, ConstantsAssumption DEF TypeOK, RunInterrupted, At, Goto, Record, RecordTurn,
     Notify
<1>22. ASSUME NEW r \in Runs, FinishInterrupted(r) PROVE TypeOK'
  BY <1>22, ConstantsAssumption DEF TypeOK, FinishInterrupted, At, StopHeartbeat, Goto
<1>23. ASSUME NEW r \in Runs, OutcomeNotRecorded(r) PROVE TypeOK'
  BY <1>23, FailType DEF TypeOK, OutcomeNotRecorded, RecordTurn
<1>24. ASSUME NEW r \in Runs, TerminalNotice(r) PROVE TypeOK'
  BY <1>24, ConstantsAssumption DEF TypeOK, TerminalNotice, At, Goto, Notify
<1>25. ASSUME NEW r \in Runs, ExecuteDone(r) PROVE TypeOK'
  BY <1>25, ConstantsAssumption DEF TypeOK, ExecuteDone, At, Goto, LeaveSession, Release
<1>26. ASSUME NEW r \in Runs, CancelDelivered(r) PROVE TypeOK'
  BY <1>26, ConstantsAssumption DEF TypeOK, CancelDelivered, StopHeartbeat, Goto
<1>27. ASSUME NEW r \in Runs, Unwind(r) PROVE TypeOK'
  BY <1>27, ConstantsAssumption DEF TypeOK, Unwind, Goto, LeaveSession, Release
<1>28. ASSUME NEW r \in Runs, Heartbeat(r) PROVE TypeOK'
  BY <1>28, ConstantsAssumption DEF TypeOK, Heartbeat, Notify
<1>29. CASE UNCHANGED vars
  BY <1>29 DEF vars, TypeOK
<1> QED
  BY <1>1, <1>2, <1>3, <1>4, <1>5, <1>6, <1>7, <1>8, <1>9, <1>10, <1>11, <1>12, <1>13, <1>14, <1>15, <1>16, <1>17, <1>18, <1>19, <1>20, <1>21, <1>22, <1>23, <1>24, <1>25, <1>26, <1>27, <1>28, <1>29 DEF
     Next, ClientStep, ConnStep, TaskStep

-----------------------------------------------------------------------------
(* The runs and their tasks *)

(* Before the first chat there is no run to speak of. *)
LEMMA RunInvInit == Init => RunInv
  BY ConstantsAssumption
     DEF Init, RunInv, HomeSession, ActiveRunHome, RunningIsActive, TaskPhase, AwaitedRun,
         OneAcceptor

(* The steps that neither create nor end nor cancel a run, nor touch what  *)
(* RunInv speaks of.                                                       *)
LEMMA RunInvFrame ==
  ASSUME RunInv,
         UNCHANGED <<conn, awaiting, ephemeral, activeRun, state, sessionId, initiator,
                     task, cancelRequested>>
  PROVE  RunInv'
  BY DEF RunInv, HomeSession, ActiveRunHome, RunningIsActive, TaskPhase, AwaitedRun,
         OneAcceptor, IsNamed

(* Cancelling an active run agrees with where its task is. *)
LEMMA CancelTaskPhase ==
  ASSUME TypeOK, TaskPhase, NEW c \in Conns, NEW r \in Runs, IsActive(r),
         CancelRun(c, r), UNCHANGED task
  PROVE  TaskPhase'
<1> SUFFICES ASSUME NEW q \in Runs
             PROVE  /\ cancelRequested'[q] => state'[q] = "cancelled"
                    /\ task[q] = "unwind" => cancelRequested'[q]
                    /\ task[q] \in {"agent", "final_stream", "interrupted_notice"}
                          => cancelRequested'[q] \/ state'[q] = "running"
                    /\ task[q] = "done" => state'[q] \in Terminal
  BY DEF TaskPhase
<1>1. CASE q = r
  BY <1>1 DEF TypeOK, TaskPhase, CancelRun, IsActive
<1>2. CASE q # r
  BY <1>2 DEF TypeOK, TaskPhase, CancelRun
<1> QED
  BY <1>1, <1>2

(* One step per action; under it one per part of RunInv that it disturbs.  *)
LEMMA RunInvStep == TypeOK /\ RunInv /\ [Next]_vars => RunInv'
<1> SUFFICES ASSUME TypeOK, RunInv, [Next]_vars PROVE RunInv'
  OBVIOUS
<1> USE ConstantsAssumption DEF TypeOK
<1>1. ASSUME NEW c \in Conns, NEW s \in Named, ChatNotRecorded(c, s) PROVE RunInv'
  <2>1. HomeSession'
    BY <1>1 DEF RunInv, HomeSession, TaskPhase, AwaitedRun, ChatNotRecorded, Reading,
       IsActive, SubscribeUnlessCurrent, Subscribe
  <2>2. ActiveRunHome'
    BY <1>1 DEF RunInv, HomeSession, ActiveRunHome, ChatNotRecorded, Reading, IsActive,
       SubscribeUnlessCurrent, Subscribe
  <2>3. RunningIsActive'
    BY <1>1 DEF RunInv, HomeSession, ActiveRunHome, RunningIsActive, TaskPhase,
       AwaitedRun, ChatNotRecorded, Reading, IsActive, SubscribeUnlessCurrent, Subscribe,
       IsNamed
  <2>4. TaskPhase'
    BY <1>1 DEF RunInv, HomeSession, TaskPhase, AwaitedRun, ChatNotRecorded, Reading,
       IsActive, SubscribeUnlessCurrent, Subscribe
  <2>5. AwaitedRun'
    BY <1>1 DEF RunInv, HomeSession, TaskPhase, AwaitedRun, ChatNotRecorded, Reading,
       IsActive, SubscribeUnlessCurrent, Subscribe
  <2>6. OneAcceptor'
    BY <1>1 DEF RunInv, HomeSession, AwaitedRun, OneAcceptor, ChatNotRecorded, Reading,
       IsActive, SubscribeUnlessCurrent, Subscribe
  <2> QED
    BY <2>1, <2>2, <2>3, <2>4, <2>5, <2>6 DEF RunInv
<1>2. ASSUME NEW c \in Conns, NEW s \in Named, NEW r \in Runs, StartChat(c, s, r) PROVE RunInv'
  <2>1. HomeSession'
    BY <1>2 DEF RunInv, HomeSession, TaskPhase, AwaitedRun, StartChat, CreateRun,
       Reading, IsActive, IsNamed
  <2>2. ActiveRunHome'
    BY <1>2 DEF RunInv, HomeSession, ActiveRunHome, StartChat, CreateRun, Reading,
       IsActive, IsNamed
  <2>3. RunningIsActive'
    BY <1>2 DEF RunInv, HomeSession, ActiveRunHome, RunningIsActive, TaskPhase,
       AwaitedRun, StartChat, CreateRun, Reading, IsActive, IsNamed
  <2>4. TaskPhase'
    BY <1>2 DEF RunInv, HomeSession, TaskPhase, AwaitedRun, StartChat, CreateRun,
       Reading, IsActive, IsNamed
  <2>5. AwaitedRun'
    BY <1>2 DEF RunInv, HomeSession, TaskPhase, AwaitedRun, StartChat, CreateRun,
       Reading, IsActive, IsNamed
  <2>6. OneAcceptor'
    BY <1>2 DEF RunInv, HomeSession, AwaitedRun, OneAcceptor, StartChat, CreateRun,
       Reading, IsActive, IsNamed
  <2> QED
    BY <2>1, <2>2, <2>3, <2>4, <2>5, <2>6 DEF RunInv
<1>3. ASSUME NEW c \in Conns, NEW r \in Runs, StartEphemeralChat(c, r) PROVE RunInv'
  <2>1. HomeSession'
    BY <1>3 DEF RunInv, HomeSession, TaskPhase, AwaitedRun, StartEphemeralChat,
       CreateRun, Reading, IsNamed
  <2>2. ActiveRunHome'
    BY <1>3 DEF RunInv, HomeSession, ActiveRunHome, StartEphemeralChat, CreateRun,
       Reading, IsNamed
  <2>3. RunningIsActive'
    BY <1>3 DEF RunInv, HomeSession, ActiveRunHome, RunningIsActive, TaskPhase,
       AwaitedRun, StartEphemeralChat, CreateRun, Reading, IsNamed
  <2>4. TaskPhase'
    BY <1>3 DEF RunInv, HomeSession, TaskPhase, AwaitedRun, StartEphemeralChat,
       CreateRun, Reading, IsNamed
  <2>5. AwaitedRun'
    BY <1>3 DEF RunInv, HomeSession, TaskPhase, AwaitedRun, StartEphemeralChat,
       CreateRun, Reading, IsNamed
  <2>6. OneAcceptor'
    BY <1>3 DEF RunInv, HomeSession, AwaitedRun, OneAcceptor, StartEphemeralChat,
       CreateRun, Reading, IsNamed
  <2> QED
    BY <2>1, <2>2, <2>3, <2>4, <2>5, <2>6 DEF RunInv
<1>4. ASSUME NEW c \in Conns, Detach(c) PROVE RunInv'
  <2>1. HomeSession'
    BY <1>4 DEF RunInv, HomeSession, TaskPhase, AwaitedRun, Detach, Reading
  <2>2. ActiveRunHome'
    BY <1>4 DEF RunInv, HomeSession, ActiveRunHome, Detach, Reading
  <2>3. RunningIsActive'
    BY <1>4 DEF RunInv, HomeSession, ActiveRunHome, RunningIsActive, TaskPhase,
       AwaitedRun, Detach, Reading, IsNamed
  <2>4. TaskPhase'
    BY <1>4 DEF RunInv, HomeSession, TaskPhase, AwaitedRun, Detach, Reading
  <2>5. AwaitedRun'
    BY <1>4 DEF RunInv, HomeSession, TaskPhase, AwaitedRun, Detach, Reading
  <2>6. OneAcceptor'
    BY <1>4 DEF RunInv, HomeSession, AwaitedRun, OneAcceptor, Detach, Reading
  <2> QED
    BY <2>1, <2>2, <2>3, <2>4, <2>5, <2>6 DEF RunInv
<1>5. ASSUME NEW c \in Conns, Disconnect(c) PROVE RunInv'
  <2>1. HomeSession'
    BY <1>5 DEF RunInv, HomeSession, TaskPhase, AwaitedRun, Disconnect, Reading
  <2>2. ActiveRunHome'
    BY <1>5 DEF RunInv, HomeSession, ActiveRunHome, Disconnect, Reading
  <2>3. RunningIsActive'
    BY <1>5 DEF RunInv, HomeSession, ActiveRunHome, RunningIsActive, TaskPhase,
       AwaitedRun, Disconnect, Reading, IsNamed
  <2>4. TaskPhase'
    BY <1>5 DEF RunInv, HomeSession, TaskPhase, AwaitedRun, Disconnect, Reading
  <2>5. AwaitedRun'
    BY <1>5 DEF RunInv, HomeSession, TaskPhase, AwaitedRun, Disconnect, Reading
  <2>6. OneAcceptor'
    BY <1>5 DEF RunInv, HomeSession, AwaitedRun, OneAcceptor, Disconnect, Reading
  <2> QED
    BY <2>1, <2>2, <2>3, <2>4, <2>5, <2>6 DEF RunInv
<1>6. ASSUME NEW c \in Conns, CreateTask(c) PROVE RunInv'
  <2>1. HomeSession'
    BY <1>6 DEF RunInv, HomeSession, TaskPhase, AwaitedRun, CreateTask, IsNamed
  <2>2. ActiveRunHome'
    BY <1>6 DEF RunInv, HomeSession, ActiveRunHome, CreateTask, IsNamed
  <2>3. RunningIsActive'
    BY <1>6 DEF RunInv, HomeSession, ActiveRunHome, RunningIsActive, TaskPhase,
       AwaitedRun, CreateTask, IsNamed
  <2>4. TaskPhase'
    BY <1>6 DEF RunInv, HomeSession, TaskPhase, AwaitedRun, CreateTask, IsNamed
  <2>5. AwaitedRun'
    BY <1>6 DEF RunInv, AwaitedRun, OneAcceptor, CreateTask
  <2>6. OneAcceptor'
    BY <1>6 DEF RunInv, HomeSession, AwaitedRun, OneAcceptor, CreateTask, IsNamed
  <2> QED
    BY <2>1, <2>2, <2>3, <2>4, <2>5, <2>6 DEF RunInv
<1>7. ASSUME NEW c \in Conns, NEW s \in Named, OnSessionEmpty(c, s) PROVE RunInv'
  <2>1. HomeSession'
    BY <1>7 DEF RunInv, HomeSession, TaskPhase, AwaitedRun, OnSessionEmpty, CancelRun,
       IsActive, IsNamed
  <2>2. ActiveRunHome'
    BY <1>7 DEF RunInv, HomeSession, ActiveRunHome, OnSessionEmpty, CancelRun, IsActive,
       IsNamed
  <2>3. RunningIsActive'
    BY <1>7 DEF RunInv, HomeSession, ActiveRunHome, RunningIsActive, TaskPhase,
       AwaitedRun, OnSessionEmpty, CancelRun, IsActive, IsNamed
  <2>4. TaskPhase'
    BY <1>7, CancelTaskPhase DEF RunInv, TaskPhase, OnSessionEmpty, IsActive
  <2>5. AwaitedRun'
    BY <1>7 DEF RunInv, HomeSession, TaskPhase, AwaitedRun, OnSessionEmpty, CancelRun,
       IsActive, IsNamed
  <2>6. OneAcceptor'
    <3>1. \A x \in Conns : conn[x] = "accepting" => awaiting'[x] = awaiting[x]
      BY <1>7 DEF OnSessionEmpty, CancelRun
    <3> QED
      BY <1>7, <3>1 DEF RunInv, OneAcceptor, OnSessionEmpty
  <2> QED
    BY <2>1, <2>2, <2>3, <2>4, <2>5, <2>6 DEF RunInv
<1>8. ASSUME NEW c \in Conns, DetachDone(c) PROVE RunInv'
  <2>1. HomeSession'
    BY <1>8 DEF RunInv, HomeSession, TaskPhase, AwaitedRun, DetachDone, AfterDetach,
       IsNamed
  <2>2. ActiveRunHome'
    BY <1>8 DEF RunInv, HomeSession, ActiveRunHome, DetachDone, AfterDetach, IsNamed
  <2>3. RunningIsActive'
    BY <1>8 DEF RunInv, HomeSession, ActiveRunHome, RunningIsActive, TaskPhase,
       AwaitedRun, DetachDone, AfterDetach, IsNamed
  <2>4. TaskPhase'
    BY <1>8 DEF RunInv, HomeSession, TaskPhase, AwaitedRun, DetachDone, AfterDetach,
       IsNamed
  <2>5. AwaitedRun'
    BY <1>8 DEF RunInv, HomeSession, TaskPhase, AwaitedRun, DetachDone, AfterDetach,
       IsNamed
  <2>6. OneAcceptor'
    <3>1. \A x \in Conns : conn'[x] = "accepting" => conn[x] = "accepting"
      BY <1>8 DEF DetachDone, AfterDetach
    <3> QED
      BY <1>8, <3>1 DEF RunInv, OneAcceptor, DetachDone
  <2> QED
    BY <2>1, <2>2, <2>3, <2>4, <2>5, <2>6 DEF RunInv
<1>9. ASSUME NEW c \in Conns, NEW r \in Runs, CancelRunIfUnobserved(c, r) PROVE RunInv'
  <2>1. HomeSession'
    BY <1>9 DEF RunInv, HomeSession, TaskPhase, AwaitedRun, CancelRunIfUnobserved,
       CancelRun, IsActive, IsNamed
  <2>2. ActiveRunHome'
    BY <1>9 DEF RunInv, HomeSession, ActiveRunHome, CancelRunIfUnobserved, CancelRun,
       IsActive, IsNamed
  <2>3. RunningIsActive'
    BY <1>9 DEF RunInv, HomeSession, ActiveRunHome, RunningIsActive, TaskPhase,
       AwaitedRun, CancelRunIfUnobserved, CancelRun, IsActive, IsNamed
  <2>4. TaskPhase'
    BY <1>9, CancelTaskPhase DEF RunInv, TaskPhase, CancelRunIfUnobserved
  <2>5. AwaitedRun'
    BY <1>9 DEF RunInv, HomeSession, TaskPhase, AwaitedRun, CancelRunIfUnobserved,
       CancelRun, IsActive, IsNamed
  <2>6. OneAcceptor'
    <3>1. \A x \in Conns : conn[x] = "accepting" => awaiting'[x] = awaiting[x]
      BY <1>9 DEF CancelRunIfUnobserved, CancelRun
    <3> QED
      BY <1>9, <3>1 DEF RunInv, OneAcceptor, CancelRunIfUnobserved
  <2> QED
    BY <2>1, <2>2, <2>3, <2>4, <2>5, <2>6 DEF RunInv
<1>10. ASSUME NEW c \in Conns, ConnectionClosed(c) PROVE RunInv'
  <2>1. HomeSession'
    BY <1>10 DEF RunInv, HomeSession, TaskPhase, AwaitedRun, ConnectionClosed, IsNamed
  <2>2. ActiveRunHome'
    BY <1>10 DEF RunInv, HomeSession, ActiveRunHome, ConnectionClosed, IsNamed
  <2>3. RunningIsActive'
    BY <1>10 DEF RunInv, HomeSession, ActiveRunHome, RunningIsActive, TaskPhase,
       AwaitedRun, ConnectionClosed, IsNamed
  <2>4. TaskPhase'
    BY <1>10 DEF RunInv, HomeSession, TaskPhase, AwaitedRun, ConnectionClosed, IsNamed
  <2>5. AwaitedRun'
    BY <1>10 DEF RunInv, HomeSession, TaskPhase, AwaitedRun, ConnectionClosed, IsNamed
  <2>6. OneAcceptor'
    BY <1>10 DEF RunInv, HomeSession, AwaitedRun, OneAcceptor, ConnectionClosed, IsNamed
  <2> QED
    BY <2>1, <2>2, <2>3, <2>4, <2>5, <2>6 DEF RunInv
<1>11. ASSUME NEW c \in Conns, RunCancelled(c) PROVE RunInv'
  <2>1. HomeSession'
    BY <1>11 DEF RunInv, HomeSession, TaskPhase, AwaitedRun, RunCancelled, CancelLanded,
       Release, IsNamed
  <2>2. ActiveRunHome'
    BY <1>11 DEF RunInv, HomeSession, ActiveRunHome, RunCancelled, CancelLanded, Release,
       IsNamed
  <2>3. RunningIsActive'
    BY <1>11 DEF RunInv, HomeSession, ActiveRunHome, RunningIsActive, TaskPhase,
       AwaitedRun, RunCancelled, CancelLanded, Release, IsNamed
  <2>4. TaskPhase'
    BY <1>11 DEF RunInv, HomeSession, TaskPhase, AwaitedRun, RunCancelled, CancelLanded,
       Release, IsNamed
  <2>5. AwaitedRun'
    BY <1>11 DEF RunInv, HomeSession, TaskPhase, AwaitedRun, RunCancelled, CancelLanded,
       Release, IsNamed
  <2>6. OneAcceptor'
    BY <1>11 DEF RunInv, HomeSession, AwaitedRun, OneAcceptor, RunCancelled,
       CancelLanded, Release, IsNamed
  <2> QED
    BY <2>1, <2>2, <2>3, <2>4, <2>5, <2>6 DEF RunInv
<1>12. ASSUME NEW c \in Conns, CancelNotRecorded(c) PROVE RunInv'
  <2>1. HomeSession'
    BY <1>12 DEF RunInv, HomeSession, TaskPhase, AwaitedRun, CancelNotRecorded,
       CancelLanded, AfterDetach, IsNamed
  <2>2. ActiveRunHome'
    BY <1>12 DEF RunInv, HomeSession, ActiveRunHome, CancelNotRecorded, CancelLanded,
       AfterDetach, IsNamed
  <2>3. RunningIsActive'
    BY <1>12 DEF RunInv, HomeSession, ActiveRunHome, RunningIsActive, TaskPhase,
       AwaitedRun, CancelNotRecorded, CancelLanded, AfterDetach, IsNamed
  <2>4. TaskPhase'
    BY <1>12 DEF RunInv, HomeSession, TaskPhase, AwaitedRun, CancelNotRecorded,
       CancelLanded, AfterDetach, IsNamed
  <2>5. AwaitedRun'
    BY <1>12 DEF RunInv, HomeSession, TaskPhase, AwaitedRun, CancelNotRecorded,
       CancelLanded, AfterDetach, IsNamed
  <2>6. OneAcceptor'
    BY <1>12 DEF RunInv, HomeSession, AwaitedRun, OneAcceptor, CancelNotRecorded,
       CancelLanded, AfterDetach, IsNamed
  <2> QED
    BY <2>1, <2>2, <2>3, <2>4, <2>5, <2>6 DEF RunInv
<1>13. ASSUME NEW r \in Runs, ExecuteChat(r) PROVE RunInv'
  <2>1. HomeSession'
    BY <1>13 DEF RunInv, HomeSession, TaskPhase, AwaitedRun, ExecuteChat, At, Goto,
       IsNamed
  <2>2. ActiveRunHome'
    BY <1>13 DEF RunInv, HomeSession, ActiveRunHome, ExecuteChat, At, Goto, IsNamed
  <2>3. RunningIsActive'
    BY <1>13 DEF RunInv, HomeSession, ActiveRunHome, RunningIsActive, TaskPhase,
       AwaitedRun, ExecuteChat, At, Goto, IsNamed
  <2>4. TaskPhase'
    BY <1>13 DEF RunInv, HomeSession, TaskPhase, AwaitedRun, ExecuteChat, At, Goto,
       IsNamed
  <2>5. AwaitedRun'
    BY <1>13 DEF RunInv, HomeSession, TaskPhase, AwaitedRun, ExecuteChat, At, Goto,
       IsNamed
  <2>6. OneAcceptor'
    BY <1>13 DEF RunInv, HomeSession, AwaitedRun, OneAcceptor, ExecuteChat, At, Goto,
       IsNamed
  <2> QED
    BY <2>1, <2>2, <2>3, <2>4, <2>5, <2>6 DEF RunInv
<1>14. ASSUME NEW r \in Runs, ExecuteCancelled(r) PROVE RunInv'
  <2>1. HomeSession'
    BY <1>14 DEF RunInv, HomeSession, TaskPhase, AwaitedRun, ExecuteCancelled, At, Goto,
       LeaveSession, Release, IsNamed
  <2>2. ActiveRunHome'
    BY <1>14 DEF RunInv, HomeSession, ActiveRunHome, ExecuteCancelled, At, Goto,
       LeaveSession, Release, IsNamed
  <2>3. RunningIsActive'
    BY <1>14 DEF RunInv, HomeSession, ActiveRunHome, RunningIsActive, TaskPhase,
       AwaitedRun, ExecuteCancelled, At, Goto, LeaveSession, Release, IsNamed
  <2>4. TaskPhase'
    BY <1>14 DEF RunInv, HomeSession, TaskPhase, AwaitedRun, ExecuteCancelled, At, Goto,
       LeaveSession, Release, IsNamed
  <2>5. AwaitedRun'
    BY <1>14 DEF RunInv, HomeSession, TaskPhase, AwaitedRun, ExecuteCancelled, At, Goto,
       LeaveSession, Release, IsNamed
  <2>6. OneAcceptor'
    BY <1>14 DEF RunInv, HomeSession, AwaitedRun, OneAcceptor, ExecuteCancelled, At,
       Goto, LeaveSession, Release, IsNamed
  <2> QED
    BY <2>1, <2>2, <2>3, <2>4, <2>5, <2>6 DEF RunInv
<1>15. ASSUME NEW r \in Runs, NeverStarted(r) PROVE RunInv'
  <2>1. HomeSession'
    BY <1>15 DEF RunInv, HomeSession, TaskPhase, AwaitedRun, NeverStarted, Goto, IsNamed
  <2>2. ActiveRunHome'
    BY <1>15 DEF RunInv, HomeSession, ActiveRunHome, NeverStarted, Goto, IsNamed
  <2>3. RunningIsActive'
    BY <1>15 DEF RunInv, HomeSession, ActiveRunHome, RunningIsActive, TaskPhase,
       AwaitedRun, NeverStarted, Goto, IsNamed
  <2>4. TaskPhase'
    BY <1>15 DEF RunInv, HomeSession, TaskPhase, AwaitedRun, NeverStarted, Goto, IsNamed
  <2>5. AwaitedRun'
    BY <1>15 DEF RunInv, HomeSession, TaskPhase, AwaitedRun, NeverStarted, Goto, IsNamed
  <2>6. OneAcceptor'
    BY <1>15 DEF RunInv, HomeSession, AwaitedRun, OneAcceptor, NeverStarted, Goto, IsNamed
  <2> QED
    BY <2>1, <2>2, <2>3, <2>4, <2>5, <2>6 DEF RunInv
<1>16. ASSUME NEW r \in Runs, AgentReturns(r) PROVE RunInv'
  <2>1. HomeSession'
    BY <1>16 DEF RunInv, HomeSession, TaskPhase, AwaitedRun, AgentReturns, At, Goto,
       IsNamed
  <2>2. ActiveRunHome'
    BY <1>16 DEF RunInv, HomeSession, ActiveRunHome, AgentReturns, At, Goto, IsNamed
  <2>3. RunningIsActive'
    BY <1>16 DEF RunInv, HomeSession, ActiveRunHome, RunningIsActive, TaskPhase,
       AwaitedRun, AgentReturns, At, Goto, IsNamed
  <2>4. TaskPhase'
    BY <1>16 DEF RunInv, HomeSession, TaskPhase, AwaitedRun, AgentReturns, At, Goto,
       IsNamed
  <2>5. AwaitedRun'
    BY <1>16 DEF RunInv, HomeSession, TaskPhase, AwaitedRun, AgentReturns, At, Goto,
       IsNamed
  <2>6. OneAcceptor'
    BY <1>16 DEF RunInv, HomeSession, AwaitedRun, OneAcceptor, AgentReturns, At, Goto,
       IsNamed
  <2> QED
    BY <2>1, <2>2, <2>3, <2>4, <2>5, <2>6 DEF RunInv
<1>17. ASSUME NEW r \in Runs, AgentRaises(r) PROVE RunInv'
  <2>1. HomeSession'
    BY <1>17 DEF RunInv, HomeSession, TaskPhase, AwaitedRun, AgentRaises, Fail, At,
       StopHeartbeat, Goto, IsNamed
  <2>2. ActiveRunHome'
    BY <1>17 DEF RunInv, HomeSession, ActiveRunHome, AgentRaises, Fail, At,
       StopHeartbeat, Goto, IsNamed
  <2>3. RunningIsActive'
    BY <1>17 DEF RunInv, HomeSession, ActiveRunHome, RunningIsActive, TaskPhase,
       AwaitedRun, AgentRaises, Fail, At, StopHeartbeat, Goto, IsNamed
  <2>4. TaskPhase'
    BY <1>17 DEF RunInv, HomeSession, TaskPhase, AwaitedRun, AgentRaises, Fail, At,
       StopHeartbeat, Goto, IsNamed
  <2>5. AwaitedRun'
    BY <1>17 DEF RunInv, HomeSession, TaskPhase, AwaitedRun, AgentRaises, Fail, At,
       StopHeartbeat, Goto, IsNamed
  <2>6. OneAcceptor'
    BY <1>17 DEF RunInv, HomeSession, AwaitedRun, OneAcceptor, AgentRaises, Fail, At,
       StopHeartbeat, Goto, IsNamed
  <2> QED
    BY <2>1, <2>2, <2>3, <2>4, <2>5, <2>6 DEF RunInv
<1>18. ASSUME NEW r \in Runs, RunCompleted(r) PROVE RunInv'
  <2>1. HomeSession'
    BY <1>18 DEF RunInv, HomeSession, TaskPhase, AwaitedRun, RunCompleted, At,
       StopHeartbeat, Goto, IsNamed
  <2>2. ActiveRunHome'
    BY <1>18 DEF RunInv, HomeSession, ActiveRunHome, RunCompleted, At, StopHeartbeat,
       Goto, IsNamed
  <2>3. RunningIsActive'
    BY <1>18 DEF RunInv, HomeSession, ActiveRunHome, RunningIsActive, TaskPhase,
       AwaitedRun, RunCompleted, At, StopHeartbeat, Goto, IsNamed
  <2>4. TaskPhase'
    BY <1>18 DEF RunInv, HomeSession, TaskPhase, AwaitedRun, RunCompleted, At,
       StopHeartbeat, Goto, IsNamed
  <2>5. AwaitedRun'
    BY <1>18 DEF RunInv, HomeSession, TaskPhase, AwaitedRun, RunCompleted, At,
       StopHeartbeat, Goto, IsNamed
  <2>6. OneAcceptor'
    BY <1>18 DEF RunInv, HomeSession, AwaitedRun, OneAcceptor, RunCompleted, At,
       StopHeartbeat, Goto, IsNamed
  <2> QED
    BY <2>1, <2>2, <2>3, <2>4, <2>5, <2>6 DEF RunInv
<1>19. ASSUME NEW r \in Runs, RunInterrupted(r) PROVE RunInv'
  <2>1. HomeSession'
    BY <1>19 DEF RunInv, HomeSession, TaskPhase, AwaitedRun, RunInterrupted, At, Goto,
       IsNamed
  <2>2. ActiveRunHome'
    BY <1>19 DEF RunInv, HomeSession, ActiveRunHome, RunInterrupted, At, Goto, IsNamed
  <2>3. RunningIsActive'
    BY <1>19 DEF RunInv, HomeSession, ActiveRunHome, RunningIsActive, TaskPhase,
       AwaitedRun, RunInterrupted, At, Goto, IsNamed
  <2>4. TaskPhase'
    BY <1>19 DEF RunInv, HomeSession, TaskPhase, AwaitedRun, RunInterrupted, At, Goto,
       IsNamed
  <2>5. AwaitedRun'
    BY <1>19 DEF RunInv, HomeSession, TaskPhase, AwaitedRun, RunInterrupted, At, Goto,
       IsNamed
  <2>6. OneAcceptor'
    BY <1>19 DEF RunInv, HomeSession, AwaitedRun, OneAcceptor, RunInterrupted, At, Goto,
       IsNamed
  <2> QED
    BY <2>1, <2>2, <2>3, <2>4, <2>5, <2>6 DEF RunInv
<1>20. ASSUME NEW r \in Runs, FinishInterrupted(r) PROVE RunInv'
  <2>1. HomeSession'
    BY <1>20 DEF RunInv, HomeSession, TaskPhase, AwaitedRun, FinishInterrupted, At,
       StopHeartbeat, Goto, IsNamed
  <2>2. ActiveRunHome'
    BY <1>20 DEF RunInv, HomeSession, ActiveRunHome, FinishInterrupted, At,
       StopHeartbeat, Goto, IsNamed
  <2>3. RunningIsActive'
    BY <1>20 DEF RunInv, HomeSession, ActiveRunHome, RunningIsActive, TaskPhase,
       AwaitedRun, FinishInterrupted, At, StopHeartbeat, Goto, IsNamed
  <2>4. TaskPhase'
    BY <1>20 DEF RunInv, HomeSession, TaskPhase, AwaitedRun, FinishInterrupted, At,
       StopHeartbeat, Goto, IsNamed
  <2>5. AwaitedRun'
    BY <1>20 DEF RunInv, HomeSession, TaskPhase, AwaitedRun, FinishInterrupted, At,
       StopHeartbeat, Goto, IsNamed
  <2>6. OneAcceptor'
    BY <1>20 DEF RunInv, HomeSession, AwaitedRun, OneAcceptor, FinishInterrupted, At,
       StopHeartbeat, Goto, IsNamed
  <2> QED
    BY <2>1, <2>2, <2>3, <2>4, <2>5, <2>6 DEF RunInv
<1>21. ASSUME NEW r \in Runs, OutcomeNotRecorded(r) PROVE RunInv'
  <2>1. HomeSession'
    BY <1>21 DEF RunInv, HomeSession, TaskPhase, AwaitedRun, OutcomeNotRecorded, Fail,
       At, StopHeartbeat, Goto, IsNamed
  <2>2. ActiveRunHome'
    BY <1>21 DEF RunInv, HomeSession, ActiveRunHome, OutcomeNotRecorded, Fail, At,
       StopHeartbeat, Goto, IsNamed
  <2>3. RunningIsActive'
    BY <1>21 DEF RunInv, HomeSession, ActiveRunHome, RunningIsActive, TaskPhase,
       AwaitedRun, OutcomeNotRecorded, Fail, At, StopHeartbeat, Goto, IsNamed
  <2>4. TaskPhase'
    BY <1>21 DEF RunInv, HomeSession, TaskPhase, AwaitedRun, OutcomeNotRecorded, Fail,
       At, StopHeartbeat, Goto, IsNamed
  <2>5. AwaitedRun'
    BY <1>21 DEF RunInv, HomeSession, TaskPhase, AwaitedRun, OutcomeNotRecorded, Fail,
       At, StopHeartbeat, Goto, IsNamed
  <2>6. OneAcceptor'
    BY <1>21 DEF RunInv, HomeSession, AwaitedRun, OneAcceptor, OutcomeNotRecorded, Fail,
       At, StopHeartbeat, Goto, IsNamed
  <2> QED
    BY <2>1, <2>2, <2>3, <2>4, <2>5, <2>6 DEF RunInv
<1>22. ASSUME NEW r \in Runs, TerminalNotice(r) PROVE RunInv'
  <2>1. HomeSession'
    BY <1>22 DEF RunInv, HomeSession, TaskPhase, AwaitedRun, TerminalNotice, At, Goto,
       IsNamed
  <2>2. ActiveRunHome'
    BY <1>22 DEF RunInv, HomeSession, ActiveRunHome, TerminalNotice, At, Goto, IsNamed
  <2>3. RunningIsActive'
    BY <1>22 DEF RunInv, HomeSession, ActiveRunHome, RunningIsActive, TaskPhase,
       AwaitedRun, TerminalNotice, At, Goto, IsNamed
  <2>4. TaskPhase'
    BY <1>22 DEF RunInv, HomeSession, TaskPhase, AwaitedRun, TerminalNotice, At, Goto,
       IsNamed
  <2>5. AwaitedRun'
    BY <1>22 DEF RunInv, HomeSession, TaskPhase, AwaitedRun, TerminalNotice, At, Goto,
       IsNamed
  <2>6. OneAcceptor'
    BY <1>22 DEF RunInv, HomeSession, AwaitedRun, OneAcceptor, TerminalNotice, At, Goto,
       IsNamed
  <2> QED
    BY <2>1, <2>2, <2>3, <2>4, <2>5, <2>6 DEF RunInv
<1>23. ASSUME NEW r \in Runs, ExecuteDone(r) PROVE RunInv'
  <2>1. HomeSession'
    BY <1>23 DEF RunInv, HomeSession, TaskPhase, AwaitedRun, ExecuteDone, At, Goto,
       LeaveSession, Release, IsNamed
  <2>2. ActiveRunHome'
    BY <1>23 DEF RunInv, HomeSession, ActiveRunHome, ExecuteDone, At, Goto, LeaveSession,
       Release, IsNamed
  <2>3. RunningIsActive'
    BY <1>23 DEF RunInv, HomeSession, ActiveRunHome, RunningIsActive, TaskPhase,
       AwaitedRun, ExecuteDone, At, Goto, LeaveSession, Release, IsNamed
  <2>4. TaskPhase'
    BY <1>23 DEF RunInv, HomeSession, TaskPhase, AwaitedRun, ExecuteDone, At, Goto,
       LeaveSession, Release, IsNamed
  <2>5. AwaitedRun'
    BY <1>23 DEF RunInv, HomeSession, TaskPhase, AwaitedRun, ExecuteDone, At, Goto,
       LeaveSession, Release, IsNamed
  <2>6. OneAcceptor'
    BY <1>23 DEF RunInv, HomeSession, AwaitedRun, OneAcceptor, ExecuteDone, At, Goto,
       LeaveSession, Release, IsNamed
  <2> QED
    BY <2>1, <2>2, <2>3, <2>4, <2>5, <2>6 DEF RunInv
<1>24. ASSUME NEW r \in Runs, CancelDelivered(r) PROVE RunInv'
  <2>1. HomeSession'
    BY <1>24 DEF RunInv, HomeSession, TaskPhase, AwaitedRun, CancelDelivered,
       StopHeartbeat, Goto, IsNamed
  <2>2. ActiveRunHome'
    BY <1>24 DEF RunInv, HomeSession, ActiveRunHome, CancelDelivered, StopHeartbeat,
       Goto, IsNamed
  <2>3. RunningIsActive'
    BY <1>24 DEF RunInv, HomeSession, ActiveRunHome, RunningIsActive, TaskPhase,
       AwaitedRun, CancelDelivered, StopHeartbeat, Goto, IsNamed
  <2>4. TaskPhase'
    BY <1>24 DEF RunInv, HomeSession, TaskPhase, AwaitedRun, CancelDelivered,
       StopHeartbeat, Goto, IsNamed
  <2>5. AwaitedRun'
    BY <1>24 DEF RunInv, HomeSession, TaskPhase, AwaitedRun, CancelDelivered,
       StopHeartbeat, Goto, IsNamed
  <2>6. OneAcceptor'
    BY <1>24 DEF RunInv, HomeSession, AwaitedRun, OneAcceptor, CancelDelivered,
       StopHeartbeat, Goto, IsNamed
  <2> QED
    BY <2>1, <2>2, <2>3, <2>4, <2>5, <2>6 DEF RunInv
<1>25. ASSUME NEW r \in Runs, Unwind(r) PROVE RunInv'
  <2>1. HomeSession'
    BY <1>25 DEF RunInv, HomeSession, TaskPhase, AwaitedRun, Unwind, Goto, LeaveSession,
       Release, IsNamed
  <2>2. ActiveRunHome'
    BY <1>25 DEF RunInv, HomeSession, ActiveRunHome, Unwind, Goto, LeaveSession, Release,
       IsNamed
  <2>3. RunningIsActive'
    BY <1>25 DEF RunInv, HomeSession, ActiveRunHome, RunningIsActive, TaskPhase,
       AwaitedRun, Unwind, Goto, LeaveSession, Release, IsNamed
  <2>4. TaskPhase'
    BY <1>25 DEF RunInv, HomeSession, TaskPhase, AwaitedRun, Unwind, Goto, LeaveSession,
       Release, IsNamed
  <2>5. AwaitedRun'
    BY <1>25 DEF RunInv, HomeSession, TaskPhase, AwaitedRun, Unwind, Goto, LeaveSession,
       Release, IsNamed
  <2>6. OneAcceptor'
    BY <1>25 DEF RunInv, HomeSession, AwaitedRun, OneAcceptor, Unwind, Goto,
       LeaveSession, Release, IsNamed
  <2> QED
    BY <2>1, <2>2, <2>3, <2>4, <2>5, <2>6 DEF RunInv
<1>26. ASSUME NEW c \in Conns, NEW s \in Named, Attach(c, s) PROVE RunInv'
  BY <1>26, RunInvFrame DEF Attach, connVars, sessionVars, runVars
<1>27. ASSUME NEW c \in Conns, NEW s \in Named, ChatBusy(c, s) PROVE RunInv'
  BY <1>27, RunInvFrame DEF ChatBusy, connVars, sessionVars, runVars
<1>28. ASSUME NEW r \in Runs, Heartbeat(r) PROVE RunInv'
  BY <1>28, RunInvFrame DEF Heartbeat, connVars, sessionVars, runVars
<1>29. CASE UNCHANGED vars
  BY <1>29, RunInvFrame DEF vars
<1> QED
  BY <1>1, <1>2, <1>3, <1>4, <1>5, <1>6, <1>7, <1>8, <1>9, <1>10, <1>11, <1>12, <1>13, <1>14, <1>15, <1>16, <1>17, <1>18, <1>19, <1>20, <1>21, <1>22, <1>23, <1>24, <1>25, <1>26, <1>27, <1>28, <1>29 DEF
     Next, ClientStep, ConnStep, TaskStep

Inv == TypeOK /\ RunInv

(* The inductive invariant holds throughout. *)
LEMMA Invariance == Spec => []Inv
<1>1. Init => Inv
  BY TypeInit, RunInvInit DEF Inv
<1>2. Inv /\ [Next]_vars => Inv'
  BY TypeStep, RunInvStep DEF Inv, RunInv
<1> QED
  BY <1>1, <1>2, PTL DEF Spec

-----------------------------------------------------------------------------
(* Every variable of the server keeps its type. *)
THEOREM TypeCorrect == Spec => []TypeOK
  BY Invariance, PTL DEF Inv

(* At every moment a running run is the active run of its registered       *)
(* session, so no session ever runs two chats, however many connections    *)
(* chat, subscribe, leave and cancel, and whichever trace writes fail.     *)
THEOREM OneRunPerSession == Spec => []RunningIsActive
  BY Invariance, PTL DEF Inv, RunInv

-----------------------------------------------------------------------------
(* Nobody is forgotten *)

(* A subscribed connection is an endpoint of the session. *)
ChannelSubscribed ==
    \A c \in Conns : channel[c] # None => c \in sinks[channel[c]]

(* Only the clean-up of a leaving connection has sessions to visit. *)
NothingEmptied ==
    \A c \in Conns : conn[c] \notin {"detaching", "closing"} => emptied[c] = {}

(* A run without a task is being accepted by its connection. *)
BeingAccepted(X) ==
    \A r \in Runs \ X : state[r] # "none" /\ task[r] = "none" =>
        conn[initiator[r]] = "accepting" /\ awaiting[initiator[r]] = r

NamedRunCovered(X) ==
    \A r \in Runs \ X : state[r] = "running" /\ IsNamed(r) =>
        sinks[sessionId[r]] # {} \/ \E c \in Conns : sessionId[r] \in emptied[c]

(* The snapshot of its own runs that a closing connection takes misses no  *)
(* running run of an ephemeral session.                                    *)
EphemeralRunCovered(X) ==
    \A r \in Runs \ X : state[r] = "running" /\ ~IsNamed(r) =>
        /\ conn[initiator[r]] # "gone"
        /\ conn[initiator[r]] = "sweeping" => r \in own[initiator[r]]

(* The runs in X are excepted.  Here there are none, but the server can be *)
(* stopped in the middle of all this (ServerShutdownProofs).               *)
CoveredBut(X) == ChannelSubscribed /\ NothingEmptied /\ BeingAccepted(X) /\ NamedRunCovered(X)
                    /\ EphemeralRunCovered(X)

(* Before the first chat nobody can be forgotten. *)
LEMMA CoverInit == Init => CoveredBut({})
  BY ConstantsAssumption
     DEF Init, CoveredBut, ChannelSubscribed, NothingEmptied, BeingAccepted, NamedRunCovered,
         EphemeralRunCovered

(* A subscription only adds endpoints. *)
LEMMA SubscribeCovers ==
  ASSUME TypeOK, ChannelSubscribed, NEW c \in Conns, NEW s \in Named,
         Subscribe(c, s) \/ SubscribeUnlessCurrent(c, s)
  PROVE  /\ ChannelSubscribed'
         /\ c \in sinks'[s]
         /\ \A t \in Named : sinks[t] \subseteq sinks'[t]
<1>1. CASE channel[c] = s /\ UNCHANGED <<channel, sinks>>
  BY <1>1, ConstantsAssumption DEF ChannelSubscribed
<1>2. CASE Subscribe(c, s)
  <2>1. channel' = [channel EXCEPT ![c] = s] /\ sinks' = [sinks EXCEPT ![s] = @ \cup {c}]
    BY <1>2 DEF Subscribe
  <2>2. \A t \in Named : sinks'[t] = IF t = s THEN sinks[t] \cup {c} ELSE sinks[t]
    BY <2>1 DEF TypeOK
  <2>3. ASSUME NEW d \in Conns, channel'[d] # None PROVE d \in sinks'[channel'[d]]
    <3>1. CASE d = c
      BY <3>1, <2>1, <2>2 DEF TypeOK
    <3>2. CASE d # c
      <4>1. channel'[d] = channel[d] /\ channel[d] \in Named
        BY <3>2, <2>1, <2>3 DEF TypeOK
      <4> QED
        BY <4>1, <2>2, <2>3 DEF ChannelSubscribed
    <3> QED
      BY <3>1, <3>2
  <2> QED
    BY <2>2, <2>3 DEF ChannelSubscribed
<1> QED
  BY <1>1, <1>2 DEF SubscribeUnlessCurrent

(* Named runs stay covered when endpoints are only added. *)
LEMMA NamedFrame ==
  ASSUME NEW X, NamedRunCovered(X), UNCHANGED <<sessionId, emptied>>,
         \A q \in Runs : state'[q] = "running" => state[q] = "running",
         \A t \in Named : sinks[t] \subseteq sinks'[t]
  PROVE  NamedRunCovered(X)'
<1> SUFFICES ASSUME NEW q \in Runs \ X, state'[q] = "running", sessionId[q] \in Named
             PROVE  sinks'[sessionId[q]] # {} \/ \E c \in Conns : sessionId[q] \in emptied[c]
  BY DEF NamedRunCovered, IsNamed
<1>1. sinks[sessionId[q]] # {} \/ \E c \in Conns : sessionId[q] \in emptied[c]
  BY DEF NamedRunCovered, IsNamed
<1> QED
  BY <1>1

(* Most steps of a task move neither connections nor endpoints. *)
LEMMA CoverFrame ==
  ASSUME NEW X, CoveredBut(X),
         UNCHANGED <<conn, channel, emptied, own, awaiting, sinks, sessionId, initiator>>,
         \A q \in Runs : state'[q] = "running" => state[q] = "running",
         \A q \in Runs : state'[q] # "none" /\ task'[q] = "none"
                            => state[q] # "none" /\ task[q] = "none"
  PROVE  CoveredBut(X)'
<1>1. NamedRunCovered(X)'
  BY NamedFrame DEF CoveredBut
<1>2. ChannelSubscribed' /\ NothingEmptied'
  BY DEF CoveredBut, ChannelSubscribed, NothingEmptied
<1>3. BeingAccepted(X)'
  BY DEF CoveredBut, BeingAccepted
<1>4. EphemeralRunCovered(X)'
  BY DEF CoveredBut, EphemeralRunCovered, IsNamed
<1> QED
  BY <1>1, <1>2, <1>3, <1>4 DEF CoveredBut

(* The connection leaves all its sessions: those it empties it will visit. *)
LEMMA LeaveCovers ==
  ASSUME NEW X, TypeOK, CoveredBut(X), NEW c \in Conns, conn[c] = "reading", LeaveSessions(c),
         UNCHANGED <<state, sessionId>>
  PROVE  ChannelSubscribed' /\ NamedRunCovered(X)'
<1>1. emptied[c] = {}
  BY DEF CoveredBut, NothingEmptied
<1>2. ASSUME NEW d \in Conns, channel'[d] # None PROVE d \in sinks'[channel'[d]]
  <2>1. d # c
    BY <1>2 DEF LeaveSessions, TypeOK
  <2>2. channel'[d] = channel[d] /\ channel[d] \in Named
    BY <1>2, <2>1 DEF LeaveSessions, TypeOK
  <2>3. d \in sinks[channel[d]]
    BY <1>2, <2>2 DEF CoveredBut, ChannelSubscribed
  <2> QED
    BY <2>1, <2>2, <2>3 DEF LeaveSessions
<1>3. ASSUME NEW q \in Runs \ X, state[q] = "running", sessionId[q] \in Named
      PROVE  sinks'[sessionId[q]] # {} \/ \E d \in Conns : sessionId[q] \in emptied'[d]
  <2>1. CASE \E d \in Conns : sessionId[q] \in emptied[d]
    <3>1. PICK d \in Conns : sessionId[q] \in emptied[d]
      BY <2>1
    <3>2. emptied'[d] = emptied[d]
      BY <3>1, <1>1 DEF LeaveSessions, TypeOK
    <3> QED
      BY <3>1, <3>2
  <2>2. CASE sinks[sessionId[q]] = {c}
    BY <1>3, <2>2 DEF LeaveSessions, TypeOK
  <2>3. CASE sinks[sessionId[q]] # {} /\ sinks[sessionId[q]] # {c}
    BY <1>3, <2>3 DEF LeaveSessions, TypeOK
  <2> QED
    BY <1>3, <2>1, <2>2, <2>3 DEF CoveredBut, NamedRunCovered, IsNamed
<1> QED
  BY <1>2, <1>3 DEF ChannelSubscribed, NamedRunCovered, IsNamed

(* Every step keeps the runs covered, if trace writes do not raise.        *)
LEMMA CoverStep ==
  ASSUME NEW X, TraceMayFail = FALSE
  PROVE  Inv /\ CoveredBut(X) /\ [Next]_vars => CoveredBut(X)'
<1> SUFFICES ASSUME Inv, CoveredBut(X), [Next]_vars PROVE CoveredBut(X)'
  OBVIOUS
<1>0. /\ TypeOK /\ HomeSession /\ ActiveRunHome /\ RunningIsActive /\ TaskPhase
      /\ AwaitedRun /\ OneAcceptor
      /\ ChannelSubscribed /\ NothingEmptied /\ BeingAccepted(X) /\ NamedRunCovered(X)
      /\ EphemeralRunCovered(X)
  BY DEF Inv, RunInv, CoveredBut
<1>1. ASSUME NEW c \in Conns, NEW s \in Named, Attach(c, s) \/ ChatBusy(c, s)
      PROVE  CoveredBut(X)'
  <2>1. /\ SubscribeUnlessCurrent(c, s) \/ Subscribe(c, s)
        /\ UNCHANGED <<conn, emptied, own, awaiting, state, sessionId, initiator, task>>
    BY <1>1 DEF Attach, ChatBusy
  <2>2. ChannelSubscribed' /\ \A t \in Named : sinks[t] \subseteq sinks'[t]
    BY <1>0, <2>1, SubscribeCovers
  <2>3. NamedRunCovered(X)'
    BY <1>0, <2>1, <2>2, NamedFrame
  <2>4. NothingEmptied' /\ BeingAccepted(X)' /\ EphemeralRunCovered(X)'
    BY <1>0, <2>1 DEF NothingEmptied, BeingAccepted, EphemeralRunCovered, IsNamed
  <2> QED
    BY <2>2, <2>3, <2>4 DEF CoveredBut
<1>2. ASSUME NEW c \in Conns, NEW s \in Named, NEW r \in Runs, StartChat(c, s, r)
      PROVE  CoveredBut(X)'
  <2>1. /\ ChannelSubscribed'
        /\ c \in sinks'[s]
        /\ \A t \in Named : sinks[t] \subseteq sinks'[t]
    BY <1>0, <1>2, SubscribeCovers DEF StartChat
  <2>2. NamedRunCovered(X)'
    <3> SUFFICES ASSUME NEW q \in Runs \ X, state'[q] = "running", sessionId'[q] \in Named
                 PROVE  \/ sinks'[sessionId'[q]] # {}
                        \/ \E d \in Conns : sessionId'[q] \in emptied'[d]
      BY DEF NamedRunCovered, IsNamed
    <3>1. CASE q = r
      BY <1>0, <1>2, <2>1, <3>1 DEF StartChat, CreateRun, TypeOK
    <3>2. CASE q # r
      <4>1. state[q] = "running" /\ sessionId'[q] = sessionId[q] /\ emptied' = emptied
        BY <1>0, <1>2, <3>2 DEF StartChat, CreateRun, TypeOK
      <4> QED
        BY <1>0, <2>1, <4>1 DEF NamedRunCovered, IsNamed
    <3> QED
      BY <3>1, <3>2
  <2>3. NothingEmptied'
    BY <1>0, <1>2 DEF StartChat, CreateRun, Reading, TypeOK, NothingEmptied
  <2>4. BeingAccepted(X)'
    BY <1>0, <1>2 DEF StartChat, CreateRun, Reading, TypeOK, BeingAccepted, HomeSession
  <2>5. EphemeralRunCovered(X)'
    BY <1>0, <1>2
       DEF StartChat, CreateRun, Reading, TypeOK, EphemeralRunCovered, IsNamed, HomeSession
  <2> QED
    BY <2>1, <2>2, <2>3, <2>4, <2>5 DEF CoveredBut
<1>3. ASSUME NEW c \in Conns, NEW r \in Runs, StartEphemeralChat(c, r) PROVE CoveredBut(X)'
  <2>1. ChannelSubscribed'
    BY <1>0, <1>3 DEF StartEphemeralChat, CreateRun, ChannelSubscribed
  <2>2. NamedRunCovered(X)'
    <3> SUFFICES ASSUME NEW q \in Runs \ X, state'[q] = "running", sessionId'[q] \in Named
                 PROVE  \/ sinks'[sessionId'[q]] # {}
                        \/ \E d \in Conns : sessionId'[q] \in emptied'[d]
      BY DEF NamedRunCovered, IsNamed
    <3>1. q # r
      BY <1>0, <1>3, ConstantsAssumption DEF StartEphemeralChat, CreateRun, TypeOK
    <3>2. state[q] = "running" /\ sessionId'[q] = sessionId[q] /\ emptied' = emptied
             /\ sinks' = sinks
      BY <1>0, <1>3, <3>1 DEF StartEphemeralChat, CreateRun, TypeOK
    <3> QED
      BY <1>0, <3>2 DEF NamedRunCovered, IsNamed
  <2>3. NothingEmptied'
    BY <1>0, <1>3 DEF StartEphemeralChat, CreateRun, Reading, TypeOK, NothingEmptied
  <2>4. BeingAccepted(X)'
    BY <1>0, <1>3
       DEF StartEphemeralChat, CreateRun, Reading, TypeOK, BeingAccepted, HomeSession
  <2>5. EphemeralRunCovered(X)'
    BY <1>0, <1>3
       DEF StartEphemeralChat, CreateRun, Reading, TypeOK, EphemeralRunCovered, IsNamed,
           HomeSession
  <2> QED
    BY <2>1, <2>2, <2>3, <2>4, <2>5 DEF CoveredBut
<1>4. ASSUME NEW c \in Conns, CreateTask(c) PROVE CoveredBut(X)'
  <2>1. UNCHANGED <<channel, sinks, emptied, own, state, sessionId, initiator>>
    BY <1>4 DEF CreateTask, sessionVars
  <2>2. ChannelSubscribed' /\ NamedRunCovered(X)'
    BY <1>0, <2>1, NamedFrame DEF ChannelSubscribed
  <2>3. NothingEmptied'
    BY <1>0, <1>4, <2>1 DEF CreateTask, TypeOK, NothingEmptied
  <2>4. BeingAccepted(X)'
    BY <1>0, <1>4, <2>1 DEF CreateTask, TypeOK, BeingAccepted, AwaitedRun, HomeSession
  <2>5. EphemeralRunCovered(X)'
    BY <1>0, <1>4, <2>1 DEF CreateTask, TypeOK, EphemeralRunCovered, IsNamed, HomeSession
  <2> QED
    BY <2>2, <2>3, <2>4, <2>5 DEF CoveredBut
<1>5. ASSUME NEW c \in Conns, Detach(c) \/ Disconnect(c) PROVE CoveredBut(X)'
  <2>1. /\ conn[c] = "reading" /\ LeaveSessions(c)
        /\ conn' = [conn EXCEPT ![c] = "detaching"] \/ conn' = [conn EXCEPT ![c] = "closing"]
        /\ UNCHANGED <<own, awaiting, state, sessionId, initiator, task>>
    BY <1>5 DEF Detach, Disconnect, Reading
  <2>2. ChannelSubscribed' /\ NamedRunCovered(X)'
    BY <1>0, <2>1, LeaveCovers
  <2>3. NothingEmptied'
    <3> SUFFICES ASSUME NEW d \in Conns, conn'[d] \notin {"detaching", "closing"}
                 PROVE  emptied'[d] = {}
      BY DEF NothingEmptied
    <3>1. d # c
      BY <1>0, <2>1 DEF TypeOK
    <3>2. conn'[d] = conn[d] /\ emptied'[d] = emptied[d]
      BY <1>0, <2>1, <3>1 DEF TypeOK, LeaveSessions
    <3> QED
      BY <1>0, <3>2 DEF NothingEmptied
  <2>4. BeingAccepted(X)'
    BY <1>0, <2>1 DEF TypeOK, BeingAccepted, AwaitedRun, HomeSession
  <2>5. EphemeralRunCovered(X)'
    BY <1>0, <2>1 DEF TypeOK, EphemeralRunCovered, IsNamed, HomeSession
  <2> QED
    BY <2>2, <2>3, <2>4, <2>5 DEF CoveredBut
<1>6. ASSUME NEW c \in Conns, NEW s \in Named, OnSessionEmpty(c, s) PROVE CoveredBut(X)'
  <2>1. UNCHANGED <<conn, channel, own, sinks, sessionId, initiator, task>>
    BY <1>6 DEF OnSessionEmpty, sessionVars
  <2>2. ASSUME NEW q \in Runs, state'[q] = "running"
        PROVE  state[q] = "running" /\ sessionId[q] # s
    <3>1. CASE IsActive(activeRun[s])
      <4>1. state' = [state EXCEPT ![activeRun[s]] = "cancelled"]
        BY <1>6, <3>1 DEF OnSessionEmpty, CancelRun
      <4>2. q # activeRun[s] /\ state[q] = "running"
        BY <1>0, <2>2, <4>1 DEF TypeOK
      <4> QED
        BY <1>0, <4>2 DEF RunningIsActive
    <3>2. CASE ~IsActive(activeRun[s])
      <4>1. state' = state
        BY <1>6, <3>2 DEF OnSessionEmpty
      <4>2. q # None
        BY ConstantsAssumption
      <4> QED
        BY <1>0, <2>2, <3>2, <4>1, <4>2 DEF RunningIsActive, IsActive
    <3> QED
      BY <3>1, <3>2
  <2>3. \A d \in Conns : emptied[d] \ {s} \subseteq emptied'[d] /\ emptied'[d] \subseteq emptied[d]
    BY <1>0, <1>6 DEF OnSessionEmpty, TypeOK
  <2>4. NamedRunCovered(X)'
    <3> SUFFICES ASSUME NEW q \in Runs \ X, state'[q] = "running", sessionId[q] \in Named
                 PROVE  \/ sinks[sessionId[q]] # {}
                        \/ \E d \in Conns : sessionId[q] \in emptied'[d]
      BY <2>1 DEF NamedRunCovered, IsNamed
    <3>1. state[q] = "running" /\ sessionId[q] # s
      BY <2>2
    <3>2. sinks[sessionId[q]] # {} \/ \E d \in Conns : sessionId[q] \in emptied[d]
      BY <1>0, <3>1 DEF NamedRunCovered, IsNamed
    <3> QED
      BY <2>3, <3>1, <3>2
  <2>5. ChannelSubscribed' /\ NothingEmptied'
    BY <1>0, <2>1, <2>3 DEF ChannelSubscribed, NothingEmptied
  <2>6. /\ \A q \in Runs : state'[q] # "none" => state[q] # "none"
        /\ \A d \in Conns : conn[d] = "accepting" => awaiting'[d] = awaiting[d]
    BY <1>0, <1>6 DEF OnSessionEmpty, CancelRun, IsActive, TypeOK
  <2>7. BeingAccepted(X)'
    BY <1>0, <2>1, <2>6 DEF BeingAccepted, HomeSession
  <2>8. EphemeralRunCovered(X)'
    BY <1>0, <2>1, <2>2 DEF EphemeralRunCovered, IsNamed
  <2> QED
    BY <2>4, <2>5, <2>7, <2>8 DEF CoveredBut
<1>7. ASSUME NEW c \in Conns, DetachDone(c) PROVE CoveredBut(X)'
  <2>1. /\ emptied' = emptied
        /\ UNCHANGED <<channel, awaiting, sinks, state, sessionId, initiator, task>>
    BY <1>0, <1>7 DEF DetachDone, AfterDetach, TypeOK
  <2>2. ChannelSubscribed' /\ NamedRunCovered(X)'
    BY <1>0, <2>1, NamedFrame DEF ChannelSubscribed
  <2>3. NothingEmptied'
    BY <1>0, <1>7, <2>1 DEF DetachDone, AfterDetach, TypeOK, NothingEmptied
  <2>4. BeingAccepted(X)'
    BY <1>0, <1>7, <2>1
       DEF DetachDone, AfterDetach, TypeOK, BeingAccepted, AwaitedRun, HomeSession
  <2>5. EphemeralRunCovered(X)'
    <3> SUFFICES ASSUME NEW q \in Runs \ X, state[q] = "running", ~IsNamed(q)
                 PROVE  /\ conn'[initiator[q]] # "gone"
                        /\ conn'[initiator[q]] = "sweeping" => q \in own'[initiator[q]]
      BY <2>1 DEF EphemeralRunCovered, IsNamed
    <3>1. /\ initiator[q] \in Conns
          /\ conn[initiator[q]] # "gone"
          /\ conn[initiator[q]] = "sweeping" => q \in own[initiator[q]]
      BY <1>0 DEF EphemeralRunCovered, HomeSession
    <3>2. CASE initiator[q] # c
      BY <1>0, <1>7, <3>1, <3>2 DEF DetachDone, AfterDetach, TypeOK
    <3>3. CASE initiator[q] = c /\ conn[c] = "detaching"
      BY <1>0, <1>7, <3>3 DEF DetachDone, AfterDetach, TypeOK
    <3>4. CASE initiator[q] = c /\ conn[c] = "closing"
      <4>1. task[q] # "none"
        BY <1>0, <3>4 DEF BeingAccepted
      <4>2. task[q] # "done"
        BY <1>0 DEF TaskPhase
      <4>3. own' = [own EXCEPT ![c] = {r \in Runs : /\ initiator[r] = c
                                                    /\ task[r] \notin {"none", "done"}}]
        BY <1>7, <3>4 DEF DetachDone, AfterDetach
      <4>4. q \in own'[c]
        BY <1>0, <3>4, <4>1, <4>2, <4>3 DEF TypeOK
      <4>5. conn' = [conn EXCEPT ![c] = "sweeping"]
        BY <1>7, <3>4 DEF DetachDone, AfterDetach
      <4> QED
        BY <1>0, <3>4, <4>4, <4>5 DEF TypeOK
    <3> QED
      BY <1>7, <3>2, <3>3, <3>4 DEF DetachDone, AfterDetach
  <2> QED
    BY <2>2, <2>3, <2>4, <2>5 DEF CoveredBut
<1>8. ASSUME NEW c \in Conns, NEW r \in Runs, CancelRunIfUnobserved(c, r) PROVE CoveredBut(X)'
  <2>1. UNCHANGED <<conn, channel, emptied, sinks, sessionId, initiator, task>>
    BY <1>8 DEF CancelRunIfUnobserved, sessionVars
  <2>2. \A q \in Runs : /\ state'[q] = "running" => state[q] = "running"
                        /\ state'[q] # "none" => state[q] # "none"
    BY <1>0, <1>8 DEF CancelRunIfUnobserved, CancelRun, IsActive, TypeOK
  <2>3. ChannelSubscribed' /\ NothingEmptied' /\ NamedRunCovered(X)'
    BY <1>0, <2>1, <2>2, NamedFrame DEF ChannelSubscribed, NothingEmptied
  <2>4. \A d \in Conns : conn[d] = "accepting" => awaiting'[d] = awaiting[d]
    BY <1>0, <1>8 DEF CancelRunIfUnobserved, CancelRun, TypeOK
  <2>5. BeingAccepted(X)'
    BY <1>0, <2>1, <2>2, <2>4 DEF BeingAccepted, HomeSession
  <2>6. EphemeralRunCovered(X)'
    <3> SUFFICES ASSUME NEW q \in Runs \ X, state'[q] = "running", ~IsNamed(q)
                 PROVE  /\ conn[initiator[q]] # "gone"
                        /\ conn[initiator[q]] = "sweeping" => q \in own'[initiator[q]]
      BY <2>1 DEF EphemeralRunCovered, IsNamed
    <3>1. q # r
      <4>1. CASE IsActive(r) /\ Unobserved(r)
        BY <1>0, <1>8, <4>1 DEF CancelRunIfUnobserved, CancelRun, TypeOK
      <4>2. CASE ~(IsActive(r) /\ Unobserved(r))
        <5>1. q # None
          BY ConstantsAssumption
        <5> QED
          BY <1>8, <2>2, <4>2, <5>1 DEF CancelRunIfUnobserved, IsActive, Unobserved
      <4> QED
        BY <4>1, <4>2
    <3>2. \A d \in Conns : own'[d] = own[d] \/ own'[d] = own[d] \ {r}
      BY <1>0, <1>8 DEF CancelRunIfUnobserved, TypeOK
    <3> QED
      BY <1>0, <2>2, <3>1, <3>2 DEF EphemeralRunCovered, HomeSession
  <2> QED
    BY <2>3, <2>5, <2>6 DEF CoveredBut
<1>9. ASSUME NEW c \in Conns, ConnectionClosed(c) PROVE CoveredBut(X)'
  <2>1. UNCHANGED <<channel, emptied, own, awaiting, sinks, state, sessionId, initiator, task>>
    BY <1>9 DEF ConnectionClosed, sessionVars
  <2>2. ChannelSubscribed' /\ NamedRunCovered(X)'
    BY <1>0, <2>1, NamedFrame DEF ChannelSubscribed
  <2>3. NothingEmptied' /\ BeingAccepted(X)'
    BY <1>0, <1>9, <2>1
       DEF ConnectionClosed, TypeOK, NothingEmptied, BeingAccepted, HomeSession
  <2>4. EphemeralRunCovered(X)'
    BY <1>0, <1>9, <2>1
       DEF ConnectionClosed, TypeOK, EphemeralRunCovered, IsNamed, HomeSession
  <2> QED
    BY <2>2, <2>3, <2>4 DEF CoveredBut
<1>10. ASSUME NEW c \in Conns, RunCancelled(c) PROVE CoveredBut(X)'
  <2>1. UNCHANGED <<conn, channel, emptied, own, sinks, state, sessionId, initiator, task>>
    BY <1>10 DEF RunCancelled
  <2>2. conn[c] # "accepting"
    BY <1>10 DEF RunCancelled, CancelLanded
  <2>3. ChannelSubscribed' /\ NothingEmptied' /\ NamedRunCovered(X)'
    BY <1>0, <2>1, NamedFrame DEF ChannelSubscribed, NothingEmptied
  <2>4. BeingAccepted(X)'
    BY <1>0, <1>10, <2>1, <2>2 DEF RunCancelled, TypeOK, BeingAccepted, HomeSession
  <2>5. EphemeralRunCovered(X)'
    BY <1>0, <2>1 DEF EphemeralRunCovered, IsNamed
  <2> QED
    BY <2>3, <2>4, <2>5 DEF CoveredBut
<1>11. ASSUME NEW r \in Runs, ExecuteChat(r) PROVE CoveredBut(X)'
  <2>1. UNCHANGED <<conn, emptied, own, awaiting, state, sessionId, initiator>>
    BY <1>11 DEF ExecuteChat
  <2>2. ChannelSubscribed' /\ \A t \in Named : sinks[t] \subseteq sinks'[t]
    <3>1. CASE IsNamed(r)
      <4>1. initiator[r] \in Conns /\ sessionId[r] \in Named
        BY <1>0, <1>11, <3>1 DEF ExecuteChat, HomeSession, IsNamed
      <4> QED
        BY <1>0, <1>11, <3>1, <4>1, SubscribeCovers DEF ExecuteChat
    <3>2. CASE ~IsNamed(r)
      BY <1>0, <1>11, <3>2 DEF ExecuteChat, ChannelSubscribed
    <3> QED
      BY <3>1, <3>2
  <2>3. NamedRunCovered(X)'
    BY <1>0, <2>1, <2>2, NamedFrame
  <2>4. \A q \in Runs : task'[q] = "none" => task[q] = "none"
    BY <1>0, <1>11 DEF ExecuteChat, Goto, TypeOK
  <2>5. NothingEmptied' /\ BeingAccepted(X)' /\ EphemeralRunCovered(X)'
    BY <1>0, <2>1, <2>4 DEF NothingEmptied, BeingAccepted, EphemeralRunCovered, IsNamed
  <2> QED
    BY <2>2, <2>3, <2>5 DEF CoveredBut
<1>12. ASSUME NEW r \in Runs, TaskStep(r) \/ Heartbeat(r), ~ExecuteChat(r) PROVE CoveredBut(X)'
  <2>1. UNCHANGED <<conn, channel, emptied, own, awaiting, sinks, sessionId, initiator>>
    BY <1>12
       DEF TaskStep, ExecuteCancelled, NeverStarted, AgentReturns, AgentRaises,
           RunCompleted, RunInterrupted, FinishInterrupted, OutcomeNotRecorded,
           TerminalNotice, ExecuteDone, CancelDelivered, Unwind, Heartbeat
  <2>2. \A q \in Runs : /\ state'[q] # state[q] => state'[q] # "running" /\ state[q] = "running"
                        /\ task'[q] # task[q] => task'[q] # "none"
    <3>1. CASE ExecuteCancelled(r)
      BY <1>0, <3>1 DEF ExecuteCancelled, At, Goto, TypeOK, TaskPhase
    <3>2. CASE NeverStarted(r)
      BY <1>0, <3>2 DEF NeverStarted, Goto, TypeOK, TaskPhase
    <3>3. CASE AgentReturns(r)
      BY <1>0, <3>3 DEF AgentReturns, At, Goto, TypeOK, TaskPhase
    <3>4. CASE AgentRaises(r)
      BY <1>0, <3>4 DEF AgentRaises, At, Fail, StopHeartbeat, Goto, TypeOK, TaskPhase
    <3>5. CASE RunCompleted(r)
      BY <1>0, <3>5 DEF RunCompleted, At, StopHeartbeat, Goto, TypeOK, TaskPhase
    <3>6. CASE RunInterrupted(r)
      BY <1>0, <3>6 DEF RunInterrupted, At, Goto, TypeOK, TaskPhase
    <3>7. CASE FinishInterrupted(r)
      BY <1>0, <3>7 DEF FinishInterrupted, At, StopHeartbeat, Goto, TypeOK, TaskPhase
    <3>8. CASE OutcomeNotRecorded(r)
      BY <1>0, <3>8 DEF OutcomeNotRecorded, At, Fail, StopHeartbeat, Goto, TypeOK, TaskPhase
    <3>9. CASE TerminalNotice(r)
      BY <1>0, <3>9 DEF TerminalNotice, At, Goto, TypeOK, TaskPhase
    <3>10. CASE ExecuteDone(r)
      BY <1>0, <3>10 DEF ExecuteDone, At, Goto, TypeOK, TaskPhase
    <3>11. CASE CancelDelivered(r)
      BY <1>0, <3>11 DEF CancelDelivered, StopHeartbeat, Goto, TypeOK, TaskPhase
    <3>12. CASE Unwind(r)
      BY <1>0, <3>12 DEF Unwind, Goto, TypeOK, TaskPhase
    <3>13. CASE Heartbeat(r)
      BY <1>0, <3>13 DEF Heartbeat, TypeOK, TaskPhase
    <3> QED
      BY <1>12, <3>1, <3>2, <3>3, <3>4, <3>5, <3>6, <3>7, <3>8, <3>9, <3>10, <3>11, <3>12, <3>13 DEF TaskStep
  <2> QED
    BY <2>1, <2>2, CoverFrame
<1>13. CASE UNCHANGED vars
  BY <1>13, CoverFrame DEF vars
<1>14. /\ \A c \in Conns, s \in Named : ~ChatNotRecorded(c, s)
       /\ \A c \in Conns : ~CancelNotRecorded(c)
  BY DEF ChatNotRecorded, CancelNotRecorded
<1> QED
  BY <1>1, <1>2, <1>3, <1>4, <1>5, <1>6, <1>7, <1>8, <1>9, <1>10, <1>11, <1>12, <1>13,
     <1>14 DEF Next, ClientStep, ConnStep

(* The task of a run that this connection asked for in the session began.  *)
Began(c, s) ==
    \E q \in Runs : initiator[q] = c /\ sessionId[q] = s /\ task[q] \notin {"none", "scheduled"}

(* Only the first step of a task subscribes an endpoint that is dead.      *)
DeadEndpoints == \A s \in Named : \A c \in sinks[s] : Dropped(c) => Began(c, s)

(* That stays so where no connection drops, no dead endpoint is added and  *)
(* no task goes back.                                                      *)
LEMMA DeadFrame ==
  ASSUME DeadEndpoints,
         \A s \in Named : \A c \in sinks'[s] : Dropped(c)' => c \in sinks[s] /\ Dropped(c),
         \A q \in Runs : task[q] \notin {"none", "scheduled"} =>
             /\ initiator'[q] = initiator[q] /\ sessionId'[q] = sessionId[q]
             /\ task'[q] \notin {"none", "scheduled"}
  PROVE  DeadEndpoints'
<1> SUFFICES ASSUME NEW s \in Named, NEW c \in sinks'[s], Dropped(c)' PROVE Began(c, s)'
  BY DEF DeadEndpoints
<1>1. PICK q \in Runs : initiator[q] = c /\ sessionId[q] = s /\ task[q] \notin {"none", "scheduled"}
  BY DEF DeadEndpoints, Began
<1> QED
  BY <1>1 DEF Began

(* The step of a connection adds its own endpoint, if any, while it reads. *)
LEMMA DeadConnStep ==
  ASSUME TypeOK, RunInv, DeadEndpoints, NEW c \in Conns, ClientStep(c) \/ ConnStep(c)
  PROVE  DeadEndpoints'
<1>1. \A q \in Runs : task[q] \notin {"none", "scheduled"} =>
          /\ initiator'[q] = initiator[q] /\ sessionId'[q] = sessionId[q]
          /\ task'[q] \notin {"none", "scheduled"}
  <2>1. CASE ClientStep(c)
    BY <2>1 DEF RunInv, HomeSession, TypeOK, ClientStep, Attach, ChatBusy, ChatNotRecorded,
                StartChat, StartEphemeralChat, CreateRun, Detach, Disconnect
  <2>2. CASE CreateTask(c)
    BY <2>2 DEF RunInv, AwaitedRun, TypeOK, CreateTask
  <2>3. CASE ConnStep(c) /\ ~CreateTask(c)
    BY <2>3 DEF ConnStep, OnSessionEmpty, DetachDone, CancelRunIfUnobserved, ConnectionClosed,
                RunCancelled, CancelNotRecorded
  <2> QED
    BY <2>1, <2>2, <2>3
<1>2. \A d \in Conns \ {c} : conn'[d] = conn[d]
  BY DEF TypeOK, ClientStep, Attach, ChatBusy, ChatNotRecorded, StartChat, StartEphemeralChat,
         CreateRun, Detach, Disconnect, ConnStep, CreateTask, OnSessionEmpty, DetachDone,
         AfterDetach, CancelRunIfUnobserved, ConnectionClosed, RunCancelled, CancelNotRecorded
<1>3. /\ \A s \in Named : sinks'[s] \subseteq sinks[s] \cup {c}
      /\ \A s \in Named : c \in sinks'[s] /\ Dropped(c)' => c \in sinks[s] /\ Dropped(c)
  <2>1. CASE ClientStep(c) /\ ~Disconnect(c)
    <3>1. ~Dropped(c)'
      BY <2>1 DEF TypeOK, ClientStep, Reading, Attach, ChatBusy, ChatNotRecorded, StartChat,
                  StartEphemeralChat, CreateRun, Detach, Dropped
    <3>2. \A s \in Named : sinks'[s] \subseteq sinks[s] \cup {c}
      <4>1. ASSUME NEW t \in Named, Subscribe(c, t) \/ SubscribeUnlessCurrent(c, t)
            PROVE  \A s \in Named : sinks'[s] \subseteq sinks[s] \cup {c}
        <5>1. CASE sinks' = sinks
          BY <5>1
        <5>2. CASE sinks' = [sinks EXCEPT ![t] = @ \cup {c}]
          BY <5>2 DEF TypeOK
        <5> QED
          BY <4>1, <5>1, <5>2 DEF Subscribe, SubscribeUnlessCurrent
      <4>2. CASE UNCHANGED sinks \/ Detach(c)
        BY <4>2 DEF Detach, LeaveSessions
      <4> QED
        BY <2>1, <4>1, <4>2
           DEF ClientStep, Attach, ChatBusy, ChatNotRecorded, StartChat, StartEphemeralChat
    <3> QED
      BY <3>1, <3>2
  <2>2. CASE Disconnect(c)
    BY <2>2 DEF Disconnect, LeaveSessions
  <2>3. CASE ConnStep(c)
    <3>1. sinks' = sinks
      BY <2>3 DEF ConnStep, CreateTask, OnSessionEmpty, DetachDone, CancelRunIfUnobserved,
                  ConnectionClosed, RunCancelled, CancelNotRecorded
    <3>2. Dropped(c)' => Dropped(c)
      BY <2>3 DEF TypeOK, Dropped, ConnStep, CreateTask, OnSessionEmpty, DetachDone, AfterDetach,
                  CancelRunIfUnobserved, ConnectionClosed, RunCancelled, CancelNotRecorded
    <3> QED
      BY <3>1, <3>2
  <2> QED
    BY <2>1, <2>2, <2>3
<1>4. \A s \in Named : \A d \in sinks'[s] : Dropped(d)' => d \in sinks[s] /\ Dropped(d)
  <2> SUFFICES ASSUME NEW s \in Named, NEW d \in sinks'[s], Dropped(d)'
               PROVE  d \in sinks[s] /\ Dropped(d)
    OBVIOUS
  <2>1. CASE d = c
    BY <1>3, <2>1
  <2>2. CASE d # c
    BY <1>2, <1>3, <2>2 DEF TypeOK, Dropped
  <2> QED
    BY <2>1, <2>2
<1> QED
  BY <1>1, <1>4, DeadFrame

(* The first step of a task may add a dead endpoint: its own connection's. *)
LEMMA DeadTaskStep ==
  ASSUME TypeOK, RunInv, DeadEndpoints, NEW r \in Runs, TaskStep(r) \/ Heartbeat(r)
  PROVE  DeadEndpoints'
<1>1. UNCHANGED <<conn, initiator, sessionId>>
  BY DEF TaskStep, ExecuteChat, ExecuteCancelled, NeverStarted, AgentReturns, AgentRaises,
         RunCompleted, RunInterrupted, FinishInterrupted, OutcomeNotRecorded, TerminalNotice,
         ExecuteDone, CancelDelivered, Unwind, Heartbeat
<1>2. \A q \in Runs : task[q] \notin {"none", "scheduled"} => task'[q] \notin {"none", "scheduled"}
  BY DEF TypeOK, TaskStep, ExecuteChat, ExecuteCancelled, NeverStarted, AgentReturns, AgentRaises,
         RunCompleted, RunInterrupted, FinishInterrupted, OutcomeNotRecorded, TerminalNotice,
         ExecuteDone, CancelDelivered, Unwind, Heartbeat, Goto, Fail, StopHeartbeat
<1>3. CASE ExecuteChat(r) /\ IsNamed(r) /\ channel[initiator[r]] # sessionId[r]
  <2>1. /\ sinks' = [sinks EXCEPT ![sessionId[r]] = @ \cup {initiator[r]}]
        /\ task' = [task EXCEPT ![r] = "agent"]
    BY <1>3 DEF ExecuteChat, SubscribeUnlessCurrent, Subscribe, Goto
  <2> SUFFICES ASSUME NEW s \in Named, NEW c \in sinks'[s], Dropped(c)' PROVE Began(c, s)'
    BY DEF DeadEndpoints
  <2>2. CASE c \in sinks[s]
    <3>1. PICK q \in Runs : /\ initiator[q] = c /\ sessionId[q] = s
                            /\ task[q] \notin {"none", "scheduled"}
      BY <1>1, <2>2 DEF DeadEndpoints, Began, Dropped
    <3> QED
      BY <1>1, <1>2, <3>1 DEF Began
  <2>3. CASE c \notin sinks[s]
    <3>1. c = initiator[r] /\ s = sessionId[r]
      BY <2>1, <2>3 DEF TypeOK
    <3>2. task'[r] = "agent"
      BY <2>1 DEF TypeOK
    <3> QED
      BY <1>1, <3>1, <3>2 DEF Began
  <2> QED
    BY <2>2, <2>3
<1>4. CASE ~(ExecuteChat(r) /\ IsNamed(r) /\ channel[initiator[r]] # sessionId[r])
  <2>1. sinks' = sinks
    BY <1>4 DEF TaskStep, ExecuteChat, ExecuteCancelled, NeverStarted, AgentReturns, AgentRaises,
                RunCompleted, RunInterrupted, FinishInterrupted, OutcomeNotRecorded,
                TerminalNotice, ExecuteDone, CancelDelivered, Unwind, Heartbeat,
                SubscribeUnlessCurrent
  <2> QED
    BY <1>1, <1>2, <2>1, DeadFrame DEF Dropped
<1> QED
  BY <1>3, <1>4

(* Every step keeps it, trace writes that raise included.                  *)
LEMMA DeadStep == Inv /\ DeadEndpoints /\ [Next]_vars => DeadEndpoints'
<1> SUFFICES ASSUME Inv, DeadEndpoints, [Next]_vars PROVE DeadEndpoints'
  OBVIOUS
<1>1. CASE UNCHANGED vars
  BY <1>1, DeadFrame DEF vars, Dropped
<1> QED
  BY <1>1, DeadConnStep, DeadTaskStep DEF Inv, Next

(* If no trace write fails, no running run is ever left without a client   *)
(* that sees it or a connection that will cancel it: not by detaching from *)
(* several sessions at once, not while its accept response is on the way,  *)
(* not when its connection goes while the run starts.  The exception is a  *)
(* named session that a chat of a dropped connection subscribed again.     *)
THEOREM RunsAreCovered ==
  ASSUME TraceMayFail = FALSE
  PROVE  Spec => []NoOrphanedRun
<1>1. Init => CoveredBut({}) /\ DeadEndpoints
  BY CoverInit DEF Init, DeadEndpoints
<1>2. Inv /\ CoveredBut({}) /\ DeadEndpoints /\ [Next]_vars => CoveredBut({})' /\ DeadEndpoints'
  BY CoverStep, DeadStep
<1>3. CoveredBut({}) /\ DeadEndpoints => NoOrphanedRun
  <2> SUFFICES ASSUME CoveredBut({}), DeadEndpoints, NEW r \in Runs, state[r] = "running",
                      IsNamed(r)
               PROVE  Attended(r) \/ SubscribedWhenDead(sessionId[r])
    BY DEF CoveredBut, EphemeralRunCovered, NoOrphanedRun
  <2>1. CASE \E c \in Conns : sessionId[r] \in emptied[c]
    BY <2>1 DEF Attended
  <2>2. CASE sinks[sessionId[r]] # {}
    <3>1. PICK c \in sinks[sessionId[r]] : TRUE
      BY <2>2
    <3>2. CASE Dropped(c)
      BY <3>1, <3>2 DEF DeadEndpoints, Began, SubscribedWhenDead, IsNamed
    <3> QED
      BY <3>1, <3>2 DEF Attended
  <2> QED
    BY <2>1, <2>2 DEF CoveredBut, NamedRunCovered
<1> QED
  BY <1>1, <1>2, <1>3, Invariance, PTL DEF Spec

-----------------------------------------------------------------------------
(* Ends are final *)

(* No step changes a terminal state. *)
LEMMA TerminalStep ==
  ASSUME Inv, [Next]_vars, NEW q \in Runs, state[q] \in Terminal
  PROVE  state'[q] = state[q]
<1>0. TypeOK /\ TaskPhase
  BY DEF Inv, RunInv
<1>1. ASSUME NEW c \in Conns, ClientStep(c) PROVE state'[q] = state[q]
  BY <1>0, <1>1
     DEF ClientStep, Attach, ChatBusy, ChatNotRecorded, StartChat, StartEphemeralChat,
         CreateRun, Detach, Disconnect, TypeOK
<1>2. ASSUME NEW c \in Conns, NEW r \in Runs, IsActive(r), CancelRun(c, r)
      PROVE  state'[q] = state[q]
  BY <1>0, <1>2 DEF IsActive, CancelRun, TypeOK
<1>3. ASSUME NEW c \in Conns, ConnStep(c) PROVE state'[q] = state[q]
  <2>1. CASE UNCHANGED state
    BY <2>1
  <2>2. ASSUME NEW s \in Named, OnSessionEmpty(c, s), ~UNCHANGED state
        PROVE  state'[q] = state[q]
    <3>1. IsActive(activeRun[s]) /\ CancelRun(c, activeRun[s])
      BY <2>2 DEF OnSessionEmpty
    <3>2. activeRun[s] \in Runs
      BY <1>0, <3>1 DEF IsActive, TypeOK
    <3> QED
      BY <1>2, <3>1, <3>2
  <2>3. ASSUME NEW r \in Runs, CancelRunIfUnobserved(c, r), ~UNCHANGED state
        PROVE  state'[q] = state[q]
    BY <1>2, <2>3 DEF CancelRunIfUnobserved
  <2> QED
    BY <1>3, <2>1, <2>2, <2>3
       DEF ConnStep, CreateTask, DetachDone, ConnectionClosed, RunCancelled, CancelNotRecorded
<1>4. ASSUME NEW r \in Runs, TaskStep(r) \/ Heartbeat(r) PROVE state'[q] = state[q]
  <2>1. CASE ExecuteChat(r)
    BY <1>0, <2>1 DEF ExecuteChat, At, TypeOK, TaskPhase
  <2>2. CASE ExecuteCancelled(r)
    BY <1>0, <2>2 DEF ExecuteCancelled, At, TypeOK, TaskPhase
  <2>3. CASE NeverStarted(r)
    BY <1>0, <2>3 DEF NeverStarted, TypeOK, TaskPhase
  <2>4. CASE AgentReturns(r)
    BY <1>0, <2>4 DEF AgentReturns, At, TypeOK, TaskPhase
  <2>5. CASE AgentRaises(r)
    BY <1>0, <2>5 DEF AgentRaises, At, Fail, TypeOK, TaskPhase
  <2>6. CASE RunCompleted(r)
    BY <1>0, <2>6 DEF RunCompleted, At, TypeOK, TaskPhase
  <2>7. CASE RunInterrupted(r)
    BY <1>0, <2>7 DEF RunInterrupted, At, TypeOK, TaskPhase
  <2>8. CASE FinishInterrupted(r)
    BY <1>0, <2>8 DEF FinishInterrupted, At, TypeOK, TaskPhase
  <2>9. CASE OutcomeNotRecorded(r)
    BY <1>0, <2>9 DEF OutcomeNotRecorded, At, Fail, TypeOK, TaskPhase
  <2>10. CASE TerminalNotice(r)
    BY <1>0, <2>10 DEF TerminalNotice, At, TypeOK, TaskPhase
  <2>11. CASE ExecuteDone(r)
    BY <1>0, <2>11 DEF ExecuteDone, At, TypeOK, TaskPhase
  <2>12. CASE CancelDelivered(r)
    BY <1>0, <2>12 DEF CancelDelivered, TypeOK, TaskPhase
  <2>13. CASE Unwind(r)
    BY <1>0, <2>13 DEF Unwind, TypeOK, TaskPhase
  <2>14. CASE Heartbeat(r)
    BY <1>0, <2>14 DEF Heartbeat, TypeOK, TaskPhase
  <2> QED
    BY <1>4, <2>1, <2>2, <2>3, <2>4, <2>5, <2>6, <2>7, <2>8, <2>9, <2>10, <2>11, <2>12, <2>13, <2>14
       DEF TaskStep
<1>5. CASE UNCHANGED vars
  BY <1>5 DEF vars
<1> QED
  BY <1>1, <1>3, <1>4, <1>5 DEF Next

(* A run that ended keeps its outcome: the result of a task that was       *)
(* cancelled too late, a second cancellation and the finally block change  *)
(* nothing.                                                                *)
THEOREM EndsAreFinal == Spec => TerminalIsFinal
<1>1. Inv /\ [Next]_vars
         => [\A r \in Runs : state[r] \in Terminal => state'[r] = state[r]]_state
  BY TerminalStep
<1> QED
  BY <1>1, Invariance, PTL DEF Spec, TerminalIsFinal

-----------------------------------------------------------------------------
(* What is told *)

(* Nothing is told before the terminal notice, which tells the state the   *)
(* run has by then; the heartbeat has stopped.                             *)
Telling(r) ==
    /\ heartbeat[r] => task[r] \in {"agent", "final_stream", "interrupted_notice"}
    /\ task[r] \in {"final_stream", "interrupted_notice"} => result[r] \in {"answer", "max_steps"}
    /\ task[r] = "stop_heartbeat" /\ ~cancelRequested[r] =>
           state[r] \in IF result[r] = "error" THEN {"running", "failed"}
                                               ELSE {"completed", "interrupted"}
    /\ task[r] \notin {"terminal_notice", "unwind", "done"} => Outcome(r) = "nothing"
    /\ Outcome(r) = "completed" => state[r] \in {"completed", "interrupted"}
    /\ Outcome(r) = "failed" => state[r] \notin {"completed", "interrupted"}

(* The acceptance comes first, the outcome last. *)
Sequel(r) ==
    /\ notices[r] = <<>> <=> state[r] = "none"
    /\ \A i \in DOMAIN notices[r] :
           /\ notices[r][i] = "accepted" <=> i = 1
           /\ notices[r][i] \in {"completed", "failed"} => i = Len(notices[r])

TellInv == \A r \in Runs : Telling(r) /\ Sequel(r)

-----------------------------------------------------------------------------
(* Lemmas *)

(* Nothing that a client hears of depends on it. *)
Unheard(q) ==
    /\ state'[q] = state[q] /\ task'[q] = task[q]
    /\ cancelRequested'[q] = cancelRequested[q] /\ result'[q] = result[q]
    /\ heartbeat'[q] = heartbeat[q] /\ notices'[q] = notices[q]

LEMMA UnheardKeeps ==
  ASSUME TellInv, NEW q \in Runs, Unheard(q)
  PROVE  Telling(q)' /\ Sequel(q)' /\ Outcome(q)' = Outcome(q)
BY DEF TellInv, Telling, Sequel, Unheard, Outcome

(* The notices of a run and what they tell. *)
LEMMA OutcomeIs ==
  ASSUME TypeOK, NEW r \in Runs
  PROVE  /\ Outcome(r) \in {"nothing", "completed", "failed"}
         /\ notices[r] \in Seq(Notices) /\ Len(notices[r]) \in Nat
         /\ DOMAIN notices[r] = 1..Len(notices[r])
BY DEF TypeOK, Outcome

(* A notice that is no outcome tells nothing. *)
LEMMA Notified ==
  ASSUME TypeOK, NEW r \in Runs, NEW kind \in Notices, Notify(r, kind),
         Outcome(r) = "nothing", Sequel(r)
  PROVE  /\ Outcome(r)' = IF kind \in {"completed", "failed"} THEN kind ELSE "nothing"
         /\ notices'[r] # <<>>
         /\ (kind = "accepted" <=> notices[r] = <<>>) =>
                \A i \in DOMAIN notices'[r] :
                    /\ notices'[r][i] = "accepted" <=> i = 1
                    /\ notices'[r][i] \in {"completed", "failed"} => i = Len(notices'[r])
         /\ \A q \in Runs \ {r} : notices'[q] = notices[q]
<1> DEFINE n == Len(notices[r])
<1>1. notices[r] \in Seq(Notices) /\ n \in Nat /\ DOMAIN notices[r] = 1..n
  BY OutcomeIs
<1>2. notices'[r] = Append(notices[r], kind) /\ \A q \in Runs \ {r} : notices'[q] = notices[q]
  BY DEF Notify, TypeOK
<1>3. /\ Len(notices'[r]) = n + 1 /\ DOMAIN notices'[r] = 1..n + 1 /\ notices'[r] # <<>>
      /\ notices'[r][n + 1] = kind
      /\ \A i \in 1..n : notices'[r][i] = notices[r][i]
  BY <1>1, <1>2
<1>4. notices[r] = <<>> <=> n = 0
  BY <1>1
<1>5. \A i \in 1..n : notices[r][i] \notin {"completed", "failed"}
  <2>1. notices[r] # <<>> => notices[r][n] \notin {"completed", "failed"}
    BY DEF Outcome
  <2> QED
    BY <1>1, <1>4, <2>1 DEF Sequel
<1>6. Outcome(r)' = IF kind \in {"completed", "failed"} THEN kind ELSE "nothing"
  BY <1>3 DEF Outcome
<1>7. ASSUME kind = "accepted" <=> n = 0, NEW i \in 1..n + 1
      PROVE  /\ notices'[r][i] = "accepted" <=> i = 1
             /\ notices'[r][i] \in {"completed", "failed"} => i = n + 1
  <2>1. CASE i = n + 1
    BY <1>1, <1>3, <1>7, <2>1
  <2>2. CASE i \in 1..n
    BY <1>1, <1>3, <1>5, <2>2 DEF Sequel
  <2> QED
    BY <1>1, <2>1, <2>2
<1> QED
  BY <1>2, <1>3, <1>4, <1>6, <1>7

(* A step that is about one run. *)
Alone(r) == \A q \in Runs \ {r} : Unheard(q)

LEMMA AloneKeeps ==
  ASSUME TellInv, NEW r \in Runs, Alone(r), Telling(r)', Sequel(r)'
  PROVE  TellInv' /\ \A q \in Runs \ {r} : Outcome(q)' = Outcome(q)
BY UnheardKeeps DEF TellInv, Alone

(* The steps of the service. *)
Promised == TellInv' /\ [Service!Next]_(Service!vars)

(* Nothing is heard of any run. *)
LEMMA QuietKeeps ==
  ASSUME TellInv, UNCHANGED <<state, sessionId>>, \A q \in Runs : Unheard(q)
  PROVE  Promised
<1>1. TellInv' /\ \A q \in Runs : Outcome(q)' = Outcome(q)
  BY UnheardKeeps DEF TellInv
<1>2. [q \in Runs |-> Outcome(q)]' = [q \in Runs |-> Outcome(q)]
  BY <1>1
<1> QED
  BY <1>1, <1>2 DEF Promised, Service!vars

(* A task goes on, or a notice without an outcome is sent. *)
LEMMA GoesOn ==
  ASSUME TellInv, NEW r \in Runs, UNCHANGED <<state, sessionId>>, Alone(r),
         Telling(r)', Sequel(r)', Outcome(r)' = Outcome(r)
  PROVE  Promised
<1>1. TellInv' /\ \A q \in Runs : Outcome(q)' = Outcome(q)
  BY AloneKeeps
<1>2. [q \in Runs |-> Outcome(q)]' = [q \in Runs |-> Outcome(q)]
  BY <1>1
<1> QED
  BY <1>1, <1>2 DEF Promised, Service!vars

(* A run ends. *)
LEMMA Finishes ==
  ASSUME TellInv, NEW r \in Runs, NEW end \in Service!Ends,
         state[r] = "running", state' = [state EXCEPT ![r] = end], UNCHANGED sessionId,
         Alone(r), Telling(r)', Sequel(r)', Outcome(r)' = Outcome(r),
         Outcome(r) = "failed" => end \in {"failed", "cancelled"}
  PROVE  Promised
<1>1. TellInv' /\ \A q \in Runs : Outcome(q)' = Outcome(q)
  BY AloneKeeps
<1>2. [q \in Runs |-> Outcome(q)]' = [q \in Runs |-> Outcome(q)]
  BY <1>1
<1>3. Service!Finish(r, end)
  BY <1>2 DEF Service!Finish
<1> QED
  BY <1>1, <1>3 DEF Promised, Service!Next

(* An outcome is told. *)
LEMMA Tells ==
  ASSUME TellInv, NEW r \in Runs, NEW outcome \in {"completed", "failed"},
         UNCHANGED <<state, sessionId>>, Alone(r), Telling(r)', Sequel(r)',
         Outcome(r) = "nothing", Outcome(r)' = outcome,
         \/ outcome = "completed" /\ state[r] \in {"completed", "interrupted"}
         \/ outcome = "failed" /\ state[r] \in {"running", "failed"}
  PROVE  Promised
<1>1. TellInv' /\ \A q \in Runs \ {r} : Outcome(q)' = Outcome(q)
  BY AloneKeeps
<1>2. [q \in Runs |-> Outcome(q)]' = [[q \in Runs |-> Outcome(q)] EXCEPT ![r] = outcome]
  BY <1>1
<1>3. Service!Tell(r, outcome)
  BY <1>2 DEF Service!Tell
<1> QED
  BY <1>1, <1>3 DEF Promised, Service!Next

-----------------------------------------------------------------------------
(* The steps of connections *)

(* A chat is accepted: RunningIsActive says that its session has no other  *)
(* running run.                                                            *)
LEMMA AcceptStep ==
  ASSUME Inv, TellInv, NEW c \in Conns, NEW r \in Runs, NEW s \in Named \cup {r},
         CreateRun(c, s, r), s = r \/ ~IsActive(activeRun[s])
  PROVE  Promised
<1>1. TypeOK /\ HomeSession /\ RunningIsActive
  BY DEF Inv, RunInv
<1>2. /\ state[r] = "none" /\ task[r] = "none"
      /\ state' = [state EXCEPT ![r] = "running"] /\ sessionId' = [sessionId EXCEPT ![r] = s]
      /\ Notify(r, "accepted") /\ UNCHANGED <<task, cancelRequested, result, heartbeat>>
  BY <1>1 DEF CreateRun, HomeSession
<1>3. Telling(r) /\ Sequel(r) /\ Outcome(r) = "nothing" /\ notices[r] = <<>>
  BY <1>2 DEF TellInv, Telling, Sequel
<1>4. /\ Outcome(r)' = "nothing" /\ notices'[r] # <<>>
      /\ \A i \in DOMAIN notices'[r] :
             /\ notices'[r][i] = "accepted" <=> i = 1
             /\ notices'[r][i] \in {"completed", "failed"} => i = Len(notices'[r])
      /\ \A q \in Runs \ {r} : notices'[q] = notices[q]
  BY <1>1, <1>2, <1>3, Notified
<1>5. state'[r] = "running" /\ \A q \in Runs \ {r} : state'[q] = state[q]
  BY <1>1, <1>2 DEF TypeOK
<1>6. Alone(r)
  BY <1>2, <1>4, <1>5 DEF Alone, Unheard
<1>7. Telling(r)' /\ Sequel(r)'
  BY <1>2, <1>3, <1>4, <1>5 DEF Telling, Sequel
<1>8. TellInv' /\ \A q \in Runs \ {r} : Outcome(q)' = Outcome(q)
  BY <1>6, <1>7, AloneKeeps
<1>9. [q \in Runs |-> Outcome(q)]' = [q \in Runs |-> Outcome(q)]
  BY <1>3, <1>4, <1>8
<1>10. ASSUME NEW q \in Runs, state[q] = "running", sessionId[q] = s PROVE FALSE
  <2>1. activeRun[s] = q /\ q # None
    BY <1>1, <1>10, ConstantsAssumption DEF RunningIsActive
  <2>2. s = r
    BY <1>10, <2>1 DEF IsActive
  <2>3. s \in Named \cup {q} /\ r \notin Named
    BY <1>1, <1>10, ConstantsAssumption DEF HomeSession
  <2> QED
    BY <1>2, <1>10, <2>2, <2>3
<1>11. Service!Accept(r, s)
  BY <1>2, <1>9, <1>10 DEF Service!Accept
<1> QED
  BY <1>8, <1>11 DEF Promised, Service!Next

(* A running run is cancelled. *)
LEMMA CancelStep ==
  ASSUME Inv, TellInv, NEW c \in Conns, NEW r \in Runs, CancelRun(c, r), IsActive(r),
         UNCHANGED <<sessionId, task, result, heartbeat, notices>>
  PROVE  Promised
<1>1. TypeOK /\ Telling(r) /\ Sequel(r)
  BY DEF Inv, TellInv
<1>2. /\ state[r] = "running" /\ state' = [state EXCEPT ![r] = "cancelled"]
      /\ cancelRequested' = [cancelRequested EXCEPT ![r] = task[r] # "none"]
  BY DEF CancelRun, IsActive
<1>3. /\ state'[r] = "cancelled" /\ (cancelRequested'[r] <=> task[r] # "none")
      /\ \A q \in Runs \ {r} : state'[q] = state[q] /\ cancelRequested'[q] = cancelRequested[q]
  BY <1>1, <1>2 DEF TypeOK
<1>4. Alone(r)
  BY <1>3 DEF Alone, Unheard
<1>5. Outcome(r)' = Outcome(r)
  BY DEF Outcome
<1>6. Telling(r)' /\ Sequel(r)'
  BY <1>1, <1>2, <1>3, <1>5 DEF Telling, Sequel
<1>7. "cancelled" \in Service!Ends
  BY DEF Service!Ends
<1> QED
  BY <1>1, <1>2, <1>4, <1>5, <1>6, <1>7, Finishes

LEMMA ConnectionStep ==
  ASSUME Inv, TellInv, NEW c \in Conns, ClientStep(c) \/ ConnStep(c)
  PROVE  Promised
<1>1. TypeOK /\ AwaitedRun
  BY DEF Inv, RunInv
<1>2. CASE UNCHANGED <<state, sessionId, task, cancelRequested, result, heartbeat, notices>>
  BY <1>1, <1>2, QuietKeeps DEF Unheard
<1>3. ASSUME NEW s \in Named, NEW r \in Runs, StartChat(c, s, r) PROVE Promised
  BY <1>3, AcceptStep DEF StartChat
<1>4. ASSUME NEW r \in Runs, StartEphemeralChat(c, r) PROVE Promised
  BY <1>4, AcceptStep DEF StartEphemeralChat
<1>5. CASE CreateTask(c)
  <2>1. PICK r \in Runs : /\ task[r] = "none" /\ task' = [task EXCEPT ![r] = "scheduled"]
                          /\ UNCHANGED <<state, sessionId, cancelRequested, result, heartbeat,
                                         notices>>
    BY <1>1, <1>5 DEF CreateTask, AwaitedRun, TypeOK
  <2>2. task'[r] = "scheduled" /\ \A q \in Runs \ {r} : task'[q] = task[q]
    BY <1>1, <2>1 DEF TypeOK
  <2>3. Alone(r) /\ Outcome(r)' = Outcome(r)
    BY <2>1, <2>2 DEF Alone, Unheard, Outcome
  <2>4. Telling(r)' /\ Sequel(r)'
    BY <2>1, <2>2, <2>3 DEF TellInv, Telling, Sequel
  <2> QED
    BY <2>1, <2>3, <2>4, GoesOn
<1>6. ASSUME NEW s \in Named, OnSessionEmpty(c, s) PROVE Promised
  <2>1. CASE IsActive(activeRun[s]) /\ CancelRun(c, activeRun[s])
    <3>1. activeRun[s] \in Runs
      BY <1>1, <2>1 DEF IsActive, TypeOK
    <3> QED
      BY <1>6, <2>1, <3>1, CancelStep DEF OnSessionEmpty
  <2>2. CASE ~(IsActive(activeRun[s]) /\ CancelRun(c, activeRun[s]))
    BY <1>2, <1>6, <2>2 DEF OnSessionEmpty
  <2> QED
    BY <2>1, <2>2
<1>7. ASSUME NEW r \in Runs, CancelRunIfUnobserved(c, r) PROVE Promised
  <2>1. CASE IsActive(r) /\ CancelRun(c, r)
    BY <1>7, <2>1, CancelStep DEF CancelRunIfUnobserved
  <2>2. CASE ~(IsActive(r) /\ CancelRun(c, r))
    BY <1>2, <1>7, <2>2 DEF CancelRunIfUnobserved
  <2> QED
    BY <2>1, <2>2
<1>8. CASE \/ \E s \in Named : Attach(c, s) \/ ChatBusy(c, s) \/ ChatNotRecorded(c, s)
           \/ Detach(c) \/ Disconnect(c) \/ DetachDone(c) \/ ConnectionClosed(c)
           \/ RunCancelled(c) \/ CancelNotRecorded(c)
  BY <1>2, <1>8
     DEF Attach, ChatBusy, ChatNotRecorded, Detach, Disconnect, DetachDone, ConnectionClosed,
         RunCancelled, CancelNotRecorded
<1> QED
  BY <1>3, <1>4, <1>5, <1>6, <1>7, <1>8 DEF ClientStep, ConnStep

-----------------------------------------------------------------------------
(* The steps of the task of a run *)

LEMMA RunStep ==
  ASSUME Inv, TellInv, NEW r \in Runs, TaskStep(r) \/ Heartbeat(r)
  PROVE  Promised
<1>1. TypeOK /\ TaskPhase /\ HomeSession /\ Telling(r) /\ Sequel(r)
  BY DEF Inv, RunInv, TellInv
<1>2. state[r] # "none" /\ UNCHANGED sessionId
  BY <1>1
     DEF TaskStep, Heartbeat, HomeSession, At, ExecuteChat, ExecuteCancelled, NeverStarted,
         AgentReturns, AgentRaises, RunCompleted, RunInterrupted, FinishInterrupted,
         OutcomeNotRecorded, TerminalNotice, ExecuteDone, CancelDelivered, Unwind
<1>3. Outcome(r) \in {"nothing", "completed", "failed"}
  BY <1>1, OutcomeIs
<1>4. {"completed", "failed", "interrupted", "cancelled"} = Service!Ends
  BY DEF Service!Ends
(* The places that the task only passes through. *)
<1>5. CASE \/ ExecuteChat(r) \/ ExecuteCancelled(r) \/ NeverStarted(r) \/ AgentReturns(r)
           \/ CancelDelivered(r) \/ Unwind(r)
  <2>1. /\ UNCHANGED <<state, cancelRequested, notices>>
        /\ \A q \in Runs \ {r} : /\ task'[q] = task[q] /\ result'[q] = result[q]
                                 /\ heartbeat'[q] = heartbeat[q]
    BY <1>1, <1>5
       DEF ExecuteChat, ExecuteCancelled, NeverStarted, AgentReturns, CancelDelivered, Unwind,
           StopHeartbeat, Goto, TypeOK
  <2>2. Alone(r) /\ Outcome(r)' = Outcome(r) /\ Sequel(r)'
    BY <1>1, <2>1 DEF Alone, Unheard, Outcome, Sequel
  <2>3. Telling(r)'
    BY <1>1, <1>5, <2>1, <2>2
       DEF ExecuteChat, ExecuteCancelled, NeverStarted, AgentReturns, CancelDelivered, Unwind,
           StopHeartbeat, Goto, At, Telling, TypeOK
  <2> QED
    BY <1>2, <2>1, <2>2, <2>3, GoesOn
(* The agent loop or a record raises. *)
<1>6. CASE AgentRaises(r) \/ OutcomeNotRecorded(r)
  <2>1. /\ state[r] = "running" /\ Outcome(r) = "nothing" /\ ~cancelRequested[r]
        /\ task' = [task EXCEPT ![r] = "stop_heartbeat"]
        /\ heartbeat' = [heartbeat EXCEPT ![r] = FALSE] /\ result' = [result EXCEPT ![r] = "error"]
        /\ UNCHANGED <<cancelRequested, notices>>
        /\ state' = [state EXCEPT ![r] = "failed"] \/ UNCHANGED state
    BY <1>1, <1>6
       DEF AgentRaises, OutcomeNotRecorded, Fail, StopHeartbeat, Goto, At, TaskPhase, Telling
  <2>2. /\ task'[r] = "stop_heartbeat" /\ ~heartbeat'[r] /\ result'[r] = "error"
        /\ state'[r] \in {"running", "failed"}
        /\ \A q \in Runs \ {r} : /\ task'[q] = task[q] /\ result'[q] = result[q]
                                 /\ heartbeat'[q] = heartbeat[q] /\ state'[q] = state[q]
    BY <1>1, <2>1 DEF TypeOK
  <2>3. Alone(r) /\ Outcome(r)' = Outcome(r)
    BY <2>1, <2>2 DEF Alone, Unheard, Outcome
  <2>4. Telling(r)' /\ Sequel(r)'
    BY <1>1, <1>2, <2>1, <2>2, <2>3 DEF Telling, Sequel
  <2> QED
    BY <1>1, <1>2, <1>4, <2>1, <2>3, <2>4, GoesOn, Finishes
(* The run reaches its end. *)
<1>7. CASE RunCompleted(r) \/ FinishInterrupted(r)
  <2>1. PICK end \in {"completed", "interrupted"} :
            /\ state[r] = "running" /\ Outcome(r) = "nothing" /\ ~cancelRequested[r]
            /\ result[r] # "error"
            /\ state' = [state EXCEPT ![r] = end]
            /\ task' = [task EXCEPT ![r] = "stop_heartbeat"]
            /\ heartbeat' = [heartbeat EXCEPT ![r] = FALSE]
            /\ UNCHANGED <<cancelRequested, notices, result>>
    BY <1>1, <1>7
       DEF RunCompleted, FinishInterrupted, StopHeartbeat, Goto, At, TaskPhase, Telling
  <2>2. /\ task'[r] = "stop_heartbeat" /\ ~heartbeat'[r] /\ state'[r] = end
        /\ \A q \in Runs \ {r} : /\ task'[q] = task[q] /\ heartbeat'[q] = heartbeat[q]
                                 /\ state'[q] = state[q]
    BY <1>1, <2>1 DEF TypeOK
  <2>3. Alone(r) /\ Outcome(r)' = Outcome(r)
    BY <2>1, <2>2 DEF Alone, Unheard, Outcome
  <2>4. Telling(r)' /\ Sequel(r)'
    BY <1>1, <1>2, <2>1, <2>2, <2>3 DEF Telling, Sequel
  <2> QED
    BY <1>1, <1>2, <1>4, <2>1, <2>3, <2>4, Finishes
(* Notices before the end. *)
<1>8. CASE RunInterrupted(r) \/ Heartbeat(r)
  <2>1. PICK kind \in {"interrupted", "heartbeat"} :
            /\ Notify(r, kind) /\ UNCHANGED <<state, cancelRequested, heartbeat, result>>
            /\ Outcome(r) = "nothing"
    BY <1>1, <1>8 DEF RunInterrupted, Heartbeat, At, Telling
  <2>2. \/ UNCHANGED task
        \/ task[r] = "final_stream" /\ task' = [task EXCEPT ![r] = "interrupted_notice"]
    BY <1>8 DEF RunInterrupted, Heartbeat, Goto, At
  <2>3. /\ \/ task'[r] = task[r]
           \/ task[r] = "final_stream" /\ task'[r] = "interrupted_notice"
        /\ \A q \in Runs \ {r} : task'[q] = task[q]
    BY <1>1, <2>2 DEF TypeOK
  <2>4. /\ Outcome(r)' = "nothing" /\ notices'[r] # <<>>
        /\ \A i \in DOMAIN notices'[r] :
               /\ notices'[r][i] = "accepted" <=> i = 1
               /\ notices'[r][i] \in {"completed", "failed"} => i = Len(notices'[r])
        /\ \A q \in Runs \ {r} : notices'[q] = notices[q]
    <3>1. notices[r] # <<>>
      BY <1>1, <1>2 DEF Sequel
    <3> QED
      BY <1>1, <2>1, <3>1, Notified
  <2>5. Alone(r)
    BY <2>1, <2>3, <2>4 DEF Alone, Unheard
  <2>6. Telling(r)' /\ Sequel(r)'
    BY <1>1, <1>2, <2>1, <2>3, <2>4 DEF Telling, Sequel
  <2> QED
    BY <1>2, <2>1, <2>4, <2>5, <2>6, GoesOn
<1>9. CASE TerminalNotice(r)
  <2>1. PICK kind \in {"completed", "failed"} :
            /\ Notify(r, kind) /\ kind = (IF result[r] = "error" THEN "failed" ELSE "completed")
            /\ task' = [task EXCEPT ![r] = "terminal_notice"]
            /\ UNCHANGED <<state, cancelRequested, heartbeat, result>>
            /\ task[r] = "stop_heartbeat" /\ ~cancelRequested[r] /\ Outcome(r) = "nothing"
    BY <1>1, <1>9 DEF TerminalNotice, At, Goto, Telling
  <2>2. task'[r] = "terminal_notice" /\ \A q \in Runs \ {r} : task'[q] = task[q]
    BY <1>1, <2>1 DEF TypeOK
  <2>3. /\ Outcome(r)' = kind /\ notices'[r] # <<>>
        /\ \A i \in DOMAIN notices'[r] :
               /\ notices'[r][i] = "accepted" <=> i = 1
               /\ notices'[r][i] \in {"completed", "failed"} => i = Len(notices'[r])
        /\ \A q \in Runs \ {r} : notices'[q] = notices[q]
    <3>1. notices[r] # <<>>
      BY <1>1, <1>2 DEF Sequel
    <3> QED
      BY <1>1, <2>1, <3>1, Notified
  <2>4. Alone(r)
    BY <2>1, <2>2, <2>3 DEF Alone, Unheard
  <2>5. \/ kind = "completed" /\ state[r] \in {"completed", "interrupted"}
        \/ kind = "failed" /\ state[r] \in {"running", "failed"}
    BY <1>1, <2>1 DEF Telling
  <2>6. Telling(r)' /\ Sequel(r)'
    BY <1>1, <1>2, <2>1, <2>2, <2>3, <2>5 DEF Telling, Sequel
  <2> QED
    BY <1>2, <2>1, <2>3, <2>4, <2>5, <2>6, Tells
<1>10. CASE ExecuteDone(r)
  <2>1. /\ task' = [task EXCEPT ![r] = "done"] /\ task[r] = "terminal_notice"
        /\ UNCHANGED <<cancelRequested, heartbeat, result, notices>>
        /\ \/ state[r] = "running" /\ state' = [state EXCEPT ![r] = "failed"]
           \/ state[r] # "running" /\ UNCHANGED state
    BY <1>1, <1>10 DEF ExecuteDone, At, Goto, TypeOK
  <2>2. /\ task'[r] = "done"
        /\ \/ state'[r] = state[r]
           \/ state'[r] = "failed" /\ state[r] = "running"
        /\ \A q \in Runs \ {r} : task'[q] = task[q] /\ state'[q] = state[q]
    BY <1>1, <2>1 DEF TypeOK
  <2>3. Alone(r) /\ Outcome(r)' = Outcome(r)
    BY <2>1, <2>2 DEF Alone, Unheard, Outcome
  <2>4. Telling(r)' /\ Sequel(r)'
    BY <1>1, <1>2, <2>1, <2>2, <2>3 DEF Telling, Sequel
  <2> QED
    BY <1>1, <1>2, <1>4, <2>1, <2>3, <2>4, GoesOn, Finishes
<1> QED
  BY <1>5, <1>6, <1>7, <1>8, <1>9, <1>10 DEF TaskStep

-----------------------------------------------------------------------------
(* The theorems *)

LEMMA PromisedStep == Inv /\ TellInv /\ [Next]_vars => Promised
<1> SUFFICES ASSUME Inv, TellInv, [Next]_vars PROVE Promised
  OBVIOUS
<1>1. CASE UNCHANGED vars
  BY <1>1, QuietKeeps DEF vars, Unheard
<1> QED
  BY <1>1, ConnectionStep, RunStep DEF Next

LEMMA TellInit == Init => TellInv /\ Service!Init
<1> SUFFICES ASSUME Init PROVE TellInv /\ Service!Init
  OBVIOUS
<1>1. \A r \in Runs : Outcome(r) = "nothing"
  BY DEF Init, Outcome
<1> QED
  BY <1>1 DEF Init, TellInv, Telling, Sequel, Service!Init

LEMMA TellInvariance == Spec => []TellInv
<1>1. Inv /\ TellInv /\ [Next]_vars => TellInv'
  BY PromisedStep DEF Promised
<1>2. Init => TellInv
  BY TellInit
<1> QED
  BY <1>1, <1>2, Invariance, PTL DEF Spec

(* The server implements RunService: one chat at a time in a session, one  *)
(* of four ends for each, and its outcome told once and truthfully, in     *)
(* every interleaving of cancellations, failures and departures.           *)
THEOREM ServesAsPromised == Spec => KeepsPromises
<1>1. Init => Service!Init
  BY TellInit
<1>2. Inv /\ TellInv /\ [Next]_vars => [Service!Next]_(Service!vars)
  BY PromisedStep DEF Promised
<1> QED
  BY <1>1, <1>2, Invariance, TellInvariance, PTL DEF Spec, KeepsPromises, Service!Spec

(* What was told, notice by notice. *)
LEMMA NoticesAsTold ==
  ASSUME TellInv, notices \in [Runs -> Seq(Notices)]
  PROVE  NoticesInOrder
<1> SUFFICES ASSUME NEW r \in Runs, NEW i \in DOMAIN notices[r]
             PROVE  /\ notices[r][i] = "accepted" <=> i = 1
                    /\ notices[r][i] \in {"completed", "failed"} => i = Len(notices[r])
                    /\ notices[r][i] = "completed" => state[r] \in {"completed", "interrupted"}
                    /\ notices[r][i] = "failed" => state[r] \notin {"completed", "interrupted"}
  BY DEF NoticesInOrder
<1>1. Telling(r) /\ Sequel(r)
  BY DEF TellInv
<1>2. notices[r] # <<>>
  OBVIOUS
<1>3. notices[r][i] \in {"completed", "failed"} => Outcome(r) = notices[r][i]
  BY <1>1, <1>2 DEF Sequel, Outcome
<1> QED
  BY <1>1, <1>3 DEF Telling, Sequel

(* What a client is told of a run starts with its acceptance and stops     *)
(* with its outcome: no heartbeat comes after it, and it never contradicts *)
(* the state of the run (_execute_chat, handle_chat, heartbeat_loop).      *)
THEOREM NoticesAreInOrder == Spec => []NoticesInOrder
<1>1. Inv /\ TellInv => NoticesInOrder
  BY NoticesAsTold DEF Inv, TypeOK
<1> QED
  BY <1>1, Invariance, TellInvariance, PTL

-----------------------------------------------------------------------------
(* Counting *)

(* What is appended is counted once. *)
LEMMA CountAppend ==
  ASSUME NEW S, NEW seq \in Seq(S), NEW x \in S, NEW kinds
  PROVE  /\ Count(seq, kinds) \in Nat
         /\ Count(Append(seq, x), kinds) = Count(seq, kinds) + (IF x \in kinds THEN 1 ELSE 0)
<1> DEFINE n == Len(seq)
           new == Append(seq, x)
           Old == {i \in DOMAIN seq : seq[i] \in kinds}
           New == {i \in DOMAIN new : new[i] \in kinds}
<1>1. /\ n \in Nat /\ DOMAIN seq = 1..n /\ DOMAIN new = 1..n + 1
      /\ \A i \in 1..n : new[i] = seq[i]
      /\ new[n + 1] = x
  OBVIOUS
<1> HIDE DEF n, new
<1>2. IsFiniteSet(Old) /\ n + 1 \notin Old /\ Cardinality(Old) \in Nat
  <2>1. IsFiniteSet(1..n) /\ Old \in SUBSET (1..n)
    BY <1>1, FS_Interval
  <2> QED
    BY <1>1, <2>1, FS_Subset, FS_CardinalityType
<1>3. \A i : i \in 1..n + 1 <=> i \in 1..n \/ i = n + 1
  BY <1>1
<1>4. New = IF x \in kinds THEN Old \cup {n + 1} ELSE Old
  BY <1>1, <1>3
<1> HIDE DEF Old, New
<1>5. Cardinality(New) = Cardinality(Old) + (IF x \in kinds THEN 1 ELSE 0)
  <2>1. CASE x \in kinds
    BY <1>2, <1>4, <2>1, FS_AddElement
  <2>2. CASE x \notin kinds
    <3>1. Cardinality(New) = Cardinality(Old) + 0
      BY <1>2, <1>4, <2>2
    <3> QED
      BY <2>2, <3>1
  <2> QED
    BY <2>1, <2>2
<1> QED
  BY <1>2, <1>5 DEF Count, Old, New, new

(* Nothing is counted in a sequence without it. *)
LEMMA CountNone ==
  ASSUME NEW seq, NEW kinds, \A i \in DOMAIN seq : seq[i] \notin kinds
  PROVE  Count(seq, kinds) = 0
<1>1. {i \in DOMAIN seq : seq[i] \in kinds} = {}
  OBVIOUS
<1> QED
  BY <1>1, FS_EmptySet DEF Count

(* A record is counted for its run. *)
LEMMA RecordCounted ==
  ASSUME TypeOK, NEW r \in Runs, NEW stage \in TraceStages, Record(r, stage), NEW kinds
  PROVE  /\ Count(trace'[r], kinds) = Count(trace[r], kinds) + (IF stage \in kinds THEN 1 ELSE 0)
         /\ Count(trace[r], kinds) \in Nat
         /\ \A q \in Runs \ {r} : trace'[q] = trace[q]
<1>1. trace[r] \in Seq(TraceStages)
  BY DEF TypeOK
<1>2. trace'[r] = Append(trace[r], stage) /\ \A q \in Runs \ {r} : trace'[q] = trace[q]
  BY DEF Record, TypeOK
<1> QED
  BY <1>1, <1>2, CountAppend

(* What is of another kind is not counted. *)
LEMMA RecordNotCounted ==
  ASSUME TypeOK, NEW r \in Runs, NEW q \in Runs, NEW stage \in TraceStages, Record(r, stage),
         NEW kind, stage # kind
  PROVE  Count(trace'[q], {kind}) = Count(trace[q], {kind})
<1>1. PICK kinds : kinds = {kind}
  OBVIOUS
<1>2. /\ Count(trace'[r], kinds) = Count(trace[r], kinds) + (IF stage \in kinds THEN 1 ELSE 0)
      /\ Count(trace[r], kinds) \in Nat
      /\ \A p \in Runs \ {r} : trace'[p] = trace[p]
  <2> HIDE <1>1 DEF TraceStages
  <2> QED
    BY RecordCounted
<1>3. stage \notin kinds
  BY <1>1
<1>4. Count(trace'[r], kinds) = Count(trace[r], kinds) + 0
  BY <1>2, <1>3
<1>5. CASE q = r
  BY <1>1, <1>2, <1>4, <1>5
<1>6. CASE q # r
  BY <1>2, <1>6
<1> QED
  BY <1>5, <1>6

-----------------------------------------------------------------------------
(* Cancellations *)

(* The connection is cancelling the run: it waits for its task. *)
Cancelling(c, r) == conn[c] # "accepting" /\ awaiting[c] = r

AlreadyCancelled(r) == state[r] = "cancelled" /\ \A c \in Conns : ~Cancelling(c, r)

(* One connection cancels a run, and records it when it has waited. *)
CancelInv ==
    \A r \in Runs :
        /\ \A c, d \in Conns : Cancelling(c, r) /\ Cancelling(d, r) => c = d
        /\ Count(trace[r], {"cancelled"}) = IF AlreadyCancelled(r) THEN 1 ELSE 0

(* Nothing of the cancellation of the run changes. *)
LEMMA CancelFrame ==
  ASSUME CancelInv, NEW r \in Runs,
         \A c \in Conns : Cancelling(c, r)' <=> Cancelling(c, r),
         state'[r] = "cancelled" <=> state[r] = "cancelled",
         Count(trace'[r], {"cancelled"}) = Count(trace[r], {"cancelled"})
  PROVE  /\ \A c, d \in Conns : Cancelling(c, r)' /\ Cancelling(d, r)' => c = d
         /\ Count(trace[r], {"cancelled"})' = IF AlreadyCancelled(r)' THEN 1 ELSE 0
BY DEF CancelInv, AlreadyCancelled

(* Where no connection begins or ends to cancel. *)
LEMMA NoCancelling ==
  ASSUME Inv, NEW c \in Conns, NEW r \in Runs,
         \/ ClientStep(c) \/ CreateTask(c) \/ DetachDone(c) \/ ConnectionClosed(c)
         \/ TaskStep(r) \/ Heartbeat(r)
  PROVE  \A d \in Conns, q \in Runs : Cancelling(d, q)' <=> Cancelling(d, q)
<1>1. TypeOK /\ AwaitedRun
  BY DEF Inv, RunInv
<1>2. CASE ClientStep(c) \/ CreateTask(c) \/ DetachDone(c) \/ ConnectionClosed(c)
  <2>1. ASSUME NEW d \in Conns, d # c PROVE conn'[d] = conn[d] /\ awaiting'[d] = awaiting[d]
    BY <1>1, <1>2, <2>1
       DEF ClientStep, Attach, ChatBusy, ChatNotRecorded, StartChat, StartEphemeralChat, CreateRun,
           Detach, Disconnect, CreateTask, DetachDone, AfterDetach, ConnectionClosed, TypeOK
  <2>2. \/ conn[c] = "accepting" \/ awaiting[c] = None
    BY <1>1, <1>2
       DEF ClientStep, Attach, ChatBusy, ChatNotRecorded, StartChat, StartEphemeralChat,
           Detach, Disconnect, CreateTask, DetachDone, ConnectionClosed, Reading, AwaitedRun
  <2>3. \/ conn'[c] = "accepting" \/ awaiting'[c] = None
    BY <1>1, <1>2
       DEF ClientStep, Attach, ChatBusy, ChatNotRecorded, StartChat, StartEphemeralChat, CreateRun,
           Detach, Disconnect, CreateTask, DetachDone, ConnectionClosed, Reading, AwaitedRun, TypeOK
  <2> QED
    BY <2>1, <2>2, <2>3, ConstantsAssumption DEF Cancelling
<1>3. CASE TaskStep(r) \/ Heartbeat(r)
  <2>1. UNCHANGED <<conn, awaiting>>
    BY <1>3
       DEF TaskStep, ExecuteChat, ExecuteCancelled, NeverStarted, AgentReturns, AgentRaises,
           RunCompleted, RunInterrupted, FinishInterrupted, OutcomeNotRecorded, TerminalNotice,
           ExecuteDone, CancelDelivered, Unwind, Heartbeat
  <2> QED
    BY <2>1 DEF Cancelling
<1> QED
  BY <1>2, <1>3

(* A connection begins to cancel a running run.  Nobody else does. *)
LEMMA CancelBegins ==
  ASSUME Inv, NEW c \in Conns, NEW r \in Runs, CancelRun(c, r), IsActive(r),
         conn[c] # "accepting", awaiting[c] = None, UNCHANGED conn
  PROVE  /\ \A d \in Conns : ~Cancelling(d, r) /\ (Cancelling(d, r)' <=> d = c)
         /\ \A d \in Conns, q \in Runs \ {r} : Cancelling(d, q)' <=> Cancelling(d, q)
         /\ state'[r] = "cancelled"
         /\ \A q \in Runs \ {r} : state'[q] = state[q]
<1>1. TypeOK /\ AwaitedRun
  BY DEF Inv, RunInv
<1>2. state[r] = "running" /\ r # None
  BY DEF IsActive
<1>3. awaiting'[c] = r /\ \A d \in Conns \ {c} : awaiting'[d] = awaiting[d]
  BY <1>1 DEF CancelRun, TypeOK
<1>4. state'[r] = "cancelled" /\ \A q \in Runs \ {r} : state'[q] = state[q]
  BY <1>1 DEF CancelRun, TypeOK
<1>5. \A d \in Conns : ~Cancelling(d, r)
  BY <1>1, <1>2 DEF AwaitedRun, Cancelling
<1> QED
  BY <1>2, <1>3, <1>4, <1>5, ConstantsAssumption DEF Cancelling

(* A connection has cancelled a run. *)
LEMMA CancelEnds ==
  ASSUME Inv, NEW c \in Conns, NEW r \in Runs, r = awaiting[c], RunCancelled(c)
  PROVE  /\ Cancelling(c, r) /\ state[r] = "cancelled"
         /\ ~Cancelling(c, r)'
         /\ \A d \in Conns, q \in Runs : d # c \/ q # r => (Cancelling(d, q)' <=> Cancelling(d, q))
<1>1. TypeOK /\ AwaitedRun
  BY DEF Inv, RunInv
<1>2. conn[c] # "accepting" /\ awaiting[c] # None
  BY DEF RunCancelled, CancelLanded
<1>3. /\ awaiting'[c] = None /\ UNCHANGED conn
      /\ \A d \in Conns \ {c} : awaiting'[d] = awaiting[d]
  BY <1>1 DEF RunCancelled, TypeOK
<1> QED
  BY <1>1, <1>2, <1>3, ConstantsAssumption DEF Cancelling, AwaitedRun

LEMMA CancelInvStep ==
  ASSUME TraceMayFail = FALSE, Inv, CancelInv, [Next]_vars
  PROVE  CancelInv'
<1>0. TypeOK /\ TaskPhase /\ HomeSession /\ AwaitedRun
  BY DEF Inv, RunInv
<1> SUFFICES ASSUME NEW q \in Runs
             PROVE  /\ \A c, d \in Conns : Cancelling(c, q)' /\ Cancelling(d, q)' => c = d
                    /\ Count(trace[q], {"cancelled"})' = IF AlreadyCancelled(q)' THEN 1 ELSE 0
  BY DEF CancelInv
(* A chat is accepted. *)
<1>1. ASSUME NEW c \in Conns, NEW s \in Sessions, NEW r \in Runs, CreateRun(c, s, r),
             ClientStep(c)
      PROVE  /\ \A d \in Conns : Cancelling(d, q)' <=> Cancelling(d, q)
             /\ state'[q] = "cancelled" <=> state[q] = "cancelled"
             /\ Count(trace'[q], {"cancelled"}) = Count(trace[q], {"cancelled"})
  <2>1. \A d \in Conns : Cancelling(d, q)' <=> Cancelling(d, q)
    BY <1>1, NoCancelling
  <2>2. state'[q] = "cancelled" <=> state[q] = "cancelled"
    BY <1>0, <1>1 DEF CreateRun, TypeOK
  <2>3. Count(trace'[q], {"cancelled"}) = Count(trace[q], {"cancelled"})
    <3>1. Record(r, "created") /\ "created" \in TraceStages
      BY <1>1 DEF CreateRun
    <3> QED
      BY <1>0, <3>1, RecordNotCounted
  <2> QED
    BY <2>1, <2>2, <2>3
<1>2. ASSUME NEW c \in Conns, ClientStep(c)
      PROVE  /\ \A d \in Conns : Cancelling(d, q)' <=> Cancelling(d, q)
             /\ state'[q] = "cancelled" <=> state[q] = "cancelled"
             /\ Count(trace'[q], {"cancelled"}) = Count(trace[q], {"cancelled"})
  <2>1. CASE UNCHANGED <<state, trace>>
    BY <1>2, <2>1, NoCancelling
  <2>2. CASE ~UNCHANGED <<state, trace>>
    <3>1. PICK s \in Sessions, r \in Runs : CreateRun(c, s, r)
      BY <1>2, <2>2
         DEF ClientStep, Attach, ChatBusy, ChatNotRecorded, StartChat, StartEphemeralChat,
             Detach, Disconnect
    <3> QED
      BY <1>1, <1>2, <3>1
  <2> QED
    BY <2>1, <2>2
<1>3. ASSUME NEW c \in Conns, CreateTask(c) \/ DetachDone(c) \/ ConnectionClosed(c)
      PROVE  /\ \A d \in Conns : Cancelling(d, q)' <=> Cancelling(d, q)
             /\ UNCHANGED <<state, trace>>
  BY <1>3, NoCancelling DEF CreateTask, DetachDone, ConnectionClosed
(* A connection begins to cancel r. *)
<1>4. ASSUME NEW c \in Conns, NEW r \in Runs, CancelRun(c, r), IsActive(r),
             conn[c] # "accepting", awaiting[c] = None, UNCHANGED <<conn, trace>>
      PROVE  /\ \A d, e \in Conns : Cancelling(d, q)' /\ Cancelling(e, q)' => d = e
             /\ Count(trace[q], {"cancelled"})' = IF AlreadyCancelled(q)' THEN 1 ELSE 0
  <2>1. /\ \A d \in Conns : ~Cancelling(d, r) /\ (Cancelling(d, r)' <=> d = c)
        /\ \A d \in Conns, p \in Runs \ {r} : Cancelling(d, p)' <=> Cancelling(d, p)
        /\ state'[r] = "cancelled"
        /\ \A p \in Runs \ {r} : state'[p] = state[p]
    BY <1>4, CancelBegins
  <2>2. CASE q = r
    <3>1. Count(trace[q], {"cancelled"}) = 0
      BY <1>4, <2>2 DEF CancelInv, AlreadyCancelled, IsActive
    <3>2. ~AlreadyCancelled(q)'
      BY <2>1, <2>2 DEF AlreadyCancelled
    <3> QED
      BY <1>4, <2>1, <2>2, <3>1, <3>2
  <2>3. CASE q # r
    BY <1>4, <2>1, <2>3, CancelFrame
  <2> QED
    BY <2>2, <2>3
<1>5. ASSUME NEW c \in Conns, RunCancelled(c)
      PROVE  /\ \A d, e \in Conns : Cancelling(d, q)' /\ Cancelling(e, q)' => d = e
             /\ Count(trace[q], {"cancelled"})' = IF AlreadyCancelled(q)' THEN 1 ELSE 0
  <2>1. PICK r \in Runs : r = awaiting[c]
    BY <1>0, <1>5 DEF RunCancelled, CancelLanded, TypeOK
  <2>2. /\ Cancelling(c, r) /\ state[r] = "cancelled" /\ ~Cancelling(c, r)'
        /\ \A d \in Conns, p \in Runs : d # c \/ p # r => (Cancelling(d, p)' <=> Cancelling(d, p))
        /\ UNCHANGED state /\ Record(r, "cancelled")
    BY <1>5, <2>1, CancelEnds DEF RunCancelled
  <2>3. CASE q = r
    <3>1. \A d \in Conns : ~Cancelling(d, q)'
      BY <2>2, <2>3 DEF CancelInv
    <3>2. Count(trace[q], {"cancelled"}) = 0
      BY <2>2, <2>3 DEF CancelInv, AlreadyCancelled
    <3>3. Count(trace'[q], {"cancelled"}) = 1
      BY <1>0, <2>2, <2>3, <3>2, RecordCounted
    <3> QED
      BY <2>2, <2>3, <3>1, <3>3 DEF AlreadyCancelled
  <2>4. CASE q # r
    BY <1>0, <2>2, <2>4, RecordCounted, CancelFrame
  <2> QED
    BY <2>3, <2>4
<1>6. ASSUME NEW c \in Conns, ConnStep(c)
      PROVE  /\ \A d, e \in Conns : Cancelling(d, q)' /\ Cancelling(e, q)' => d = e
             /\ Count(trace[q], {"cancelled"})' = IF AlreadyCancelled(q)' THEN 1 ELSE 0
  <2>1. ASSUME NEW s \in Named, OnSessionEmpty(c, s)
        PROVE  /\ \A d, e \in Conns : Cancelling(d, q)' /\ Cancelling(e, q)' => d = e
               /\ Count(trace[q], {"cancelled"})' = IF AlreadyCancelled(q)' THEN 1 ELSE 0
    <3>1. CASE IsActive(activeRun[s]) /\ CancelRun(c, activeRun[s])
      <4>1. activeRun[s] \in Runs
        BY <1>0, <3>1 DEF IsActive, TypeOK
      <4> QED
        BY <1>4, <2>1, <3>1, <4>1 DEF OnSessionEmpty
    <3>2. CASE UNCHANGED <<holder, awaiting, state, cancelRequested>>
      BY <2>1, <3>2, CancelFrame DEF OnSessionEmpty, Cancelling
    <3> QED
      BY <2>1, <3>1, <3>2 DEF OnSessionEmpty
  <2>2. ASSUME NEW r \in Runs, CancelRunIfUnobserved(c, r)
        PROVE  /\ \A d, e \in Conns : Cancelling(d, q)' /\ Cancelling(e, q)' => d = e
               /\ Count(trace[q], {"cancelled"})' = IF AlreadyCancelled(q)' THEN 1 ELSE 0
    <3>1. CASE IsActive(r) /\ CancelRun(c, r)
      BY <1>4, <2>2, <3>1 DEF CancelRunIfUnobserved
    <3>2. CASE UNCHANGED <<holder, awaiting, state, cancelRequested>>
      BY <2>2, <3>2, CancelFrame DEF CancelRunIfUnobserved, Cancelling
    <3> QED
      BY <2>2, <3>1, <3>2 DEF CancelRunIfUnobserved
  <2> QED
    BY <1>3, <1>5, <1>6, <2>1, <2>2, CancelFrame DEF ConnStep, CancelNotRecorded
(* The task of a run: it never makes a run cancelled, nor records it. *)
<1>7. ASSUME NEW r \in Runs, TaskStep(r) \/ Heartbeat(r)
      PROVE  /\ \A d \in Conns : Cancelling(d, q)' <=> Cancelling(d, q)
             /\ state'[q] = "cancelled" <=> state[q] = "cancelled"
             /\ Count(trace'[q], {"cancelled"}) = Count(trace[q], {"cancelled"})
  <2>1. \A d \in Conns : Cancelling(d, q)' <=> Cancelling(d, q)
    BY <1>7, NoCancelling
  <2>2. state'[q] = "cancelled" <=> state[q] = "cancelled"
    <3>1. state[q] = "cancelled" => state'[q] = "cancelled"
      BY <1>7, TerminalStep
    <3>2. \/ UNCHANGED state
          \/ \E end \in {"failed", "completed", "interrupted"} : state' = [state EXCEPT ![r] = end]
      <4>1. CASE ExecuteDone(r)
        BY <1>0, <4>1 DEF ExecuteDone, TypeOK
      <4>2. CASE ~ExecuteDone(r)
        BY <1>7, <4>2
           DEF TaskStep, ExecuteChat, ExecuteCancelled, NeverStarted, AgentReturns, AgentRaises,
               RunCompleted, RunInterrupted, FinishInterrupted, OutcomeNotRecorded, Fail,
               TerminalNotice, CancelDelivered, Unwind, Heartbeat
      <4> QED
        BY <4>1, <4>2
    <3> QED
      BY <1>0, <3>1, <3>2 DEF TypeOK
  <2>3. \/ UNCHANGED trace
        \/ \E stage \in {"failed", "completed", "interrupted"} : Record(r, stage)
    BY <1>7
       DEF TaskStep, ExecuteChat, ExecuteCancelled, NeverStarted, AgentReturns, AgentRaises,
           RunCompleted, RunInterrupted, FinishInterrupted, OutcomeNotRecorded, Fail,
           TerminalNotice, ExecuteDone, CancelDelivered, Unwind, Heartbeat
  <2>4. Count(trace'[q], {"cancelled"}) = Count(trace[q], {"cancelled"})
    <3>1. ASSUME NEW stage \in {"failed", "completed", "interrupted"}, Record(r, stage)
          PROVE  Count(trace'[q], {"cancelled"}) = Count(trace[q], {"cancelled"})
      <4>1. stage \in TraceStages /\ stage # "cancelled"
        OBVIOUS
      <4> QED
        BY <1>0, <3>1, <4>1, RecordNotCounted
    <3> QED
      BY <2>3, <3>1
  <2> QED
    BY <2>1, <2>2, <2>4
<1>8. CASE UNCHANGED vars
  BY <1>8, CancelFrame DEF vars, Cancelling
<1> QED
  BY <1>2, <1>6, <1>7, <1>8, CancelFrame DEF Next

-----------------------------------------------------------------------------
(* What a cancellation waits for *)

Awaited(r) == \E c \in Conns : Cancelling(c, r)

(* A connection that cancels without waiting does so because there is no   *)
(* task yet.  A task that is to end is waited for until it has ended, and  *)
(* so is one that ended before it could release its session.               *)
WaitInv ==
    /\ \A c \in Conns, r \in Runs : holder = c /\ Cancelling(c, r) => task[r] = "none"
    /\ \A r \in Runs :
           /\ cancelRequested[r] => task[r] = "done" \/ Awaited(r)
           /\ cancelRequested[r] => task[r] # "none"
           /\ task[r] = "done" => Awaited(r) \/ \A s \in Sessions : activeRun[s] # r

(* What WaitInv says of one run. *)
WaitedFor(r) ==
    /\ \A c \in Conns : holder = c /\ Cancelling(c, r) => task[r] = "none"
    /\ cancelRequested[r] => task[r] = "done" \/ Awaited(r)
    /\ cancelRequested[r] => task[r] # "none"
    /\ task[r] = "done" => Awaited(r) \/ \A s \in Sessions : activeRun[s] # r

LEMMA WaitingAll == WaitInv <=> \A r \in Runs : WaitedFor(r)
BY DEF WaitInv, WaitedFor

LEMMA WaitFrame ==
  ASSUME NEW r \in Runs, WaitedFor(r),
         \A c \in Conns : Cancelling(c, r)' <=> Cancelling(c, r),
         \A c \in Conns : holder' = c => holder = c \/ ~Cancelling(c, r),
         task'[r] = task[r], cancelRequested'[r] = cancelRequested[r],
         \A s \in Sessions : activeRun'[s] = r => activeRun[s] = r
  PROVE  WaitedFor(r)'
BY DEF WaitedFor, Awaited

LEMMA WaitStep ==
  ASSUME TraceMayFail = FALSE, Inv, WaitInv, [Next]_vars
  PROVE  WaitInv'
<1>0. TypeOK /\ TaskPhase /\ HomeSession /\ AwaitedRun /\ ActiveRunHome
  BY DEF Inv, RunInv
<1> SUFFICES ASSUME NEW q \in Runs PROVE WaitedFor(q)'
  BY WaitingAll DEF WaitInv, WaitedFor
<1>00. WaitedFor(q)
  BY WaitingAll
<1>1. ASSUME NEW c \in Conns, NEW s \in Sessions, NEW r \in Runs, CreateRun(c, s, r),
             ClientStep(c)
      PROVE  WaitedFor(q)'
  <2>1. \A d \in Conns : Cancelling(d, q)' <=> Cancelling(d, q)
    BY <1>1, NoCancelling
  <2>2. UNCHANGED <<holder, task, cancelRequested>> /\ activeRun' = [activeRun EXCEPT ![s] = r]
    BY <1>1 DEF CreateRun
  <2>3. CASE q = r
    <3>1. task[q] = "none"
      BY <1>0, <1>1, <2>3 DEF CreateRun, HomeSession
    <3> QED
      BY <1>00, <2>1, <2>2, <3>1 DEF WaitedFor, Awaited
  <2>4. CASE q # r
    BY <1>0, <1>00, <2>1, <2>2, <2>4, WaitFrame DEF TypeOK
  <2> QED
    BY <2>3, <2>4
<1>2. ASSUME NEW c \in Conns, ClientStep(c) PROVE WaitedFor(q)'
  <2>1. CASE UNCHANGED <<state, trace>>
    <3>1. UNCHANGED <<task, cancelRequested, activeRun>> /\ holder' \in {c, holder}
      BY <1>0, <1>2, <2>1
         DEF ClientStep, Attach, ChatBusy, ChatNotRecorded, StartChat, StartEphemeralChat, CreateRun,
             Record, Detach, Disconnect, LeaveSessions, TypeOK
    <3>2. \A d \in Conns : Cancelling(d, q)' <=> Cancelling(d, q)
      BY <1>2, NoCancelling
    <3>3. ~Cancelling(c, q)
      BY <1>0, <1>2, ConstantsAssumption
         DEF ClientStep, Attach, ChatBusy, ChatNotRecorded, StartChat, StartEphemeralChat,
             Detach, Disconnect, Reading, AwaitedRun, Cancelling
    <3> QED
      BY <1>00, <3>1, <3>2, <3>3, WaitFrame
  <2>2. CASE ~UNCHANGED <<state, trace>>
    <3>1. PICK s \in Sessions, r \in Runs : CreateRun(c, s, r)
      BY <1>2, <2>2
         DEF ClientStep, Attach, ChatBusy, ChatNotRecorded, StartChat, StartEphemeralChat,
             Detach, Disconnect
    <3> QED
      BY <1>1, <1>2, <3>1
  <2> QED
    BY <2>1, <2>2
<1>3. ASSUME NEW c \in Conns, CreateTask(c) PROVE WaitedFor(q)'
  <2>1. /\ \A d \in Conns : Cancelling(d, q)' <=> Cancelling(d, q)
        /\ UNCHANGED <<holder, cancelRequested, activeRun>>
    BY <1>3, NoCancelling DEF CreateTask
  <2>2. PICK r \in Runs : task[r] = "none" /\ task' = [task EXCEPT ![r] = "scheduled"] /\ holder = None
    BY <1>0, <1>3 DEF CreateTask, AwaitedRun, TypeOK
  <2>3. CASE q = r
    BY <1>0, <1>00, <2>1, <2>2, <2>3, ConstantsAssumption DEF WaitedFor, Awaited, TypeOK
  <2>4. CASE q # r
    BY <1>0, <1>00, <2>1, <2>2, <2>4, WaitFrame DEF TypeOK
  <2> QED
    BY <2>3, <2>4
<1>4. ASSUME NEW c \in Conns, DetachDone(c) \/ ConnectionClosed(c) PROVE WaitedFor(q)'
  <2>1. /\ \A d \in Conns : Cancelling(d, q)' <=> Cancelling(d, q)
        /\ UNCHANGED <<task, cancelRequested, activeRun>>
    BY <1>4, NoCancelling DEF DetachDone, ConnectionClosed
  <2>2. \A d \in Conns : holder' = d => holder = d
    BY <1>4, ConstantsAssumption DEF DetachDone, AfterDetach, ConnectionClosed
  <2> QED
    BY <1>00, <2>1, <2>2, WaitFrame
(* A connection begins to cancel r. *)
<1>5. ASSUME NEW c \in Conns, NEW r \in Runs, CancelRun(c, r), IsActive(r),
             conn[c] # "accepting", awaiting[c] = None, UNCHANGED <<conn, task, activeRun>>
      PROVE  WaitedFor(q)'
  <2>1. /\ \A d \in Conns : Cancelling(d, r)' <=> d = c
        /\ \A d \in Conns, p \in Runs \ {r} : Cancelling(d, p)' <=> Cancelling(d, p)
    BY <1>5, CancelBegins
  <2>2. /\ cancelRequested'[r] <=> task[r] # "none"
        /\ \A p \in Runs \ {r} : cancelRequested'[p] = cancelRequested[p]
        /\ holder' = IF task[r] = "none" THEN c ELSE None
    BY <1>0, <1>5 DEF CancelRun, TypeOK
  <2>3. CASE q = r
    <3>1. Awaited(q)' /\ \A d \in Conns : Cancelling(d, q)' <=> d = c
      BY <2>1, <2>3 DEF Awaited
    <3> QED
      BY <1>5, <2>2, <2>3, <3>1, ConstantsAssumption DEF WaitedFor
  <2>4. CASE q # r
    <3>1. ~Cancelling(c, q)
      BY <1>5, ConstantsAssumption DEF Cancelling
    <3> QED
      BY <1>00, <1>5, <2>1, <2>2, <2>4, <3>1, ConstantsAssumption, WaitFrame
  <2> QED
    BY <2>3, <2>4
(* r is recorded as cancelled, and released. *)
<1>6. ASSUME NEW c \in Conns, RunCancelled(c) PROVE WaitedFor(q)'
  <2>1. PICK r \in Runs : r = awaiting[c]
    BY <1>0, <1>6 DEF RunCancelled, CancelLanded, TypeOK
  <2>2. /\ Cancelling(c, r) /\ ~Cancelling(c, r)'
        /\ \A d \in Conns, p \in Runs : d # c \/ p # r => (Cancelling(d, p)' <=> Cancelling(d, p))
    BY <1>6, <2>1, CancelEnds
  <2>3. /\ holder' = c /\ Release(r) /\ UNCHANGED <<task, cancelRequested>>
        /\ holder = c \/ task[r] = "done"
    BY <1>6, <2>1 DEF RunCancelled, CancelLanded
  <2>4. \A s \in Sessions : /\ activeRun'[s] = q => activeRun[s] = q
                            /\ activeRun'[s] # r
    BY <1>0, <2>3, ConstantsAssumption DEF Release, TypeOK, ActiveRunHome
  <2>5. CASE q = r
    <3>1. task[r] = "none" \/ task[r] = "done"
      BY <1>00, <2>2, <2>3, <2>5 DEF WaitedFor
    <3>2. ~cancelRequested[r] \/ task[r] = "done"
      BY <1>00, <2>5, <3>1 DEF WaitedFor
    <3>3. \A d \in Conns : holder' = d => ~Cancelling(d, q)'
      BY <2>2, <2>3, <2>5
    <3> QED
      BY <1>00, <2>3, <2>4, <2>5, <3>2, <3>3 DEF WaitedFor
  <2>6. CASE q # r
    <3>1. ~Cancelling(c, q)
      BY <2>1, <2>6 DEF Cancelling
    <3> QED
      BY <1>00, <2>2, <2>3, <2>4, <2>6, <3>1, WaitFrame
  <2> QED
    BY <2>5, <2>6
<1>7. ASSUME NEW c \in Conns, ConnStep(c) PROVE WaitedFor(q)'
  <2>1. ASSUME NEW s \in Named, OnSessionEmpty(c, s) PROVE WaitedFor(q)'
    <3>1. CASE IsActive(activeRun[s]) /\ CancelRun(c, activeRun[s])
      <4>1. activeRun[s] \in Runs
        BY <1>0, <3>1 DEF IsActive, TypeOK
      <4> QED
        BY <1>5, <2>1, <3>1, <4>1 DEF OnSessionEmpty
    <3>2. CASE UNCHANGED <<holder, awaiting, state, cancelRequested>>
      BY <1>00, <2>1, <3>2, WaitFrame DEF OnSessionEmpty, Cancelling
    <3> QED
      BY <2>1, <3>1, <3>2 DEF OnSessionEmpty
  <2>2. ASSUME NEW r \in Runs, CancelRunIfUnobserved(c, r) PROVE WaitedFor(q)'
    <3>1. CASE IsActive(r) /\ CancelRun(c, r)
      BY <1>5, <2>2, <3>1 DEF CancelRunIfUnobserved
    <3>2. CASE UNCHANGED <<holder, awaiting, state, cancelRequested>>
      BY <1>00, <2>2, <3>2, WaitFrame DEF CancelRunIfUnobserved, Cancelling
    <3> QED
      BY <2>2, <3>1, <3>2 DEF CancelRunIfUnobserved
  <2> QED
    BY <1>3, <1>4, <1>6, <1>7, <2>1, <2>2 DEF ConnStep, CancelNotRecorded
(* The task of r. *)
<1>8. ASSUME NEW r \in Runs, TaskStep(r) \/ Heartbeat(r) PROVE WaitedFor(q)'
  <2>1. \A d \in Conns : Cancelling(d, q)' <=> Cancelling(d, q)
    BY <1>8, NoCancelling
  <2>2. UNCHANGED cancelRequested /\ holder = None /\ holder' = None
    BY <1>8
       DEF TaskStep, ExecuteChat, ExecuteCancelled, NeverStarted, AgentReturns, AgentRaises,
           RunCompleted, RunInterrupted, FinishInterrupted, OutcomeNotRecorded, At,
           TerminalNotice, ExecuteDone, CancelDelivered, Unwind, Heartbeat
  <2>3. \A d \in Conns : holder' # d
    BY <2>2, ConstantsAssumption
  <2>4. UNCHANGED activeRun \/ Release(r)
    BY <1>8
       DEF TaskStep, ExecuteChat, ExecuteCancelled, NeverStarted, AgentReturns, AgentRaises,
           RunCompleted, RunInterrupted, FinishInterrupted, OutcomeNotRecorded, LeaveSession,
           TerminalNotice, ExecuteDone, CancelDelivered, Unwind, Heartbeat
  <2>5. \A s \in Sessions : activeRun'[s] = q => activeRun[s] = q
    <3>1. CASE UNCHANGED activeRun
      BY <3>1
    <3>2. CASE Release(r)
      BY <1>0, <3>2, ConstantsAssumption DEF Release, TypeOK
    <3> QED
      BY <2>4, <3>1, <3>2
  <2>6. CASE q = r /\ ~UNCHANGED task
    <3>1. task'[r] # "none"
      BY <1>0, <1>8, <2>6
         DEF TaskStep, ExecuteChat, ExecuteCancelled, NeverStarted, AgentReturns, AgentRaises, Fail,
             RunCompleted, RunInterrupted, FinishInterrupted, OutcomeNotRecorded, StopHeartbeat,
             TerminalNotice, ExecuteDone, CancelDelivered, Unwind, Heartbeat, Goto, TypeOK
    <3>2. CASE task'[r] # "done"
      <4>1. task[r] # "done"
        BY <1>8, <2>6
           DEF TaskStep, ExecuteChat, ExecuteCancelled, NeverStarted, AgentReturns, AgentRaises, At,
               RunCompleted, RunInterrupted, FinishInterrupted, OutcomeNotRecorded,
               TerminalNotice, ExecuteDone, CancelDelivered, Unwind, Heartbeat
      <4> QED
        BY <1>00, <2>1, <2>2, <2>3, <2>6, <3>1, <3>2, <4>1 DEF WaitedFor, Awaited
    <3>3. CASE task'[r] = "done"
      <4>1. CASE NeverStarted(r)
        <5>1. task[r] = "scheduled" /\ cancelRequested[r]
          BY <4>1 DEF NeverStarted
        <5> QED
          BY <1>00, <2>1, <2>2, <2>3, <2>6, <3>1, <5>1 DEF WaitedFor, Awaited
      <4>2. CASE ~NeverStarted(r)
        <5>1. Release(r)
          BY <1>0, <1>8, <2>6, <3>3, <4>2
             DEF TaskStep, ExecuteChat, ExecuteCancelled, AgentReturns, AgentRaises, Fail,
                 RunCompleted, RunInterrupted, FinishInterrupted, OutcomeNotRecorded, StopHeartbeat,
                 LeaveSession, TerminalNotice, ExecuteDone, CancelDelivered, Unwind, Heartbeat, Goto,
                 TypeOK
        <5>2. \A s \in Sessions : activeRun'[s] # r
          BY <1>0, <5>1, ConstantsAssumption DEF Release, TypeOK, ActiveRunHome
        <5> QED
          BY <1>00, <2>1, <2>2, <2>3, <2>6, <3>1, <3>3, <5>2 DEF WaitedFor, Awaited
      <4> QED
        BY <4>1, <4>2
    <3> QED
      BY <3>2, <3>3
  <2>7. CASE q # r \/ UNCHANGED task
    <3>1. task'[q] = task[q]
      BY <1>0, <1>8, <2>7
         DEF TaskStep, ExecuteChat, ExecuteCancelled, NeverStarted, AgentReturns, AgentRaises, Fail,
             RunCompleted, RunInterrupted, FinishInterrupted, OutcomeNotRecorded, StopHeartbeat,
             TerminalNotice, ExecuteDone, CancelDelivered, Unwind, Heartbeat, Goto, TypeOK
    <3> QED
      BY <1>00, <2>1, <2>2, <2>3, <2>5, <3>1, WaitFrame
  <2> QED
    BY <2>6, <2>7
<1>9. CASE UNCHANGED vars
  BY <1>00, <1>9, WaitFrame DEF vars, Cancelling
<1> QED
  BY <1>2, <1>7, <1>8, <1>9 DEF Next

-----------------------------------------------------------------------------
(* What a run leaves behind *)

Interrupts(seq) == Count(seq, {"interrupted"})

(* The session of a chat without session_id. *)
Fleeting(r) ==
    /\ r \in ephemeral => sessionId[r] = r /\ state[r] # "none"
    /\ r \in ephemeral /\ task[r] = "done" => state[r] = "cancelled" /\ notices[r] = <<"accepted">>
    /\ state[r] # "none" /\ task[r] \in {"none", "scheduled"} => notices[r] = <<"accepted">>

Early(r) == task[r] \in {"none", "scheduled", "agent", "final_stream"}

(* The turn of the run in the history of its session. *)
Remembered(r) ==
    /\ state[r] = "running" => Early(r) \/ task[r] = "interrupted_notice"
    /\ Early(r) => /\ \A s \in Named : r \notin history[s]
                   /\ Interrupts(trace[r]) = 0 /\ Interrupts(notices[r]) = 0
    /\ IsNamed(r) =>
        /\ task[r] = "interrupted_notice" =>
               r \in history[sessionId[r]] /\ Interrupts(trace[r]) = 1 /\ Interrupts(notices[r]) = 1
        /\ task[r] = "stop_heartbeat" /\ ~cancelRequested[r] =>
               (r \in history[sessionId[r]] <=> result[r] # "error")
        /\ Outcome(r) = "completed" => r \in history[sessionId[r]]
        /\ Outcome(r) = "failed" => r \notin history[sessionId[r]]
        /\ state[r] = "cancelled" /\ r \in history[sessionId[r]] =>
               Interrupts(trace[r]) = 1 /\ Interrupts(notices[r]) = 1

(* The sessions of the runs in X may stay: here there are none, but the    *)
(* server can be stopped while a run cleans up (ServerShutdown).           *)
LeaveBut(X) == \A r \in Runs : (r \notin X => Fleeting(r)) /\ Remembered(r)

LeaveInv == LeaveBut({})

(* Nothing changes for the run, but that it may leave the registry. *)
Undisturbed(q) ==
    /\ Unheard(q)
    /\ sessionId'[q] = sessionId[q]
    /\ Interrupts(trace'[q]) = Interrupts(trace[q])
    /\ q \in ephemeral' => q \in ephemeral
    /\ \A s \in Named : q \in history'[s] <=> q \in history[s]

LEMMA UndisturbedKeeps ==
  ASSUME NEW q \in Runs, Remembered(q), Undisturbed(q)
  PROVE  (Fleeting(q) => Fleeting(q)') /\ Remembered(q)'
<1>1. Outcome(q)' = Outcome(q) /\ Interrupts(notices'[q]) = Interrupts(notices[q])
  BY DEF Undisturbed, Unheard, Outcome
<1>2. Early(q)' <=> Early(q)
  BY DEF Undisturbed, Unheard, Early
<1>3. IsNamed(q)' <=> IsNamed(q)
  BY DEF Undisturbed, IsNamed
<1>4. Fleeting(q) => Fleeting(q)'
  BY DEF Undisturbed, Unheard, Fleeting
<1>5. IsNamed(q) => (q \in history'[sessionId[q]] <=> q \in history[sessionId[q]])
  BY DEF Undisturbed, IsNamed
<1>6. Remembered(q)'
  BY <1>1, <1>2, <1>3, <1>5 DEF Undisturbed, Unheard, Remembered
<1> QED
  BY <1>4, <1>6

(* A record or notice of another kind is no interruption. *)
LEMMA Interruptions ==
  ASSUME trace \in [Runs -> Seq(TraceStages)], notices \in [Runs -> Seq(Notices)], NEW r \in Runs
  PROVE  /\ Interrupts(trace[r]) \in Nat /\ Interrupts(notices[r]) \in Nat
         /\ \A stage \in TraceStages : Record(r, stage) =>
                /\ stage # "interrupted" => Interrupts(trace'[r]) = Interrupts(trace[r])
                /\ stage = "interrupted" => Interrupts(trace'[r]) = Interrupts(trace[r]) + 1
                /\ \A q \in Runs \ {r} : trace'[q] = trace[q]
         /\ \A kind \in Notices : Notify(r, kind) =>
                /\ kind # "interrupted" => Interrupts(notices'[r]) = Interrupts(notices[r])
                /\ kind = "interrupted" => Interrupts(notices'[r]) = Interrupts(notices[r]) + 1
                /\ \A q \in Runs \ {r} : notices'[q] = notices[q]
<1> HIDE DEF TraceStages, Notices
<1>1. trace[r] \in Seq(TraceStages) /\ notices[r] \in Seq(Notices)
  OBVIOUS
<1>2. PICK kinds : kinds = {"interrupted"}
  OBVIOUS
<1>3. /\ Count(trace[r], kinds) \in Nat /\ Count(notices[r], kinds) \in Nat
      /\ \A stage \in TraceStages : Count(Append(trace[r], stage), kinds) =
                                       Count(trace[r], kinds) + (IF stage \in kinds THEN 1 ELSE 0)
      /\ \A kind \in Notices : Count(Append(notices[r], kind), kinds) =
                                  Count(notices[r], kinds) + (IF kind \in kinds THEN 1 ELSE 0)
  <2> HIDE <1>2
  <2>1. ASSUME NEW stage \in TraceStages
        PROVE  /\ Count(trace[r], kinds) \in Nat
               /\ Count(Append(trace[r], stage), kinds) =
                      Count(trace[r], kinds) + (IF stage \in kinds THEN 1 ELSE 0)
    BY <1>1, CountAppend
  <2>2. ASSUME NEW kind \in Notices
        PROVE  /\ Count(notices[r], kinds) \in Nat
               /\ Count(Append(notices[r], kind), kinds) =
                      Count(notices[r], kinds) + (IF kind \in kinds THEN 1 ELSE 0)
    BY <1>1, CountAppend
  <2>3. TraceStages # {} /\ Notices # {}
    BY DEF TraceStages, Notices
  <2> QED
    BY <2>1, <2>2, <2>3
<1>4. \A stage \in TraceStages : Record(r, stage) =>
          trace'[r] = Append(trace[r], stage) /\ \A q \in Runs \ {r} : trace'[q] = trace[q]
  BY DEF Record
<1>5. \A kind \in Notices : Notify(r, kind) =>
          notices'[r] = Append(notices[r], kind) /\ \A q \in Runs \ {r} : notices'[q] = notices[q]
  BY DEF Notify
<1>6. ASSUME NEW stage \in TraceStages, Record(r, stage)
      PROVE  /\ stage # "interrupted" => Interrupts(trace'[r]) = Interrupts(trace[r])
             /\ stage = "interrupted" => Interrupts(trace'[r]) = Interrupts(trace[r]) + 1
  <2>1. Count(trace'[r], kinds) = Count(trace[r], kinds) + (IF stage \in kinds THEN 1 ELSE 0)
    BY <1>3, <1>4, <1>6
  <2>2. CASE stage = "interrupted"
    <3>1. Count(trace'[r], kinds) = Count(trace[r], kinds) + 1
      BY <1>2, <2>1, <2>2
    <3> QED
      BY <1>2, <2>2, <3>1 DEF Interrupts
  <2>3. CASE stage # "interrupted"
    <3>1. Count(trace'[r], kinds) = Count(trace[r], kinds) + 0
      BY <1>2, <2>1, <2>3
    <3> QED
      BY <1>2, <1>3, <2>3, <3>1 DEF Interrupts
  <2> QED
    BY <2>2, <2>3
<1>7. ASSUME NEW kind \in Notices, Notify(r, kind)
      PROVE  /\ kind # "interrupted" => Interrupts(notices'[r]) = Interrupts(notices[r])
             /\ kind = "interrupted" => Interrupts(notices'[r]) = Interrupts(notices[r]) + 1
  <2>1. Count(notices'[r], kinds) = Count(notices[r], kinds) + (IF kind \in kinds THEN 1 ELSE 0)
    BY <1>3, <1>5, <1>7
  <2>2. CASE kind = "interrupted"
    <3>1. Count(notices'[r], kinds) = Count(notices[r], kinds) + 1
      BY <1>2, <2>1, <2>2
    <3> QED
      BY <1>2, <2>2, <3>1 DEF Interrupts
  <2>3. CASE kind # "interrupted"
    <3>1. Count(notices'[r], kinds) = Count(notices[r], kinds) + 0
      BY <1>2, <2>1, <2>3
    <3> QED
      BY <1>2, <1>3, <2>3, <3>1 DEF Interrupts
  <2> QED
    BY <2>2, <2>3
<1>8. Interrupts(trace[r]) \in Nat /\ Interrupts(notices[r]) \in Nat
  BY <1>2, <1>3 DEF Interrupts
<1> QED
  BY <1>4, <1>5, <1>6, <1>7, <1>8

LEMMA NotInterrupted ==
  ASSUME TypeOK, NEW r \in Runs
  PROVE  /\ Interrupts(trace[r]) \in Nat /\ Interrupts(notices[r]) \in Nat
         /\ \A stage \in TraceStages : Record(r, stage) =>
                /\ stage # "interrupted" => Interrupts(trace'[r]) = Interrupts(trace[r])
                /\ stage = "interrupted" => Interrupts(trace'[r]) = Interrupts(trace[r]) + 1
                /\ \A q \in Runs \ {r} : trace'[q] = trace[q]
         /\ \A kind \in Notices : Notify(r, kind) =>
                /\ kind # "interrupted" => Interrupts(notices'[r]) = Interrupts(notices[r])
                /\ kind = "interrupted" => Interrupts(notices'[r]) = Interrupts(notices[r]) + 1
                /\ \A q \in Runs \ {r} : notices'[q] = notices[q]
BY Interruptions DEF TypeOK

(* Where nothing is told or recorded of any run. *)
LEMMA AllUndisturbed ==
  ASSUME NEW X, LeaveBut(X),
         UNCHANGED <<ephemeral, history, state, sessionId, task, cancelRequested, result,
                     heartbeat, notices>>,
         \A q \in Runs : Interrupts(trace'[q]) = Interrupts(trace[q])
  PROVE  LeaveBut(X)'
BY UndisturbedKeeps DEF LeaveBut, Undisturbed, Unheard

(* A chat is accepted. *)
LEMMA LeaveAccept ==
  ASSUME Inv, TellInv, NEW X, LeaveBut(X), NEW c \in Conns, NEW r \in Runs,
         NEW s \in Named \cup {r}, CreateRun(c, s, r),
         ephemeral' = IF s = r THEN ephemeral \cup {r} ELSE ephemeral
  PROVE  LeaveBut(X)'
<1>1. TypeOK /\ HomeSession /\ Telling(r) /\ Sequel(r) /\ Remembered(r)
  BY DEF Inv, RunInv, TellInv, LeaveBut
<1>2. /\ state[r] = "none" /\ task[r] = "none" /\ notices[r] = <<>>
      /\ state' = [state EXCEPT ![r] = "running"] /\ sessionId' = [sessionId EXCEPT ![r] = s]
      /\ Record(r, "created") /\ Notify(r, "accepted")
      /\ UNCHANGED <<history, task, cancelRequested, result, heartbeat>>
  BY <1>1 DEF CreateRun, HomeSession, Sequel
<1>3. /\ Interrupts(trace'[r]) = Interrupts(trace[r])
      /\ Interrupts(notices'[r]) = Interrupts(notices[r])
      /\ \A q \in Runs \ {r} : trace'[q] = trace[q] /\ notices'[q] = notices[q]
  BY <1>1, <1>2, NotInterrupted
<1>4. /\ state'[r] = "running" /\ sessionId'[r] = s
      /\ \A q \in Runs \ {r} : state'[q] = state[q] /\ sessionId'[q] = sessionId[q]
  BY <1>1, <1>2 DEF TypeOK
<1>5. ASSUME NEW q \in Runs \ {r} PROVE (Fleeting(q) => Fleeting(q)') /\ Remembered(q)'
  <2>1. Undisturbed(q)
    BY <1>2, <1>3, <1>4 DEF Undisturbed, Unheard
  <2> QED
    BY <2>1, UndisturbedKeeps DEF LeaveBut
<1>6. notices'[r] = <<"accepted">>
  BY <1>1, <1>2 DEF Notify, TypeOK
<1>7. Fleeting(r) => Fleeting(r)'
  BY <1>1, <1>2, <1>4, <1>6 DEF Fleeting
<1>8. Outcome(r)' = "nothing"
  BY <1>6 DEF Outcome
<1>9. Remembered(r)'
  BY <1>1, <1>2, <1>3, <1>4, <1>8 DEF Remembered, Early
<1> QED
  BY <1>5, <1>7, <1>9 DEF LeaveBut

(* cancel_run of an active run, up to its await. *)
LEMMA CancelRunIs ==
  ASSUME TypeOK, NEW c \in Conns, NEW r \in Runs, CancelRun(c, r), IsActive(r)
  PROVE  /\ state[r] = "running"
         /\ state' = [state EXCEPT ![r] = "cancelled"]
         /\ cancelRequested' = [cancelRequested EXCEPT ![r] = task[r] # "none"]
BY DEF CancelRun, IsActive

(* A running run is cancelled: its turn is in the history only if it has   *)
(* reached the step limit.                                                 *)
LEMMA LeaveCancel ==
  ASSUME NEW X, LeaveBut(X), TaskPhase, NEW r \in Runs, state[r] = "running",
         state \in [Runs -> RunStates], cancelRequested \in [Runs -> BOOLEAN],
         state' = [state EXCEPT ![r] = "cancelled"],
         cancelRequested' = [cancelRequested EXCEPT ![r] = task[r] # "none"],
         UNCHANGED <<ephemeral, history, sessionId, task, result, heartbeat, trace, notices>>
  PROVE  LeaveBut(X)'
<1>1. Remembered(r)
  BY DEF LeaveBut
<1>2. /\ state'[r] = "cancelled" /\ (cancelRequested'[r] <=> task[r] # "none")
      /\ \A q \in Runs \ {r} : state'[q] = state[q] /\ cancelRequested'[q] = cancelRequested[q]
  OBVIOUS
<1>3. ASSUME NEW q \in Runs \ {r} PROVE (Fleeting(q) => Fleeting(q)') /\ Remembered(q)'
  <2>1. Undisturbed(q)
    BY <1>2 DEF Undisturbed, Unheard
  <2> QED
    BY <2>1, UndisturbedKeeps DEF LeaveBut
<1>4. Fleeting(r) => Fleeting(r)'
  BY <1>1, <1>2 DEF Fleeting, TaskPhase
<1>5. Early(r) \/ task[r] = "interrupted_notice"
  BY <1>1, <1>2 DEF Remembered
<1>6. Outcome(r)' = Outcome(r) /\ (Early(r)' <=> Early(r)) /\ (IsNamed(r)' <=> IsNamed(r))
  BY DEF Outcome, Early, IsNamed
<1>7. Remembered(r)'
  BY <1>1, <1>2, <1>5, <1>6 DEF Remembered, Early, IsNamed
<1> QED
  BY <1>3, <1>4, <1>7 DEF LeaveBut

LEMMA LeaveConnection ==
  ASSUME TraceMayFail = FALSE, Inv, TellInv, NEW X, LeaveBut(X), NEW c \in Conns,
         ClientStep(c) \/ ConnStep(c)
  PROVE  LeaveBut(X)'
<1>1. TypeOK /\ AwaitedRun /\ HomeSession /\ TaskPhase
  BY DEF Inv, RunInv
<1>2. CASE UNCHANGED <<ephemeral, history, state, sessionId, task, cancelRequested, result,
                       heartbeat, notices, trace>>
  BY <1>2, AllUndisturbed
<1>3. ASSUME NEW s \in Named, NEW r \in Runs, StartChat(c, s, r) PROVE LeaveBut(X)'
  <2>1. s # r
    BY ConstantsAssumption
  <2> QED
    BY <1>3, <2>1, LeaveAccept DEF StartChat
<1>4. ASSUME NEW r \in Runs, StartEphemeralChat(c, r) PROVE LeaveBut(X)'
  BY <1>4, LeaveAccept DEF StartEphemeralChat
<1>5. CASE CreateTask(c)
  <2>1. PICK r \in Runs : /\ state[r] # "none" /\ task[r] = "none"
                          /\ task' = [task EXCEPT ![r] = "scheduled"]
                          /\ UNCHANGED <<ephemeral, history, state, sessionId, cancelRequested,
                                         result, heartbeat, trace, notices>>
    BY <1>1, <1>5 DEF CreateTask, AwaitedRun, TypeOK
  <2>2. task'[r] = "scheduled" /\ \A q \in Runs \ {r} : task'[q] = task[q]
    BY <1>1, <2>1 DEF TypeOK
  <2>3. ASSUME NEW q \in Runs \ {r} PROVE (Fleeting(q) => Fleeting(q)') /\ Remembered(q)'
    <3>1. Undisturbed(q)
      BY <2>1, <2>2 DEF Undisturbed, Unheard
    <3> QED
      BY <3>1, UndisturbedKeeps DEF LeaveBut
  <2>4. Remembered(r)
    BY DEF LeaveBut
  <2>5. Fleeting(r) => Fleeting(r)'
    BY <2>1, <2>2, <2>4 DEF Fleeting
  <2>6. Outcome(r)' = Outcome(r) /\ Early(r) /\ Early(r)' /\ (IsNamed(r)' <=> IsNamed(r))
    BY <2>1, <2>2 DEF Outcome, Early, IsNamed
  <2>7. Remembered(r)'
    BY <2>1, <2>2, <2>4, <2>6 DEF Remembered
  <2> QED
    BY <2>3, <2>5, <2>7 DEF LeaveBut
<1>6. ASSUME NEW s \in Named, OnSessionEmpty(c, s) PROVE LeaveBut(X)'
  <2>1. CASE IsActive(activeRun[s]) /\ CancelRun(c, activeRun[s])
    <3>1. activeRun[s] \in Runs
      BY <1>1, <2>1 DEF IsActive, TypeOK
    <3> QED
      BY <1>1, <1>6, <2>1, <3>1, CancelRunIs, LeaveCancel DEF OnSessionEmpty, TypeOK
  <2>2. CASE ~(IsActive(activeRun[s]) /\ CancelRun(c, activeRun[s]))
    BY <1>2, <1>6, <2>2 DEF OnSessionEmpty
  <2> QED
    BY <2>1, <2>2
<1>7. ASSUME NEW r \in Runs, CancelRunIfUnobserved(c, r) PROVE LeaveBut(X)'
  <2>1. CASE IsActive(r) /\ CancelRun(c, r)
    BY <1>1, <1>7, <2>1, CancelRunIs, LeaveCancel DEF CancelRunIfUnobserved, TypeOK
  <2>2. CASE ~(IsActive(r) /\ CancelRun(c, r))
    BY <1>2, <1>7, <2>2 DEF CancelRunIfUnobserved
  <2> QED
    BY <2>1, <2>2
<1>8. CASE RunCancelled(c)
  <2>1. PICK r \in Runs : Record(r, "cancelled")
    BY <1>1, <1>8 DEF RunCancelled, CancelLanded, TypeOK
  <2>2. \A q \in Runs : Interrupts(trace'[q]) = Interrupts(trace[q])
    BY <1>1, <2>1, NotInterrupted
  <2> QED
    BY <1>8, <2>2, AllUndisturbed DEF RunCancelled
<1>9. CASE \/ \E s \in Named : Attach(c, s) \/ ChatBusy(c, s) \/ ChatNotRecorded(c, s)
           \/ Detach(c) \/ Disconnect(c) \/ DetachDone(c) \/ ConnectionClosed(c)
           \/ CancelNotRecorded(c)
  BY <1>2, <1>9
     DEF Attach, ChatBusy, ChatNotRecorded, Detach, Disconnect, DetachDone, ConnectionClosed,
         CancelNotRecorded
<1> QED
  BY <1>3, <1>4, <1>5, <1>6, <1>7, <1>8, <1>9 DEF ClientStep, ConnStep

(* A task is about its own run only. *)
LEMMA TaskAlone ==
  ASSUME Inv, NEW r \in Runs, TaskStep(r) \/ Heartbeat(r)
  PROVE  \A q \in Runs \ {r} : Undisturbed(q)
<1>1. TypeOK
  BY DEF Inv
<1>2. UNCHANGED <<sessionId, cancelRequested>>
  BY DEF TaskStep, ExecuteChat, ExecuteCancelled, NeverStarted, AgentReturns, AgentRaises,
         RunCompleted, RunInterrupted, FinishInterrupted, OutcomeNotRecorded, TerminalNotice,
         ExecuteDone, CancelDelivered, Unwind, Heartbeat
<1>3. \A q \in Runs \ {r} : state'[q] = state[q]
  BY <1>1
     DEF TaskStep, ExecuteChat, ExecuteCancelled, NeverStarted, AgentReturns, AgentRaises, Fail,
         RunCompleted, RunInterrupted, FinishInterrupted, OutcomeNotRecorded, TerminalNotice,
         ExecuteDone, CancelDelivered, Unwind, Heartbeat, TypeOK
<1>4. \A q \in Runs \ {r} : /\ task'[q] = task[q] /\ result'[q] = result[q]
                            /\ heartbeat'[q] = heartbeat[q]
  BY <1>1
     DEF TaskStep, ExecuteChat, ExecuteCancelled, NeverStarted, AgentReturns, AgentRaises, Fail,
         RunCompleted, RunInterrupted, FinishInterrupted, OutcomeNotRecorded, TerminalNotice,
         ExecuteDone, CancelDelivered, Unwind, Heartbeat, Goto, StopHeartbeat, TypeOK
<1>5. \A q \in Runs \ {r} : notices'[q] = notices[q]
  BY <1>1
     DEF TaskStep, ExecuteChat, ExecuteCancelled, NeverStarted, AgentReturns, AgentRaises,
         RunCompleted, RunInterrupted, FinishInterrupted, OutcomeNotRecorded, TerminalNotice,
         ExecuteDone, CancelDelivered, Unwind, Heartbeat, Notify, TypeOK
<1>6. \A q \in Runs \ {r} : trace'[q] = trace[q]
  BY <1>1
     DEF TaskStep, ExecuteChat, ExecuteCancelled, NeverStarted, AgentReturns, AgentRaises, Fail,
         RunCompleted, RunInterrupted, FinishInterrupted, OutcomeNotRecorded, TerminalNotice,
         ExecuteDone, CancelDelivered, Unwind, Heartbeat, Record, TypeOK
<1>7. UNCHANGED ephemeral \/ ephemeral' = ephemeral \ {sessionId[r]}
  BY DEF TaskStep, ExecuteChat, ExecuteCancelled, NeverStarted, AgentReturns, AgentRaises,
         RunCompleted, RunInterrupted, FinishInterrupted, OutcomeNotRecorded, TerminalNotice,
         ExecuteDone, CancelDelivered, Unwind, Heartbeat, LeaveSession
<1>8. \A q \in Runs \ {r} : \A s \in Named : q \in history'[s] <=> q \in history[s]
  <2>1. UNCHANGED history \/ RecordTurn(r)
    BY DEF TaskStep, ExecuteChat, ExecuteCancelled, NeverStarted, AgentReturns, AgentRaises,
           RunCompleted, RunInterrupted, FinishInterrupted, OutcomeNotRecorded, TerminalNotice,
           ExecuteDone, CancelDelivered, Unwind, Heartbeat
  <2> QED
    BY <2>1 DEF RecordTurn
<1> QED
  BY <1>2, <1>3, <1>4, <1>5, <1>6, <1>7, <1>8 DEF Undisturbed, Unheard

(* The task of a run that is in the history when it has been answered or   *)
(* has reached the step limit, and that leaves the registry at its end.    *)
LEMMA LeaveTask ==
  ASSUME TraceMayFail = FALSE, Inv, TellInv, TellInv', NEW X, LeaveBut(X), NEW r \in Runs,
         TaskStep(r) \/ Heartbeat(r)
  PROVE  LeaveBut(X)'
<1>1. /\ TypeOK /\ TaskPhase /\ HomeSession /\ Telling(r) /\ Sequel(r) /\ Telling(r)'
      /\ Remembered(r)
  BY DEF Inv, RunInv, TellInv, LeaveBut
<1>2. SUFFICES (Fleeting(r) => Fleeting(r)') /\ Remembered(r)'
  BY TaskAlone, UndisturbedKeeps DEF LeaveBut
<1>3. UNCHANGED <<sessionId, cancelRequested>> /\ (IsNamed(r)' <=> IsNamed(r))
  BY DEF TaskStep, ExecuteChat, ExecuteCancelled, NeverStarted, AgentReturns, AgentRaises,
         RunCompleted, RunInterrupted, FinishInterrupted, OutcomeNotRecorded, TerminalNotice,
         ExecuteDone, CancelDelivered, Unwind, Heartbeat, IsNamed
<1>4. \A s \in Named : sessionId[r] = s <=> IsNamed(r) /\ s = sessionId[r]
  BY DEF IsNamed
(* The steps before the outcome. *)
<1>5. CASE ExecuteChat(r) \/ AgentReturns(r)
  <2>1. /\ UNCHANGED <<ephemeral, history, state, trace, notices>>
        /\ state[r] # "none" /\ Early(r) /\ Early(r)' /\ task'[r] \in {"agent", "final_stream"}
    BY <1>1, <1>5 DEF ExecuteChat, AgentReturns, At, Goto, Early, TypeOK, HomeSession
  <2>2. Outcome(r) = "nothing" /\ Outcome(r)' = "nothing"
    BY <1>1, <2>1 DEF Telling, Early, Outcome
  <2> QED
    BY <1>1, <1>3, <2>1, <2>2 DEF Fleeting, Remembered
<1>6. CASE AgentRaises(r)
  <2>1. /\ UNCHANGED <<ephemeral, history, notices>> /\ Record(r, "failed")
        /\ Early(r) /\ task'[r] = "stop_heartbeat" /\ result'[r] = "error" /\ state'[r] = "failed"
    BY <1>1, <1>6 DEF AgentRaises, Fail, StopHeartbeat, At, Goto, Early, TypeOK
  <2>2. Interrupts(trace'[r]) = Interrupts(trace[r])
    BY <1>1, <2>1, NotInterrupted
  <2>3. Outcome(r)' = "nothing"
    BY <1>1, <2>1 DEF Telling
  <2>4. IsNamed(r) => r \notin history[sessionId[r]]
    BY <1>1, <2>1 DEF Remembered, IsNamed
  <2>5. Fleeting(r) => Fleeting(r)'
    BY <1>1, <1>3, <2>1 DEF Fleeting
  <2>6. Remembered(r)'
    BY <1>1, <1>3, <2>1, <2>2, <2>3, <2>4 DEF Remembered, Early
  <2> QED
    BY <2>5, <2>6
<1>7. CASE RunCompleted(r)
  <2>1. /\ UNCHANGED <<ephemeral, notices, result>> /\ RecordTurn(r)
        /\ task'[r] = "stop_heartbeat" /\ result[r] = "answer" /\ state'[r] = "completed"
    BY <1>1, <1>7 DEF RunCompleted, StopHeartbeat, Goto, TypeOK
  <2>2. Outcome(r)' = "nothing"
    BY <1>1, <2>1 DEF Telling
  <2>3. IsNamed(r) => r \in history'[sessionId[r]]
    BY <2>1 DEF RecordTurn, IsNamed
  <2>4. Fleeting(r) => Fleeting(r)'
    BY <1>1, <1>3, <2>1 DEF Fleeting
  <2>5. Remembered(r)'
    BY <1>1, <1>3, <2>1, <2>2, <2>3 DEF Remembered, Early
  <2> QED
    BY <2>4, <2>5
<1>8. CASE RunInterrupted(r)
  <2>1. /\ UNCHANGED <<ephemeral, state>> /\ RecordTurn(r) /\ Record(r, "interrupted")
        /\ Notify(r, "interrupted") /\ Early(r) /\ task'[r] = "interrupted_notice"
    BY <1>1, <1>8 DEF RunInterrupted, At, Goto, Early, TypeOK
  <2>2. Interrupts(trace'[r]) = 1 /\ Interrupts(notices'[r]) = 1
    BY <1>1, <2>1, NotInterrupted DEF Remembered
  <2>3. Outcome(r)' = "nothing"
    BY <1>1, <2>1 DEF Telling
  <2>4. IsNamed(r) => r \in history'[sessionId[r]]
    BY <2>1 DEF RecordTurn, IsNamed
  <2>5. Fleeting(r) => Fleeting(r)'
    BY <1>1, <1>3, <2>1 DEF Fleeting
  <2>6. Remembered(r)'
    BY <1>3, <2>1, <2>2, <2>3, <2>4 DEF Remembered, Early
  <2> QED
    BY <2>5, <2>6
<1>9. CASE FinishInterrupted(r)
  <2>1. /\ UNCHANGED <<ephemeral, history, trace, notices, result>>
        /\ task[r] = "interrupted_notice" /\ task'[r] = "stop_heartbeat"
        /\ state'[r] = "interrupted" /\ result[r] # "error"
    BY <1>1, <1>9 DEF FinishInterrupted, StopHeartbeat, At, Goto, Telling, TypeOK
  <2>2. Outcome(r)' = "nothing"
    BY <1>1, <2>1 DEF Telling
  <2>3. Fleeting(r) => Fleeting(r)'
    BY <1>1, <1>3, <2>1 DEF Fleeting
  <2>4. Remembered(r)'
    BY <1>1, <1>3, <2>1, <2>2 DEF Remembered, Early
  <2> QED
    BY <2>3, <2>4
<1>10. CASE TerminalNotice(r)
  <2>1. PICK kind \in {"completed", "failed"} :
            /\ Notify(r, kind) /\ kind = (IF result[r] = "error" THEN "failed" ELSE "completed")
            /\ task[r] = "stop_heartbeat" /\ task'[r] = "terminal_notice" /\ ~cancelRequested[r]
            /\ UNCHANGED <<ephemeral, history, state, trace, result>>
    BY <1>1, <1>10 DEF TerminalNotice, At, Goto, TypeOK
  <2>2. state[r] \in {"failed", "completed", "interrupted"} /\ Outcome(r) = "nothing"
    <3>1. state[r] # "running"
      BY <1>1, <2>1 DEF Remembered, Early
    <3> QED
      BY <1>1, <2>1, <3>1 DEF Telling
  <2>3. Outcome(r)' = kind
    BY <1>1, <2>1, <2>2, Notified
  <2>4. Fleeting(r) => Fleeting(r)'
    BY <1>1, <1>3, <2>1 DEF Fleeting
  <2>5. Remembered(r)'
    BY <1>1, <1>3, <2>1, <2>2, <2>3 DEF Remembered, Early
  <2> QED
    BY <2>4, <2>5
<1>11. CASE Heartbeat(r)
  <2>1. /\ UNCHANGED <<ephemeral, history, state, trace, task, result>> /\ Notify(r, "heartbeat")
        /\ task[r] \in {"agent", "final_stream", "interrupted_notice"} /\ state[r] = "running"
    BY <1>1, <1>11 DEF Heartbeat, Telling
  <2>2. Interrupts(notices'[r]) = Interrupts(notices[r])
    BY <1>1, <2>1, NotInterrupted
  <2>3. Outcome(r)' = "nothing"
    BY <1>1, <2>1 DEF Telling
  <2>4. Fleeting(r) => Fleeting(r)'
    BY <1>1, <1>3, <2>1 DEF Fleeting
  <2>5. Remembered(r)'
    BY <1>1, <1>3, <2>1, <2>2, <2>3 DEF Remembered, Early
  <2> QED
    BY <2>4, <2>5
(* The end of the task. *)
<1>12. CASE ExecuteDone(r) \/ ExecuteCancelled(r) \/ Unwind(r)
  <2>1. /\ UNCHANGED <<history, trace, notices, result>> /\ task'[r] = "done"
        /\ ephemeral' = ephemeral \ {sessionId[r]}
        /\ task[r] \in {"terminal_notice", "scheduled", "unwind"}
        /\ state[r] \in Terminal => state'[r] = state[r]
        /\ task[r] = "scheduled" => state[r] \in Terminal
    BY <1>1, <1>12
       DEF ExecuteDone, ExecuteCancelled, Unwind, At, Goto, LeaveSession, TypeOK
  <2>2. state[r] \in Terminal
    <3>1. state[r] # "none"
      BY <1>1, <2>1 DEF HomeSession
    <3>2. state[r] # "running"
      BY <1>1, <2>1 DEF Remembered, Early
    <3>3. state[r] \in RunStates
      BY <1>1 DEF TypeOK
    <3> QED
      BY <3>1, <3>2, <3>3
  <2>3. Outcome(r)' = Outcome(r) /\ ~Early(r)' /\ state'[r] = state[r]
    BY <2>1, <2>2 DEF Outcome, Early
  <2>4. Fleeting(r) => r \notin ephemeral'
    BY <1>1, <2>1 DEF Fleeting
  <2>5. Fleeting(r) => Fleeting(r)'
    BY <1>1, <1>3, <2>1, <2>4 DEF Fleeting
  <2>6. Remembered(r)'
    BY <1>1, <1>3, <2>1, <2>2, <2>3 DEF Remembered
  <2> QED
    BY <2>5, <2>6
<1>13. CASE NeverStarted(r)
  <2>1. /\ UNCHANGED <<ephemeral, history, state, trace, notices, result>> /\ task'[r] = "done"
        /\ task[r] = "scheduled" /\ state[r] = "cancelled"
    BY <1>1, <1>13 DEF NeverStarted, Goto, TaskPhase, TypeOK
  <2>2. Outcome(r)' = Outcome(r)
    BY <2>1 DEF Outcome
  <2>3. Fleeting(r) => Fleeting(r)'
    BY <1>1, <1>3, <2>1 DEF Fleeting
  <2>4. Remembered(r)'
    BY <1>1, <1>3, <2>1, <2>2 DEF Remembered, Early
  <2> QED
    BY <2>3, <2>4
<1>14. CASE CancelDelivered(r)
  <2>1. /\ UNCHANGED <<ephemeral, history, state, trace, notices, result>> /\ task'[r] = "unwind"
        /\ task[r] \in {"agent", "final_stream", "interrupted_notice", "stop_heartbeat",
                        "terminal_notice"}
        /\ state[r] = "cancelled"
    BY <1>1, <1>14 DEF CancelDelivered, StopHeartbeat, Goto, TaskPhase, TypeOK
  <2>2. Outcome(r)' = Outcome(r)
    BY <2>1 DEF Outcome
  <2>3. Fleeting(r) => Fleeting(r)'
    BY <1>1, <1>3, <2>1 DEF Fleeting
  <2>4. Remembered(r)'
    BY <1>1, <1>3, <2>1, <2>2 DEF Remembered, Early
  <2> QED
    BY <2>3, <2>4
<1> QED
  BY <1>5, <1>6, <1>7, <1>8, <1>9, <1>10, <1>11, <1>12, <1>13, <1>14
     DEF TaskStep, OutcomeNotRecorded

LEMMA LeaveStep ==
  ASSUME TraceMayFail = FALSE, Inv, TellInv, TellInv', NEW X, LeaveBut(X), [Next]_vars
  PROVE  LeaveBut(X)'
<1>1. CASE UNCHANGED vars
  BY <1>1, AllUndisturbed DEF vars
<1> QED
  BY <1>1, LeaveConnection, LeaveTask DEF Next

-----------------------------------------------------------------------------
(* The theorems about what a run leaves behind *)

LEMMA CountsInit == Init => CancelInv /\ WaitInv /\ LeaveInv
<1> SUFFICES ASSUME Init PROVE CancelInv /\ WaitInv /\ LeaveInv
  OBVIOUS
<1>1. \A c \in Conns, r \in Runs : ~Cancelling(c, r)
  BY ConstantsAssumption DEF Init, Cancelling
<1>2. \A r \in Runs : /\ trace[r] = <<>> /\ notices[r] = <<>> /\ state[r] = "none"
                      /\ task[r] = "none" /\ ~cancelRequested[r]
  BY DEF Init
<1>3. \A r \in Runs : /\ Count(trace[r], {"cancelled"}) = 0 /\ Interrupts(trace[r]) = 0
                      /\ Interrupts(notices[r]) = 0
  BY <1>2, CountNone DEF Interrupts
<1>4. CancelInv
  BY <1>1, <1>2, <1>3 DEF CancelInv, AlreadyCancelled
<1>5. WaitInv
  BY <1>1, <1>2, ConstantsAssumption DEF WaitInv
<1>6. LeaveInv
  BY <1>2, <1>3, ConstantsAssumption
     DEF Init, LeaveInv, LeaveBut, Fleeting, Remembered, Early, IsNamed, Outcome
<1> QED
  BY <1>4, <1>5, <1>6

LEMMA LeaveInvariance ==
  ASSUME TraceMayFail = FALSE
  PROVE  Spec => [](CancelInv /\ WaitInv /\ LeaveInv)
<1>1. Init => CancelInv /\ WaitInv /\ LeaveInv
  BY CountsInit
<1>2. Inv /\ TellInv /\ TellInv' /\ CancelInv /\ WaitInv /\ LeaveInv /\ [Next]_vars
          => CancelInv' /\ WaitInv' /\ LeaveInv'
  BY CancelInvStep, WaitStep, LeaveStep DEF LeaveInv
<1> QED
  BY <1>1, <1>2, Invariance, TellInvariance, PTL DEF Spec

(* Whoever cancels a run, and whatever its task does meanwhile: one        *)
(* connection waits for it, and run_cancelled is recorded once when it has *)
(* waited (SessionRegistry.cancel_run), if no record fails.                *)
THEOREM CancellationsAreRecordedOnce ==
  ASSUME TraceMayFail = FALSE
  PROVE  Spec => []CancelRecordedOnce
<1>1. CancelInv => CancelRecordedOnce
  <2> SUFFICES ASSUME CancelInv, NEW r \in Runs
               PROVE  LET waiting == {c \in Conns : awaiting[c] = r /\ conn[c] # "accepting"}
                      IN  /\ Cardinality(waiting) <= 1
                          /\ Count(trace[r], {"cancelled"}) =
                                IF state[r] = "cancelled" /\ waiting = {} THEN 1 ELSE 0
    BY DEF CancelRecordedOnce
  <2> DEFINE waiting == {c \in Conns : awaiting[c] = r /\ conn[c] # "accepting"}
  <2>1. \A c, d \in waiting : c = d
    BY DEF CancelInv, Cancelling
  <2>2. waiting = {} \/ \E c \in Conns : waiting = {c}
    BY <2>1
  <2>3. Cardinality(waiting) <= 1
    <3> HIDE DEF waiting
    <3>1. CASE waiting = {}
      BY <3>1, FS_EmptySet
    <3>2. ASSUME NEW c \in Conns, waiting = {c} PROVE Cardinality(waiting) <= 1
      BY <3>2, FS_Singleton
    <3> QED
      BY <2>2, <3>1, <3>2
  <2>4. AlreadyCancelled(r) <=> state[r] = "cancelled" /\ waiting = {}
    BY DEF AlreadyCancelled, Cancelling
  <2>5. Count(trace[r], {"cancelled"}) = IF AlreadyCancelled(r) THEN 1 ELSE 0
    BY DEF CancelInv
  <2> QED
    BY <2>3, <2>4, <2>5
<1> QED
  BY <1>1, LeaveInvariance, PTL

(* A run whose task is over, and for which nobody waits any more, has      *)
(* ended and holds no session; its ephemeral session is gone unless it was *)
(* cancelled before its task began (_execute_chat's finally block).        *)
THEOREM SettledRunsAreReleased ==
  ASSUME TraceMayFail = FALSE
  PROVE  Spec => []SettledRunReleased
<1>1. Inv /\ WaitInv /\ LeaveInv => SettledRunReleased
  BY DEF Inv, RunInv, TaskPhase, WaitInv, Awaited, Cancelling, LeaveInv, LeaveBut, Fleeting,
         Settled, SettledRunReleased
<1> QED
  BY <1>1, Invariance, LeaveInvariance, PTL

(* What the history of a session has, if Remembered says so of its runs. *)
LEMMA HistoryAsTold ==
  ASSUME TellInv, NEW X, LeaveBut(X), notices \in [Runs -> Seq(Notices)]
  PROVE  HistoryAgreesWithNotices
<1> SUFFICES ASSUME NEW r \in Runs, IsNamed(r)
             PROVE  /\ Count(notices[r], {"completed"}) > 0 => r \in history[sessionId[r]]
                    /\ Count(notices[r], {"failed"}) > 0 => r \notin history[sessionId[r]]
                    /\ state[r] = "cancelled" /\ r \in history[sessionId[r]] =>
                           /\ Count(trace[r], {"interrupted"}) = 1
                           /\ Count(notices[r], {"interrupted"}) = 1
  BY DEF HistoryAgreesWithNotices
<1>1. Sequel(r) /\ Remembered(r)
  BY DEF TellInv, LeaveBut
<1>2. ASSUME NEW kind \in {"completed", "failed"}, Count(notices[r], {kind}) > 0
      PROVE  Outcome(r) = kind
  <2>1. Count(notices[r], {kind}) # 0
    BY <1>2
  <2>2. PICK i \in DOMAIN notices[r] : notices[r][i] \in {kind}
    BY <2>1, CountNone
  <2>3. notices[r] # <<>>
    BY <2>2
  <2>4. i = Len(notices[r])
    BY <1>1, <2>2 DEF Sequel
  <2> QED
    BY <2>2, <2>3, <2>4 DEF Outcome
<1> QED
  BY <1>1, <1>2 DEF Remembered, Interrupts

(* The history agrees with what the client was told: the turn of an        *)
(* answered run is there, that of a failed one is not, and that of a       *)
(* cancelled one only after run_interrupted (handle_chat, _record_turn).   *)
THEOREM HistoryIsAsTold ==
  ASSUME TraceMayFail = FALSE
  PROVE  Spec => []HistoryAgreesWithNotices
<1>1. Inv /\ TellInv /\ LeaveInv => HistoryAgreesWithNotices
  BY HistoryAsTold DEF Inv, TypeOK, LeaveInv
<1> QED
  BY <1>1, Invariance, TellInvariance, LeaveInvariance, PTL

-----------------------------------------------------------------------------
(* ServerShutdown: the server around the sessions *)

USE DEF StopStates, progressVars, closeVars, pastVars, stopVars

(* TypeOK for everything but holder, which can be the server here. *)
RunTypeOK ==
    /\ conn \in [Conns -> ConnStates]
    /\ channel \in [Conns -> Named \cup {None}]
    /\ emptied \in [Conns -> SUBSET Named]
    /\ own \in [Conns -> SUBSET Runs]
    /\ awaiting \in [Conns -> Runs \cup {None}]
    /\ ephemeral \in SUBSET Runs
    /\ sinks \in [Named -> SUBSET Conns]
    /\ activeRun \in [Sessions -> Runs \cup {None}]
    /\ history \in [Named -> SUBSET Runs]
    /\ state \in [Runs -> RunStates]
    /\ sessionId \in [Runs -> Sessions \cup {None}]
    /\ initiator \in [Runs -> Conns \cup {None}]
    /\ task \in [Runs -> TaskStates]
    /\ cancelRequested \in [Runs -> BOOLEAN]
    /\ result \in [Runs -> Results]
    /\ heartbeat \in [Runs -> BOOLEAN]
    /\ trace \in [Runs -> Seq(TraceStages)]
    /\ notices \in [Runs -> Seq(Notices)]

(* Only a served connection subscribes, starts runs and ends; only served  *)
(* connections have a writer that stop() could close.                      *)
Linked ==
    \A c \in Conns : link[c] # "served" =>
        /\ conn[c] \in {"reading", "gone"}
        /\ channel[c] = None
        /\ c \notin closed
        /\ \A s \in Named : c \notin sinks[s]
        /\ \A r \in Runs : state[r] # "none" => initiator[r] # c

(* What is true between two waits of stop(). *)
Phase ==
    /\ stop \in {"serving", "requested", "runs"} =>
           cancelled = {} /\ gathered = {} /\ closed = {} /\ abandoned = {}
    /\ stop # "runs" => stopping = None /\ holder # Server
    /\ stopping # None => state[stopping] = "cancelled"
    /\ stop \in {"writers", "listener", "returned"} => \A c \in gathered : conn[c] = "gone"

StopInv == ~TraceMayFail /\ RunTypeOK /\ ShutdownTypeOK /\ RunInv /\ Linked /\ Phase

-----------------------------------------------------------------------------
(* Steps of SessionRuns *)

(* A connection moves, and with it at most the request to end. *)
Moves(c) ==
    /\ holder \in {None, c}
    /\ link[c] = "served"
    /\ c \notin cancelled
    /\ ClientStep(c) \/ ConnStep(c)
    /\ \/ stop' = stop
       \/ stop = "serving" /\ stop' = "requested"
    /\ UNCHANGED <<link, visiting, stopping, closeVars, pastVars>>

(* The three ways in which a connection takes a step of SessionRuns. *)
LEMMA ConnectionMoves ==
  ASSUME StopInv, NEW c \in Conns, Served(c) \/ EndOfFile(c) \/ RequestShutdown(c)
  PROVE  Moves(c)
<1>1. ClientStep(c) \/ ConnStep(c) => holder \in {None, c}
  BY DEF ClientStep, ConnStep, Attach, ChatBusy, ChatNotRecorded, StartChat, StartEphemeralChat,
         Detach, Disconnect, Reading, CreateTask, OnSessionEmpty, DetachDone, CancelRunIfUnobserved,
         ConnectionClosed, RunCancelled, CancelNotRecorded, CancelLanded
<1>2. Disconnect(c) => ClientStep(c)
  BY DEF ClientStep
<1>3. CASE Served(c)
  BY <1>1, <1>3 DEF Served, Moves
<1>4. CASE EndOfFile(c)
  BY <1>1, <1>2, <1>4 DEF EndOfFile, Moves, StopInv, Linked
<1>5. CASE RequestShutdown(c)
  BY <1>1, <1>2, <1>5 DEF RequestShutdown, Moves
<1> QED
  BY <1>3, <1>4, <1>5

(* A task moves only when nobody holds the event loop. *)
LEMMA TaskMoves ==
  ASSUME NEW r \in Runs, TaskStep(r) \/ Heartbeat(r)
  PROVE  /\ holder = None
         /\ UNCHANGED <<holder, conn, emptied, own, awaiting, sessionId, initiator>>
  BY DEF TaskStep, ExecuteChat, ExecuteCancelled, NeverStarted, AgentReturns, AgentRaises,
         RunCompleted, RunInterrupted, FinishInterrupted, OutcomeNotRecorded, TerminalNotice,
         ExecuteDone, CancelDelivered, Unwind, Heartbeat, At

(* No connection holds the event loop for the server. *)
LEMMA OrdinaryType ==
  ASSUME RunTypeOK, ShutdownTypeOK, holder # Server
  PROVE  TypeOK
  BY DEF RunTypeOK, ShutdownTypeOK, TypeOK

(* What SessionRunsProofs shows of a step of a connection. *)
LEMMA MovesKeeps ==
  ASSUME StopInv, NEW c \in Conns, Moves(c)
  PROVE  Inv /\ Inv' /\ [Next]_vars
<1>1. holder # Server
  BY ServerAssumption DEF Moves
<1>2. Inv
  BY <1>1, OrdinaryType DEF StopInv, Inv
<1>3. Next
  BY DEF Moves, Next
<1> QED
  BY <1>2, <1>3, TypeStep, RunInvStep DEF Inv, RunInv

(* The same for a step of a task. *)
LEMMA ExecutedKeeps ==
  ASSUME StopInv, NEW r \in Runs, Executed(r)
  PROVE  Inv /\ Inv' /\ [Next]_vars
<1>0. TaskStep(r) \/ Heartbeat(r)
  BY DEF Executed
<1>1. holder # Server
  BY <1>0, TaskMoves, ServerAssumption
<1>2. Inv
  BY <1>1, OrdinaryType DEF StopInv, Inv
<1>3. Next
  BY <1>0 DEF Next
<1> QED
  BY <1>2, <1>3, TypeStep, RunInvStep DEF Inv, RunInv


(* A connection changes nothing of another one, takes no run from its      *)
(* session or its initiator, and starts runs in its own name only.         *)
LEMMA ConnectionFacts ==
  ASSUME TypeOK, RunInv, NEW c \in Conns, ClientStep(c) \/ ConnStep(c)
  PROVE  /\ conn[c] # "gone"
         /\ \A d \in Conns \ {c} : /\ conn'[d] = conn[d]
                                   /\ awaiting'[d] = awaiting[d]
                                   /\ channel'[d] = channel[d]
         /\ \A s \in Named : sinks'[s] \subseteq sinks[s] \cup {c}
         /\ \A r \in Runs : state[r] # "none" =>
                /\ sessionId'[r] = sessionId[r]
                /\ initiator'[r] = initiator[r]
                /\ state'[r] # "none"
         /\ \A r \in Runs : state[r] = "none" /\ state'[r] # "none" => initiator'[r] = c
<1> DEFINE Facts == /\ conn[c] # "gone"
                    /\ \A d \in Conns \ {c} : /\ conn'[d] = conn[d]
                                              /\ awaiting'[d] = awaiting[d]
                                              /\ channel'[d] = channel[d]
                    /\ \A s \in Named : sinks'[s] \subseteq sinks[s] \cup {c}
                    /\ \A r \in Runs : state[r] # "none" =>
                           /\ sessionId'[r] = sessionId[r]
                           /\ initiator'[r] = initiator[r]
                           /\ state'[r] # "none"
                    /\ \A r \in Runs : state[r] = "none" /\ state'[r] # "none"
                                          => initiator'[r] = c
<1> SUFFICES Facts
  OBVIOUS
<1>1. ASSUME NEW s \in Named, Attach(c, s) \/ ChatBusy(c, s) \/ ChatNotRecorded(c, s)
      PROVE  Facts
  <2>1. /\ conn[c] = "reading"
        /\ Subscribe(c, s) \/ UNCHANGED <<channel, sinks>>
        /\ UNCHANGED <<conn, awaiting, runVars>>
    BY <1>1 DEF Attach, ChatBusy, ChatNotRecorded, SubscribeUnlessCurrent, Reading
  <2>2. CASE Subscribe(c, s)
    <3>1. \A d \in Conns \ {c} : channel'[d] = channel[d]
      BY <2>2 DEF Subscribe, TypeOK
    <3>2. \A t \in Named : sinks'[t] \subseteq sinks[t] \cup {c}
      BY <2>2 DEF Subscribe, TypeOK
    <3> QED
      BY <2>1, <3>1, <3>2
  <2> QED
    BY <2>1, <2>2
<1>2. ASSUME NEW s \in Named, NEW r \in Runs, StartChat(c, s, r) PROVE Facts
  BY <1>2 DEF StartChat, CreateRun, SubscribeUnlessCurrent, Subscribe, Reading, TypeOK
<1>3. ASSUME NEW r \in Runs, StartEphemeralChat(c, r) PROVE Facts
  BY <1>3 DEF StartEphemeralChat, CreateRun, Reading, TypeOK
<1>4. CASE Detach(c) \/ Disconnect(c)
  BY <1>4 DEF Detach, Disconnect, LeaveSessions, Reading, TypeOK
<1>5. CASE CreateTask(c)
  BY <1>5 DEF CreateTask, TypeOK
<1>6. ASSUME NEW s \in Named, OnSessionEmpty(c, s) PROVE Facts
  BY <1>6 DEF OnSessionEmpty, CancelRun, IsActive, TypeOK
<1>7. CASE DetachDone(c)
  BY <1>7 DEF DetachDone, AfterDetach, TypeOK
<1>8. ASSUME NEW r \in Runs, CancelRunIfUnobserved(c, r) PROVE Facts
  BY <1>8 DEF CancelRunIfUnobserved, CancelRun, IsActive, TypeOK
<1>9. CASE ConnectionClosed(c)
  BY <1>9 DEF ConnectionClosed, TypeOK
<1>10. CASE RunCancelled(c)
  BY <1>10 DEF RunCancelled, CancelLanded, TypeOK
<1>11. CASE CancelNotRecorded(c)
  BY <1>11 DEF CancelNotRecorded, CancelLanded, AfterDetach, TypeOK
<1> QED
  BY <1>1, <1>2, <1>3, <1>4, <1>5, <1>6, <1>7, <1>8, <1>9, <1>10, <1>11 DEF ClientStep, ConnStep

(* The task of a run ends at most its own run, and subscribes at most the  *)
(* connection that started it.                                             *)
LEMMA TaskFacts ==
  ASSUME TypeOK, RunInv, NEW r \in Runs, TaskStep(r) \/ Heartbeat(r)
  PROVE  /\ state[r] # "none"
         /\ \A q \in Runs : \/ state'[q] = state[q]
                            \/ q = r /\ state[r] = "running" /\ state'[r] \in Terminal
         /\ \A d \in Conns \ {initiator[r]} : channel'[d] = channel[d]
         /\ \A s \in Named : sinks'[s] \subseteq sinks[s] \cup {initiator[r]}
<1> DEFINE Facts == /\ state[r] # "none"
                    /\ \A q \in Runs : \/ state'[q] = state[q]
                                       \/ q = r /\ state[r] = "running" /\ state'[r] \in Terminal
                    /\ \A d \in Conns \ {initiator[r]} : channel'[d] = channel[d]
                    /\ \A s \in Named : sinks'[s] \subseteq sinks[s] \cup {initiator[r]}
<1> SUFFICES Facts
  OBVIOUS
<1>0. /\ state[r] = "none" => task[r] = "none"
      /\ task[r] \in {"agent", "final_stream", "interrupted_notice"}
            => cancelRequested[r] \/ state[r] = "running"
  BY DEF RunInv, HomeSession, TaskPhase
<1>1. CASE ExecuteChat(r)
  BY <1>0, <1>1 DEF ExecuteChat, At, SubscribeUnlessCurrent, Subscribe, TypeOK
<1>2. CASE \/ ExecuteCancelled(r) \/ NeverStarted(r) \/ AgentReturns(r) \/ RunInterrupted(r)
           \/ TerminalNotice(r) \/ CancelDelivered(r) \/ Unwind(r) \/ Heartbeat(r)
  BY <1>0, <1>2
     DEF ExecuteCancelled, NeverStarted, AgentReturns, RunInterrupted, TerminalNotice,
         CancelDelivered, Unwind, Heartbeat, At, TypeOK
<1>3. CASE AgentRaises(r)
  BY <1>0, <1>3 DEF AgentRaises, Fail, At, TypeOK
<1>4. CASE RunCompleted(r)
  BY <1>0, <1>4 DEF RunCompleted, At, TypeOK
<1>5. CASE FinishInterrupted(r)
  BY <1>0, <1>5 DEF FinishInterrupted, At, TypeOK
<1>6. CASE OutcomeNotRecorded(r)
  BY <1>0, <1>6 DEF OutcomeNotRecorded, Fail, At, TypeOK
<1>7. CASE ExecuteDone(r)
  BY <1>0, <1>7 DEF ExecuteDone, At, TypeOK
<1> QED
  BY <1>1, <1>2, <1>3, <1>4, <1>5, <1>6, <1>7 DEF TaskStep


(* A gone connection stays gone, so what leaked stays leaked. *)
LEMMA MovesInv ==
  ASSUME StopInv, NEW c \in Conns, Moves(c)
  PROVE  StopInv'
<1>0. /\ RunTypeOK /\ ShutdownTypeOK /\ RunInv /\ Linked /\ Phase
      /\ Inv /\ Inv' /\ TypeOK /\ TypeOK' /\ RunInv'
      /\ ClientStep(c) \/ ConnStep(c)
  BY MovesKeeps DEF StopInv, Inv, Moves
<1>1. /\ conn[c] # "gone"
      /\ \A d \in Conns \ {c} : /\ conn'[d] = conn[d]
                                /\ awaiting'[d] = awaiting[d]
                                /\ channel'[d] = channel[d]
      /\ \A s \in Named : sinks'[s] \subseteq sinks[s] \cup {c}
      /\ \A r \in Runs : state[r] # "none" =>
             /\ sessionId'[r] = sessionId[r]
             /\ initiator'[r] = initiator[r]
             /\ state'[r] # "none"
      /\ \A r \in Runs : state[r] = "none" /\ state'[r] # "none" => initiator'[r] = c
  BY <1>0, ConnectionFacts
<1>2. RunTypeOK'
  BY <1>0 DEF TypeOK, RunTypeOK
<1>3. ShutdownTypeOK'
  <2>1. holder' \in Conns \cup {None, Server}
    BY <1>0 DEF TypeOK
  <2>2. leaked' \in SUBSET {d \in Conns : conn'[d] = "gone"}
    BY <1>0, <1>1 DEF Moves, ShutdownTypeOK
  <2> QED
    BY <1>0, <2>1, <2>2 DEF Moves, ShutdownTypeOK
<1>4. Linked'
  <2> SUFFICES ASSUME NEW d \in Conns, link[d] # "served"
               PROVE  /\ conn'[d] \in {"reading", "gone"}
                      /\ channel'[d] = None
                      /\ d \notin closed
                      /\ \A s \in Named : d \notin sinks'[s]
                      /\ \A r \in Runs : state'[r] # "none" => initiator'[r] # d
    BY DEF Linked, Moves
  <2>1. d # c
    BY DEF Moves
  <2>2. ASSUME NEW r \in Runs, state'[r] # "none" PROVE initiator'[r] # d
    BY <1>0, <1>1, <2>1, <2>2 DEF Linked
  <2> QED
    BY <1>0, <1>1, <2>1, <2>2 DEF Linked
<1>5. Phase'
  <2>1. holder' # Server
    BY <1>0, ServerAssumption DEF TypeOK
  <2>2. stopping # None => state'[stopping] = "cancelled"
    <3>1. ASSUME stopping # None PROVE state'[stopping] = "cancelled"
      <4>1. stopping \in Runs /\ state[stopping] = "cancelled"
        BY <1>0, <3>1 DEF Phase, ShutdownTypeOK
      <4> QED
        BY <1>0, <4>1, MovesKeeps, TerminalStep
    <3> QED
      BY <3>1
  <2>3. stop' \in {"writers", "listener", "returned"} => \A d \in gathered : conn'[d] = "gone"
    BY <1>0, <1>1 DEF Moves, Phase, ShutdownTypeOK
  <2> QED
    BY <1>0, <2>1, <2>2, <2>3 DEF Moves, Phase
<1> QED
  BY <1>0, <1>2, <1>3, <1>4, <1>5 DEF StopInv

LEMMA ExecutedInv ==
  ASSUME StopInv, NEW r \in Runs, Executed(r)
  PROVE  StopInv'
<1>0. /\ RunTypeOK /\ ShutdownTypeOK /\ RunInv /\ Linked /\ Phase
      /\ Inv /\ Inv' /\ TypeOK /\ TypeOK' /\ RunInv' /\ HomeSession
      /\ TaskStep(r) \/ Heartbeat(r)
      /\ UNCHANGED stopVars
  BY ExecutedKeeps DEF StopInv, Inv, RunInv, Executed
<1>1. /\ state[r] # "none"
      /\ \A q \in Runs : \/ state'[q] = state[q]
                         \/ q = r /\ state[r] = "running" /\ state'[r] \in Terminal
      /\ \A d \in Conns \ {initiator[r]} : channel'[d] = channel[d]
      /\ \A s \in Named : sinks'[s] \subseteq sinks[s] \cup {initiator[r]}
  BY <1>0, TaskFacts
<1>2. /\ holder = None
      /\ UNCHANGED <<holder, conn, emptied, own, awaiting, sessionId, initiator>>
  BY <1>0, TaskMoves
<1>3. RunTypeOK' /\ ShutdownTypeOK'
  BY <1>0, <1>2 DEF TypeOK, RunTypeOK, ShutdownTypeOK
<1>4. Linked'
  <2> SUFFICES ASSUME NEW d \in Conns, link[d] # "served"
               PROVE  /\ conn'[d] \in {"reading", "gone"}
                      /\ channel'[d] = None
                      /\ d \notin closed
                      /\ \A s \in Named : d \notin sinks'[s]
                      /\ \A q \in Runs : state'[q] # "none" => initiator'[q] # d
    BY <1>0 DEF Linked
  <2>1. d # initiator[r]
    BY <1>0, <1>1 DEF Linked
  <2> QED
    BY <1>0, <1>1, <1>2, <2>1 DEF Linked
<1>5. Phase'
  <2>1. stopping # None => state'[stopping] = "cancelled"
    BY <1>0, <1>1 DEF Phase, ShutdownTypeOK
  <2> QED
    BY <1>0, <1>2, <2>1 DEF Phase
<1> QED
  BY <1>0, <1>3, <1>4, <1>5 DEF StopInv

-----------------------------------------------------------------------------
(* Steps of the server *)

(* Steps that leave SessionRuns alone. *)
Quiet == \/ \E c \in Conns : Accept(c) \/ Serve(c) \/ PeerCloses(c)
         \/ Signal \/ CloseWriters \/ CloseListener \/ Return

LEMMA QuietInv ==
  ASSUME StopInv, Quiet
  PROVE  StopInv' /\ UNCHANGED <<vars, pastVars>>
<1>0. /\ RunTypeOK /\ ShutdownTypeOK /\ RunInv /\ Linked /\ Phase
  BY DEF StopInv
<1>1. UNCHANGED <<vars, stopping, pastVars>>
  BY DEF Quiet, Accept, Serve, Signal, CloseWriters, CloseListener, Return, PeerCloses
<1>2. RunTypeOK' /\ RunInv'
  BY <1>0, <1>1, RunInvFrame DEF vars, RunTypeOK
<1>3. ShutdownTypeOK'
  BY <1>0, <1>1
     DEF Quiet, ShutdownTypeOK, Phase, Accept, Serve, Signal, CloseWriters, CloseListener, Return,
         PeerCloses, vars
<1>4. Linked'
  <2>1. CASE CloseWriters
    BY <1>0, <1>1, <2>1 DEF CloseWriters, Linked, vars
  <2>2. CASE ~CloseWriters
    BY <1>0, <1>1, <2>2
       DEF Quiet, Accept, Serve, Signal, CloseListener, Return, PeerCloses, Linked,
           ShutdownTypeOK, vars
  <2> QED
    BY <2>1, <2>2
<1>5. Phase'
  BY <1>0, <1>1
     DEF Quiet, Phase, Accept, Serve, Signal, CloseWriters, CloseListener, Return, PeerCloses, vars
<1> QED
  BY <1>1, <1>2, <1>3, <1>4, <1>5 DEF StopInv

(* stop() begins, and turns from the runs to the connections: only the     *)
(* event loop changes hands.                                               *)
LEMMA TurnInv ==
  ASSUME StopInv, BeginStop \/ CancelConnections
  PROVE  StopInv' /\ UNCHANGED <<connVars, sessionVars, runVars>>
<1>0. /\ RunTypeOK /\ ShutdownTypeOK /\ RunInv /\ Linked /\ Phase
  BY DEF StopInv
<1>1. UNCHANGED <<connVars, sessionVars, runVars, stopping, link, closed, leaked>>
  BY DEF BeginStop, CancelConnections
<1>2. RunTypeOK' /\ RunInv' /\ Linked'
  BY <1>0, <1>1, RunInvFrame DEF RunTypeOK, Linked
<1>3. ShutdownTypeOK'
  <2>1. CASE BeginStop
    BY <1>0, <1>1, <2>1 DEF ShutdownTypeOK, BeginStop, RunTypeOK
  <2>2. CASE CancelConnections
    BY <1>0, <1>1, <2>2 DEF ShutdownTypeOK, CancelConnections, Phase
  <2> QED
    BY <2>1, <2>2
<1>4. Phase'
  <2>1. CASE BeginStop
    BY <1>0, <1>1, <2>1 DEF Phase, BeginStop
  <2>2. CASE CancelConnections
    BY <1>0, <1>1, <2>2, ServerAssumption DEF Phase, CancelConnections
  <2> QED
    BY <2>1, <2>2
<1> QED
  BY <1>1, <1>2, <1>3, <1>4 DEF StopInv


(* What a visit does to the run it finds. *)
LEMMA VisitFacts ==
  ASSUME StopInv, NEW s \in Sessions, VisitSession(s)
  PROVE  /\ s \in visiting /\ visiting' = visiting \ {s} /\ stop = "runs"
         /\ UNCHANGED <<connVars, sessionVars, sessionId, initiator, task, result,
                        heartbeat, trace, notices, link, stop, closeVars, pastVars>>
         /\ \/ UNCHANGED <<state, cancelRequested, stopping, holder>> /\ ~IsActive(activeRun[s])
            \/ \E r \in Runs :
                   /\ r = activeRun[s] /\ state[r] = "running" /\ r # None
                   /\ state' = [state EXCEPT ![r] = "cancelled"]
                   /\ cancelRequested' = [cancelRequested EXCEPT ![r] = task[r] # "none"]
                   /\ stopping' = r /\ holder' \in {Server, None}
<1>1. activeRun[s] \in Runs \cup {None}
  BY DEF StopInv, RunTypeOK
<1> QED
  BY <1>1 DEF VisitSession, IsActive

LEMMA VisitInv ==
  ASSUME StopInv, NEW s \in Sessions, VisitSession(s)
  PROVE  StopInv'
<1>0. /\ RunTypeOK /\ ShutdownTypeOK /\ RunInv /\ Linked /\ Phase
  BY DEF StopInv
<1>1. CASE UNCHANGED <<state, cancelRequested, stopping, holder>>
  <2>1. RunTypeOK' /\ RunInv' /\ Linked' /\ Phase'
    BY <1>0, <1>1, VisitFacts, RunInvFrame DEF RunTypeOK, Linked, Phase
  <2>2. ShutdownTypeOK'
    BY <1>0, <1>1, VisitFacts DEF ShutdownTypeOK
  <2> QED
    BY <2>1, <2>2 DEF StopInv
<1>2. ASSUME NEW r \in Runs, r = activeRun[s], state[r] = "running", r # None,
             state' = [state EXCEPT ![r] = "cancelled"],
             cancelRequested' = [cancelRequested EXCEPT ![r] = task[r] # "none"],
             stopping' = r, holder' \in {Server, None}
      PROVE  StopInv'
  <2>0. /\ HomeSession /\ ActiveRunHome /\ RunningIsActive /\ TaskPhase /\ AwaitedRun /\ OneAcceptor
        /\ UNCHANGED <<connVars, sessionVars, sessionId, initiator, task, result, heartbeat,
                       trace, notices, link, stop, closeVars, pastVars>>
        /\ visiting' = visiting \ {s} /\ stop = "runs"
    BY <1>0, VisitFacts DEF RunInv
  <2>1. /\ state'[r] = "cancelled" /\ cancelRequested'[r] = (task[r] # "none")
        /\ \A q \in Runs \ {r} : state'[q] = state[q] /\ cancelRequested'[q] = cancelRequested[q]
    BY <1>0, <1>2 DEF RunTypeOK
  <2>2. RunTypeOK'
    BY <1>0, <1>2, <2>0 DEF RunTypeOK
  <2>3. ShutdownTypeOK'
    BY <1>0, <1>2, <2>0 DEF ShutdownTypeOK
  <2>4. HomeSession'
    BY <1>2, <2>0, <2>1 DEF HomeSession
  <2>5. ActiveRunHome'
    BY <1>0, <2>0, <2>1 DEF ActiveRunHome, RunTypeOK
  <2>6. RunningIsActive'
    BY <2>0, <2>1 DEF RunningIsActive, IsNamed
  <2>7. TaskPhase'
    <3> SUFFICES ASSUME NEW q \in Runs
                 PROVE  /\ cancelRequested'[q] => state'[q] = "cancelled"
                        /\ task[q] = "unwind" => cancelRequested'[q]
                        /\ task[q] \in {"agent", "final_stream", "interrupted_notice"}
                              => cancelRequested'[q] \/ state'[q] = "running"
                        /\ task[q] = "done" => state'[q] \in Terminal
      BY <2>0 DEF TaskPhase
    <3>1. CASE q = r
      BY <2>1, <3>1
    <3>2. CASE q # r
      BY <2>0, <2>1, <3>2 DEF TaskPhase
    <3> QED
      BY <3>1, <3>2
  <2>8. AwaitedRun'
    BY <1>0, <2>0, <2>1 DEF AwaitedRun, RunTypeOK
  <2>9. OneAcceptor'
    BY <2>0 DEF OneAcceptor
  <2>10. Linked'
    BY <1>0, <1>2, <2>0, <2>1 DEF Linked
  <2>11. Phase'
    BY <1>0, <1>2, <2>0, <2>1 DEF Phase
  <2> QED
    BY <2>2, <2>3, <2>4, <2>5, <2>6, <2>7, <2>8, <2>9, <2>10, <2>11 DEF StopInv, RunInv
<1> QED
  BY <1>1, <1>2, VisitFacts

(* The run stop() waited for is over: its session is free unless it has a  *)
(* newer run.                                                              *)
LEMMA RunStoppedInv ==
  ASSUME StopInv, RunStopped
  PROVE  StopInv' /\ stopping \in Runs
<1>0. /\ RunTypeOK /\ ShutdownTypeOK /\ RunInv /\ Linked /\ Phase
  BY DEF StopInv
<1>1. /\ stopping \in Runs /\ state[stopping] = "cancelled" /\ stop = "runs"
      /\ stopping' = None /\ holder' = Server
      /\ trace' = [trace EXCEPT ![stopping] = Append(@, "cancelled")]
      /\ activeRun' = [activeRun EXCEPT ![sessionId[stopping]] = IF @ = stopping THEN None ELSE @]
      /\ UNCHANGED <<connVars, ephemeral, sinks, history, state, sessionId, initiator,
                     task, cancelRequested, result, heartbeat, notices, link, stop,
                     visiting, closeVars, pastVars>>
  BY <1>0 DEF RunStopped, Record, Release, ShutdownTypeOK, Phase
<1>2. \A t \in Sessions : \/ activeRun'[t] = activeRun[t]
                          \/ activeRun[t] = stopping /\ activeRun'[t] = None
  BY <1>0, <1>1 DEF RunTypeOK
<1>3. RunTypeOK'
  <2>1. activeRun' \in [Sessions -> Runs \cup {None}]
    BY <1>0, <1>1 DEF RunTypeOK
  <2>2. trace' \in [Runs -> Seq(TraceStages)]
    BY <1>0, <1>1 DEF RunTypeOK
  <2> QED
    BY <1>0, <1>1, <2>1, <2>2 DEF RunTypeOK
<1>4. ShutdownTypeOK'
  BY <1>0, <1>1 DEF ShutdownTypeOK
<1>5. ActiveRunHome'
  BY <1>0, <1>1, <1>2 DEF RunInv, ActiveRunHome
<1>6. RunningIsActive'
  <2> SUFFICES ASSUME NEW q \in Runs, state[q] = "running"
               PROVE  activeRun'[sessionId[q]] = q /\ (~IsNamed(q) => q \in ephemeral)
    BY <1>1 DEF RunningIsActive, IsNamed
  <2>1. q # stopping /\ sessionId[q] \in Sessions
    BY <1>0, <1>1 DEF RunInv, HomeSession
  <2>2. activeRun[sessionId[q]] = q /\ (~IsNamed(q) => q \in ephemeral)
    BY <1>0 DEF RunInv, RunningIsActive
  <2> QED
    BY <1>2, <2>1, <2>2
<1>7. HomeSession' /\ TaskPhase' /\ AwaitedRun' /\ OneAcceptor'
  BY <1>0, <1>1 DEF RunInv, HomeSession, TaskPhase, AwaitedRun, OneAcceptor
<1>8. Linked'
  BY <1>0, <1>1 DEF Linked
<1>9. Phase'
  BY <1>0, <1>1 DEF Phase
<1> QED
  BY <1>1, <1>3, <1>4, <1>5, <1>6, <1>7, <1>8, <1>9 DEF StopInv, RunInv

(* The task of a run whose clean-up is cut short is over all the same. *)
LEMMA InterruptedInv ==
  ASSUME StopInv, NEW r \in Runs, UnwindInterrupted(r)
  PROVE  StopInv'
<1>0. /\ RunTypeOK /\ ShutdownTypeOK /\ RunInv /\ Linked /\ Phase
  BY DEF StopInv
<1>1. /\ task[r] = "unwind" /\ task' = [task EXCEPT ![r] = "done"]
      /\ UNCHANGED <<holder, connVars, sessionVars, state, sessionId, initiator,
                     cancelRequested, result, heartbeat, trace, notices, stopVars>>
  BY DEF UnwindInterrupted, Goto
<1>2. state[r] = "cancelled"
  BY <1>0, <1>1 DEF RunInv, TaskPhase
<1>3. task'[r] = "done" /\ \A q \in Runs \ {r} : task'[q] = task[q]
  BY <1>0, <1>1 DEF RunTypeOK
<1>4. RunTypeOK' /\ ShutdownTypeOK'
  BY <1>0, <1>1 DEF RunTypeOK, ShutdownTypeOK
<1>5. HomeSession' /\ ActiveRunHome' /\ RunningIsActive'
  BY <1>0, <1>1, <1>2, <1>3 DEF RunInv, HomeSession, ActiveRunHome, RunningIsActive, IsNamed
<1>6. TaskPhase'
  BY <1>0, <1>1, <1>2, <1>3 DEF RunInv, TaskPhase
<1>7. AwaitedRun' /\ OneAcceptor'
  BY <1>0, <1>1, <1>3 DEF RunInv, AwaitedRun, OneAcceptor, RunTypeOK
<1>8. Linked' /\ Phase'
  BY <1>0, <1>1 DEF Linked, Phase
<1> QED
  BY <1>4, <1>5, <1>6, <1>7, <1>8 DEF StopInv, RunInv


(* A cancelled connection leaves: of SessionRuns only its own place and    *)
(* subscriptions change.                                                   *)
LEMMA CancelledFacts ==
  ASSUME StopInv, NEW c \in Conns, Cancelled(c)
  PROVE  /\ c \in cancelled /\ cancelled' = cancelled \ {c}
         /\ \/ conn' = [conn EXCEPT ![c] = "gone"]
            \/ conn' = [conn EXCEPT ![c] = "closing"] /\ link[c] = "served"
         /\ awaiting' = [awaiting EXCEPT ![c] = None]
         /\ \A d \in Conns \ {c} : channel'[d] = channel[d]
         /\ channel'[c] \in {channel[c], None}
         /\ \A s \in Named : sinks'[s] \subseteq sinks[s]
         /\ holder' \in {None, c}
         /\ UNCHANGED <<ephemeral, activeRun, history, runVars, link, progressVars, gathered,
                        closed, interrupted, inFlight, abandoned>>
<1>0. /\ RunTypeOK /\ ShutdownTypeOK /\ RunInv /\ Linked /\ Phase
  BY DEF StopInv
<1>1. CASE NeverServed(c)
  <2>1. awaiting[c] = None
    BY <1>0, <1>1 DEF NeverServed, Linked, RunInv, AwaitedRun
  <2>2. awaiting' = [awaiting EXCEPT ![c] = None]
    BY <1>0, <1>1, <2>1 DEF NeverServed, RunTypeOK
  <2> QED
    BY <1>0, <1>1, <2>2 DEF NeverServed
<1>2. CASE LoopCancelled(c)
  BY <1>0, <1>2 DEF LoopCancelled, LeaveSessions, RunTypeOK
<1>3. CASE CleanupCancelled(c)
  BY <1>0, <1>3 DEF CleanupCancelled
<1> QED
  BY <1>1, <1>2, <1>3 DEF Cancelled

LEMMA CancelledInv ==
  ASSUME StopInv, NEW c \in Conns, Cancelled(c)
  PROVE  StopInv'
<1>0. /\ RunTypeOK /\ ShutdownTypeOK /\ RunInv /\ Linked /\ Phase
  BY DEF StopInv
<1>1. /\ c \in cancelled /\ cancelled' = cancelled \ {c}
      /\ \/ conn'[c] = "gone"
         \/ conn'[c] = "closing" /\ link[c] = "served"
      /\ awaiting'[c] = None
      /\ \A d \in Conns \ {c} : /\ conn'[d] = conn[d]
                                /\ awaiting'[d] = awaiting[d]
                                /\ channel'[d] = channel[d]
      /\ channel'[c] \in {channel[c], None}
      /\ \A s \in Named : sinks'[s] \subseteq sinks[s]
      /\ holder' \in {None, c}
      /\ UNCHANGED <<ephemeral, activeRun, history, runVars, link, progressVars, gathered,
                     closed, interrupted, inFlight, abandoned>>
  BY <1>0, CancelledFacts DEF RunTypeOK
<1>2. RunTypeOK'
  <2>1. CASE NeverServed(c)
    BY <1>0, <2>1 DEF NeverServed, RunTypeOK
  <2>2. CASE LoopCancelled(c)
    BY <1>0, <2>2 DEF LoopCancelled, LeaveSessions, RunTypeOK
  <2>3. CASE CleanupCancelled(c)
    BY <1>0, <2>3 DEF CleanupCancelled, RunTypeOK
  <2> QED
    BY <2>1, <2>2, <2>3 DEF Cancelled
<1>3. ShutdownTypeOK'
  <2>1. skipped' \in SUBSET Runs
    BY <1>0 DEF Cancelled, NeverServed, LoopCancelled, CleanupCancelled, ShutdownTypeOK,
                Unvisited, Unswept
  <2>2. leaked' \in SUBSET {d \in Conns : conn'[d] = "gone"}
    <3>1. conn[c] = "gone" => conn'[c] = "gone"
      BY <1>0, <1>1 DEF Cancelled, NeverServed, LoopCancelled, CleanupCancelled, RunTypeOK
    <3>2. \/ leaked' = leaked
          \/ leaked' = leaked \cup {c} /\ conn'[c] = "gone"
      BY <1>0 DEF Cancelled, NeverServed, LoopCancelled, CleanupCancelled, RunTypeOK
    <3> QED
      BY <1>0, <1>1, <3>1, <3>2 DEF ShutdownTypeOK
  <2> QED
    BY <1>0, <1>1, <2>1, <2>2 DEF ShutdownTypeOK
<1>4. HomeSession' /\ ActiveRunHome' /\ RunningIsActive' /\ TaskPhase'
  BY <1>0, <1>1 DEF RunInv, HomeSession, ActiveRunHome, RunningIsActive, TaskPhase, IsNamed
<1>5. AwaitedRun'
  <2> SUFFICES ASSUME NEW d \in Conns
               PROVE  /\ conn'[d] = "accepting" => /\ awaiting'[d] # None
                                                   /\ state[awaiting'[d]] # "none"
                                                   /\ task[awaiting'[d]] = "none"
                      /\ conn'[d] \in {"reading", "gone"} => awaiting'[d] = None
                      /\ conn'[d] # "accepting" /\ awaiting'[d] # None
                            => state[awaiting'[d]] = "cancelled"
    BY <1>1 DEF AwaitedRun
  <2>1. CASE d = c
    BY <1>1, <2>1
  <2>2. CASE d # c
    BY <1>0, <1>1, <2>2 DEF RunInv, AwaitedRun
  <2> QED
    BY <2>1, <2>2
<1>6. OneAcceptor'
  <2> SUFFICES ASSUME NEW d \in Conns, NEW e \in Conns,
                      conn'[d] = "accepting", conn'[e] = "accepting", awaiting'[d] = awaiting'[e]
               PROVE  d = e
    BY DEF OneAcceptor
  <2> QED
    BY <1>0, <1>1 DEF RunInv, OneAcceptor
<1>7. Linked'
  <2> SUFFICES ASSUME NEW d \in Conns, link[d] # "served"
               PROVE  /\ conn'[d] \in {"reading", "gone"}
                      /\ channel'[d] = None
                      /\ d \notin closed
                      /\ \A s \in Named : d \notin sinks'[s]
                      /\ \A r \in Runs : state[r] # "none" => initiator[r] # d
    BY <1>1 DEF Linked
  <2>1. conn'[d] \in {"reading", "gone"} /\ channel'[d] = None
    BY <1>0, <1>1 DEF Linked
  <2> QED
    BY <1>0, <1>1, <2>1 DEF Linked
<1>8. Phase'
  <2>1. \A d \in Conns : conn[d] = "gone" => conn'[d] = "gone"
    BY <1>0, <1>1 DEF Cancelled, NeverServed, LoopCancelled, CleanupCancelled, RunTypeOK
  <2> QED
    BY <1>0, <1>1, <2>1, ServerAssumption DEF Phase, ShutdownTypeOK
<1> QED
  BY <1>2, <1>3, <1>4, <1>5, <1>6, <1>7, <1>8 DEF StopInv, RunInv

(* Before the first connection. *)
LEMMA StopInit == ShutdownInit => StopInv
<1> SUFFICES ASSUME ShutdownInit PROVE StopInv
  OBVIOUS
<1>1. Inv
  BY TypeInit, RunInvInit DEF ShutdownInit, Inv
<1>2. RunTypeOK /\ RunInv
  BY <1>1 DEF Inv, TypeOK, RunTypeOK
<1>3. ShutdownTypeOK
  BY DEF ShutdownInit, ShutdownTypeOK, Init
<1>4. Linked
  BY DEF ShutdownInit, Linked, Init
<1>5. Phase
  BY ServerAssumption DEF ShutdownInit, Phase, Init
<1> QED
  BY <1>2, <1>3, <1>4, <1>5 DEF StopInv, ShutdownInit

LEMMA StopInvStep == StopInv /\ [ShutdownNext]_shutdownVars => StopInv'
<1> SUFFICES ASSUME StopInv, [ShutdownNext]_shutdownVars PROVE StopInv'
  OBVIOUS
<1>1. ASSUME NEW c \in Conns, Accept(c) \/ Serve(c) \/ PeerCloses(c) PROVE StopInv'
  BY <1>1, QuietInv DEF Quiet
<1>2. ASSUME NEW c \in Conns, Served(c) \/ EndOfFile(c) \/ RequestShutdown(c) PROVE StopInv'
  BY <1>2, ConnectionMoves, MovesInv
<1>3. ASSUME NEW c \in Conns, Cancelled(c) PROVE StopInv'
  BY <1>3, CancelledInv
<1>4. ASSUME NEW r \in Runs, Executed(r) \/ UnwindInterrupted(r) PROVE StopInv'
  BY <1>4, ExecutedInv, InterruptedInv
<1>5. CASE StopStep \/ Signal
  <2>1. CASE Signal \/ CloseWriters \/ CloseListener \/ Return
    BY <2>1, QuietInv DEF Quiet
  <2>2. CASE BeginStop \/ CancelConnections
    BY <2>2, TurnInv
  <2>3. ASSUME NEW s \in Sessions, VisitSession(s) PROVE StopInv'
    BY <2>3, VisitInv
  <2>4. CASE RunStopped
    BY <2>4, RunStoppedInv
  <2> QED
    BY <1>5, <2>1, <2>2, <2>3, <2>4 DEF StopStep
<1>6. CASE UNCHANGED shutdownVars
  BY <1>6, RunInvFrame
     DEF shutdownVars, vars, StopInv, RunTypeOK, ShutdownTypeOK, Linked, Phase
<1> QED
  BY <1>1, <1>2, <1>3, <1>4, <1>5, <1>6 DEF ShutdownNext

LEMMA StopInvariance == ShutdownSpec => []StopInv
  BY StopInit, StopInvStep, PTL DEF ShutdownSpec

(* Every variable of the server and of stop() keeps its type. *)
THEOREM ShutdownTypeCorrect == ShutdownSpec => []ShutdownTypeOK
  BY StopInvariance, PTL DEF StopInv


-----------------------------------------------------------------------------
(* Runs in flight *)

(* A run stays where and whose it is, and its end is final, whoever moves. *)
LEMMA RunsStay ==
  ASSUME StopInv, [ShutdownNext]_shutdownVars, NEW r \in Runs, state[r] # "none"
  PROVE  /\ state'[r] # "none"
         /\ sessionId'[r] = sessionId[r]
         /\ initiator'[r] = initiator[r]
         /\ state[r] \in Terminal => state'[r] = state[r]
<1> DEFINE Stays == /\ state'[r] # "none"
                    /\ sessionId'[r] = sessionId[r]
                    /\ initiator'[r] = initiator[r]
                    /\ state[r] \in Terminal => state'[r] = state[r]
<1> SUFFICES Stays
  OBVIOUS
<1>0. /\ RunTypeOK /\ ShutdownTypeOK /\ RunInv
  BY DEF StopInv
<1>1. CASE UNCHANGED <<state, sessionId, initiator>>
  BY <1>1
<1>2. ASSUME NEW c \in Conns, Moves(c) PROVE Stays
  <2>1. /\ state'[r] # "none"
        /\ sessionId'[r] = sessionId[r]
        /\ initiator'[r] = initiator[r]
    BY <1>0, <1>2, MovesKeeps, ConnectionFacts DEF Moves, Inv
  <2>2. state[r] \in Terminal => state'[r] = state[r]
    BY <1>2, MovesKeeps, TerminalStep
  <2> QED
    BY <2>1, <2>2
<1>3. ASSUME NEW q \in Runs, Executed(q) PROVE Stays
  <2>1. TaskStep(q) \/ Heartbeat(q)
    BY <1>3 DEF Executed
  <2>2. /\ UNCHANGED <<sessionId, initiator>>
        /\ \/ state'[r] = state[r]
           \/ r = q /\ state[q] = "running" /\ state'[q] \in Terminal
    BY <1>3, <2>1, ExecutedKeeps, TaskFacts, TaskMoves DEF Inv
  <2> QED
    BY <2>2
<1>4. ASSUME NEW s \in Sessions, VisitSession(s) PROVE Stays
  <2>1. /\ UNCHANGED <<sessionId, initiator>>
        /\ \/ UNCHANGED state
           \/ \E q \in Runs : /\ state[q] = "running"
                             /\ state' = [state EXCEPT ![q] = "cancelled"]
    BY <1>4, VisitFacts
  <2>2. ASSUME NEW q \in Runs, state[q] = "running", state' = [state EXCEPT ![q] = "cancelled"]
        PROVE  /\ state'[r] # "none"
               /\ state[r] \in Terminal => state'[r] = state[r]
    BY <1>0, <2>2 DEF RunTypeOK
  <2> QED
    BY <1>1, <2>1, <2>2
<1>5. CASE RunStopped
  BY <1>1, <1>5 DEF RunStopped
<1>6. ASSUME NEW c \in Conns, Cancelled(c) PROVE Stays
  BY <1>1, <1>6, CancelledFacts
<1>7. ASSUME NEW q \in Runs, UnwindInterrupted(q) PROVE Stays
  BY <1>1, <1>7 DEF UnwindInterrupted
<1>8. CASE Quiet
  BY <1>1, <1>8, QuietInv DEF vars
<1>9. CASE BeginStop \/ CancelConnections
  BY <1>1, <1>9, TurnInv
<1>10. CASE UNCHANGED shutdownVars
  BY <1>1, <1>10 DEF shutdownVars, vars
<1> QED
  BY <1>2, <1>3, <1>4, <1>5, <1>6, <1>7, <1>8, <1>9, <1>10, ConnectionMoves
     DEF ShutdownNext, StopStep, Quiet

(* The busy check stays right while the server stops: cancelled            *)
(* connections leave runs to nobody, but never two to a session.           *)
THEOREM OneRunPerSessionToTheEnd == ShutdownSpec => []RunningIsActive
  BY StopInvariance, PTL DEF StopInv, RunInv

(* Neither stop() nor a cancelled connection ends a run a second time. *)
THEOREM EndsStayFinal == ShutdownSpec => TerminalIsFinal
<1>1. StopInv /\ [ShutdownNext]_shutdownVars
         => [\A r \in Runs : state[r] \in Terminal => state'[r] = state[r]]_state
  BY RunsStay
<1> QED
  BY <1>1, StopInvariance, PTL DEF ShutdownSpec, TerminalIsFinal

-----------------------------------------------------------------------------
(* What is told while the server stops *)

(* A visit of stop() ends the run it finds; nothing else that the server   *)
(* does to stop is heard of by a client.                                   *)
LEMMA StopPromised ==
  ASSUME StopInv, TellInv, [ShutdownNext]_shutdownVars
  PROVE  Promised
<1>0. RunTypeOK /\ ShutdownTypeOK /\ RunInv
  BY DEF StopInv
<1>1. CASE UNCHANGED <<state, sessionId, task, cancelRequested, result, heartbeat, notices>>
  BY <1>1, QuietKeeps DEF Unheard
<1>2. ASSUME NEW c \in Conns, Moves(c) PROVE Promised
  BY <1>2, MovesKeeps, ConnectionStep DEF Moves
<1>3. ASSUME NEW r \in Runs, Executed(r) PROVE Promised
  BY <1>3, ExecutedKeeps, RunStep DEF Executed
<1>4. ASSUME NEW s \in Sessions, VisitSession(s) PROVE Promised
  <2>1. ASSUME NEW r \in Runs, state[r] = "running", state' = [state EXCEPT ![r] = "cancelled"],
               cancelRequested' = [cancelRequested EXCEPT ![r] = task[r] # "none"]
        PROVE  Promised
    <3>1. UNCHANGED <<sessionId, task, result, heartbeat, notices>>
      BY <1>4, VisitFacts
    <3>2. /\ state'[r] = "cancelled" /\ (cancelRequested'[r] <=> task[r] # "none")
          /\ \A q \in Runs \ {r} : state'[q] = state[q] /\ cancelRequested'[q] = cancelRequested[q]
      BY <1>0, <2>1 DEF RunTypeOK
    <3>3. Alone(r)
      BY <3>1, <3>2 DEF Alone, Unheard
    <3>4. Outcome(r)' = Outcome(r)
      BY <3>1 DEF Outcome
    <3>5. Telling(r)' /\ Sequel(r)'
      BY <2>1, <3>1, <3>2, <3>4 DEF TellInv, Telling, Sequel
    <3>6. "cancelled" \in Service!Ends
      BY DEF Service!Ends
    <3> QED
      BY <2>1, <3>1, <3>3, <3>4, <3>5, <3>6, Finishes
  <2>2. \/ UNCHANGED <<state, cancelRequested>>
        \/ \E r \in Runs : /\ state[r] = "running" /\ state' = [state EXCEPT ![r] = "cancelled"]
                           /\ cancelRequested' = [cancelRequested EXCEPT ![r] = task[r] # "none"]
    BY <1>4, VisitFacts
  <2>3. UNCHANGED <<sessionId, task, result, heartbeat, notices>>
    BY <1>4, VisitFacts
  <2> QED
    BY <1>1, <2>1, <2>2, <2>3
<1>5. ASSUME NEW r \in Runs, UnwindInterrupted(r) PROVE Promised
  <2>1. /\ task[r] = "unwind" /\ task'[r] = "done" /\ \A q \in Runs \ {r} : task'[q] = task[q]
        /\ UNCHANGED <<state, sessionId, cancelRequested, result, heartbeat, notices>>
    BY <1>0, <1>5 DEF UnwindInterrupted, Goto, RunTypeOK
  <2>2. Alone(r) /\ Outcome(r)' = Outcome(r)
    BY <2>1 DEF Alone, Unheard, Outcome
  <2>3. Telling(r)' /\ Sequel(r)'
    BY <2>1, <2>2 DEF TellInv, Telling, Sequel
  <2> QED
    BY <2>1, <2>2, <2>3, GoesOn
<1>6. CASE RunStopped
  BY <1>1, <1>6 DEF RunStopped
<1>7. ASSUME NEW c \in Conns, Cancelled(c) PROVE Promised
  BY <1>1, <1>7, CancelledFacts
<1>8. CASE Quiet
  BY <1>1, <1>8, QuietInv DEF vars
<1>9. CASE BeginStop \/ CancelConnections
  BY <1>1, <1>9, TurnInv
<1>10. CASE UNCHANGED shutdownVars
  BY <1>1, <1>10 DEF shutdownVars, vars
<1> QED
  BY <1>2, <1>3, <1>4, <1>5, <1>6, <1>7, <1>8, <1>9, <1>10, ConnectionMoves
     DEF ShutdownNext, StopStep, Quiet

LEMMA StopTellInvariance == ShutdownSpec => [](StopInv /\ TellInv)
<1>1. ShutdownInit => StopInv /\ TellInv
  BY StopInit, TellInit DEF ShutdownInit
<1>2. StopInv /\ TellInv /\ [ShutdownNext]_shutdownVars => (StopInv /\ TellInv)'
  BY StopInvStep, StopPromised DEF Promised
<1> QED
  BY <1>1, <1>2, PTL DEF ShutdownSpec

(* The server keeps the promises of RunService while it stops, too: stop() *)
(* and cancelled connections end a run in one of the four ways, and what   *)
(* was told of it stays true (TCPServer.stop, cancel_all_active_runs).     *)
THEOREM ServesAsPromisedToTheEnd == ShutdownSpec => KeepsPromises
<1>1. ShutdownInit => Service!Init
  BY TellInit DEF ShutdownInit
<1>2. StopInv /\ TellInv /\ [ShutdownNext]_shutdownVars => [Service!Next]_(Service!vars)
  BY StopPromised DEF Promised
<1> QED
  BY <1>1, <1>2, StopTellInvariance, PTL DEF ShutdownSpec, KeepsPromises, Service!Spec

(* No heartbeat or outcome comes out of order, or contradicts the state of *)
(* the run, because the server stops in the middle of it.                  *)
THEOREM NoticesStayInOrder == ShutdownSpec => []NoticesInOrder
<1>1. StopInv /\ TellInv => NoticesInOrder
  BY NoticesAsTold DEF StopInv, RunTypeOK
<1> QED
  BY <1>1, StopTellInvariance, PTL

(* What a session remembers of a run does not depend on how its task or    *)
(* its connections end.  (An interrupted clean-up leaves the session of    *)
(* the run in the registry: this is LeaveInv but for the sessions.)        *)
LEMMA StopRemembers ==
  ASSUME StopInv, TellInv, TellInv', LeaveBut(Runs), [ShutdownNext]_shutdownVars
  PROVE  LeaveBut(Runs)'
<1>0. RunTypeOK /\ ShutdownTypeOK /\ TaskPhase /\ TraceMayFail = FALSE
  BY ConstantsAssumption DEF StopInv, RunInv
<1>1. CASE UNCHANGED <<ephemeral, history, state, sessionId, task, cancelRequested, result,
                       heartbeat, notices, trace>>
  BY <1>1, AllUndisturbed
<1>2. ASSUME NEW c \in Conns, Moves(c) PROVE LeaveBut(Runs)'
  BY <1>0, <1>2, MovesKeeps, LeaveConnection DEF Moves
<1>3. ASSUME NEW r \in Runs, Executed(r) PROVE LeaveBut(Runs)'
  BY <1>0, <1>3, ExecutedKeeps, LeaveTask DEF Executed
<1>4. ASSUME NEW s \in Sessions, VisitSession(s) PROVE LeaveBut(Runs)'
  <2>1. /\ UNCHANGED <<sessionVars, sessionId, task, result, heartbeat, trace, notices>>
        /\ \/ UNCHANGED <<state, cancelRequested>>
           \/ \E r \in Runs :
                  /\ state[r] = "running" /\ state' = [state EXCEPT ![r] = "cancelled"]
                  /\ cancelRequested' = [cancelRequested EXCEPT ![r] = task[r] # "none"]
    BY <1>4, VisitFacts
  <2> QED
    BY <1>0, <1>1, <2>1, LeaveCancel DEF RunTypeOK
<1>5. ASSUME NEW r \in Runs, UnwindInterrupted(r) PROVE LeaveBut(Runs)'
  <2>1. /\ task[r] = "unwind" /\ task'[r] = "done" /\ \A q \in Runs \ {r} : task'[q] = task[q]
        /\ UNCHANGED <<ephemeral, history, state, sessionId, cancelRequested, result, heartbeat,
                       trace, notices>>
    BY <1>0, <1>5 DEF UnwindInterrupted, Goto, RunTypeOK
  <2>2. ASSUME NEW q \in Runs \ {r} PROVE Remembered(q)'
    <3>1. Undisturbed(q)
      BY <2>1 DEF Undisturbed, Unheard
    <3> QED
      BY <3>1, UndisturbedKeeps DEF LeaveBut
  <2>3. Outcome(r)' = Outcome(r) /\ ~Early(r)' /\ (IsNamed(r)' <=> IsNamed(r))
    BY <2>1 DEF Outcome, Early, IsNamed
  <2>4. Remembered(r) /\ state[r] = "cancelled"
    BY <1>0, <2>1 DEF LeaveBut, TaskPhase
  <2>5. Remembered(r)'
    BY <2>1, <2>3, <2>4 DEF Remembered
  <2> QED
    BY <2>2, <2>5 DEF LeaveBut
<1>6. CASE RunStopped
  <2>1. Record(stopping, "cancelled") /\ stopping \in Runs
    BY <1>0, <1>6 DEF RunStopped, ShutdownTypeOK
  <2>2. trace \in [Runs -> Seq(TraceStages)] /\ notices \in [Runs -> Seq(Notices)]
    BY <1>0 DEF RunTypeOK
  <2>3. /\ Interrupts(trace'[stopping]) = Interrupts(trace[stopping])
        /\ \A q \in Runs \ {stopping} : trace'[q] = trace[q]
    BY <2>1, <2>2, Interruptions
  <2>4. \A q \in Runs : Interrupts(trace'[q]) = Interrupts(trace[q])
    BY <2>3
  <2> QED
    BY <1>6, <2>4, AllUndisturbed DEF RunStopped
<1>7. ASSUME NEW c \in Conns, Cancelled(c) PROVE LeaveBut(Runs)'
  BY <1>1, <1>7, CancelledFacts
<1>8. CASE Quiet
  BY <1>1, <1>8, QuietInv DEF vars
<1>9. CASE BeginStop \/ CancelConnections
  BY <1>1, <1>9, TurnInv
<1>10. CASE UNCHANGED shutdownVars
  BY <1>1, <1>10 DEF shutdownVars, vars
<1> QED
  BY <1>2, <1>3, <1>4, <1>5, <1>6, <1>7, <1>8, <1>9, <1>10, ConnectionMoves
     DEF ShutdownNext, StopStep, Quiet

(* A client that subscribes again while the server stops finds the turn of *)
(* every answer it was told of, and none of a failed run: neither stop()   *)
(* nor a cancelled connection comes between a turn and its notice.         *)
THEOREM HistoryStaysAsTold == ShutdownSpec => []HistoryAgreesWithNotices
<1>1. ShutdownInit => LeaveBut(Runs)
  BY CountsInit DEF ShutdownInit, LeaveInv, LeaveBut
<1>2. /\ StopInv /\ TellInv /\ TellInv' /\ LeaveBut(Runs) /\ [ShutdownNext]_shutdownVars
            => LeaveBut(Runs)'
      /\ StopInv /\ TellInv /\ LeaveBut(Runs) => HistoryAgreesWithNotices
  BY StopRemembers, HistoryAsTold DEF StopInv, RunTypeOK
<1> QED
  BY <1>1, <1>2, StopTellInvariance, PTL DEF ShutdownSpec

-----------------------------------------------------------------------------
(* The runs that stop() finds *)

(* While stop() works through the sessions, a run in flight that has not   *)
(* ended is in one that is still to be visited; afterwards there is none.  *)
Settling ==
    \A r \in inFlight :
        /\ stop = "runs" => \/ state[r] \in Terminal
                            \/ state[r] = "running" /\ sessionId[r] \in visiting
        /\ stop \in {"connections", "writers", "listener", "returned"} => state[r] \in Terminal

(* BeginStop misses none: a running run is in the registry.  A visit       *)
(* misses none: a running run is the active run of its session.            *)
LEMMA SettlingStep ==
  ASSUME StopInv, Settling, [ShutdownNext]_shutdownVars
  PROVE  Settling'
<1>0. /\ RunTypeOK /\ ShutdownTypeOK /\ RunInv
      /\ HomeSession /\ RunningIsActive /\ TaskPhase
  BY DEF StopInv, RunInv
<1>1. CASE BeginStop
  <2> SUFFICES ASSUME NEW r \in Runs, state[r] = "running" \/ task[r] \notin {"none", "done"}
               PROVE  \/ state[r] \in Terminal
                      \/ state[r] = "running" /\ sessionId[r] \in Named \cup ephemeral
    BY <1>1 DEF Settling, BeginStop
  <2>1. state[r] # "none" /\ state[r] \in RunStates
    BY <1>0 DEF HomeSession, RunTypeOK
  <2>2. state[r] = "running" => sessionId[r] \in Named \cup ephemeral
    BY <1>0, <2>1 DEF HomeSession, RunningIsActive, IsNamed
  <2> QED
    BY <2>1, <2>2
<1>2. CASE CancelConnections
  BY <1>2 DEF Settling, CancelConnections
<1>3. ASSUME NEW s \in Sessions, VisitSession(s) PROVE Settling'
  <2>1. /\ visiting' = visiting \ {s} /\ stop = "runs"
        /\ UNCHANGED <<sessionId, stop, inFlight>>
    BY <1>3, VisitFacts
  <2> SUFFICES ASSUME NEW r \in inFlight, state'[r] \notin Terminal
               PROVE  state'[r] = "running" /\ sessionId[r] \in visiting \ {s}
    BY <2>1 DEF Settling
  <2>2. r \in Runs
    BY <1>0 DEF ShutdownTypeOK
  <2>3. state[r] \notin Terminal
    BY <1>3, <2>2, RunsStay DEF ShutdownNext, StopStep
  <2>4. state[r] = "running" /\ sessionId[r] \in visiting
    BY <2>1, <2>3 DEF Settling
  <2>5. state'[r] = "running" /\ sessionId[r] # s
    <3>1. activeRun[sessionId[r]] = r /\ r # None
      BY <1>0, <2>2, <2>4, ConstantsAssumption DEF RunningIsActive
    <3>2. CASE UNCHANGED state /\ ~IsActive(activeRun[s])
      BY <2>4, <3>1, <3>2 DEF IsActive
    <3>3. ASSUME NEW q \in Runs, q = activeRun[s], state' = [state EXCEPT ![q] = "cancelled"]
          PROVE  state'[r] = "running" /\ sessionId[r] # s
      <4>1. r # q
        BY <1>0, <3>3 DEF RunTypeOK
      <4> QED
        BY <1>0, <2>2, <2>4, <3>1, <3>3, <4>1 DEF RunTypeOK
    <3> QED
      BY <1>3, <3>2, <3>3, VisitFacts
  <2> QED
    BY <2>4, <2>5
<1>4. ASSUME UNCHANGED <<visiting, inFlight>>,
             \/ stop' = stop
             \/ stop \in {"serving", "requested"} /\ stop' = "requested"
             \/ stop \in {"connections", "writers", "listener"}
      PROVE  Settling'
  <2> SUFFICES ASSUME NEW r \in inFlight
               PROVE  /\ stop' = "runs" => \/ state'[r] \in Terminal
                                           \/ state'[r] = "running" /\ sessionId'[r] \in visiting
                      /\ stop' \in {"connections", "writers", "listener", "returned"}
                            => state'[r] \in Terminal
    BY <1>4 DEF Settling
  <2>1. r \in Runs
    BY <1>0 DEF ShutdownTypeOK
  <2>2. RunTypeOK'
    BY StopInvStep DEF StopInv
  <2>3. state[r] \in Terminal => state'[r] \in Terminal
    BY <2>1, RunsStay
  <2>4. state[r] = "running" =>
            sessionId'[r] = sessionId[r] /\ (state'[r] \in Terminal \/ state'[r] = "running")
    BY <2>1, <2>2, RunsStay DEF RunTypeOK
  <2>5. /\ stop = "runs" => \/ state[r] \in Terminal
                            \/ state[r] = "running" /\ sessionId[r] \in visiting
        /\ stop \in {"connections", "writers", "listener", "returned"} => state[r] \in Terminal
    BY DEF Settling
  <2> QED
    BY <1>4, <2>3, <2>4, <2>5
<1>5. ASSUME NEW c \in Conns, Moves(c) PROVE Settling'
  BY <1>4, <1>5 DEF Moves
<1>6. ASSUME NEW r \in Runs, Executed(r) \/ UnwindInterrupted(r) PROVE Settling'
  BY <1>4, <1>6 DEF Executed, UnwindInterrupted
<1>7. CASE RunStopped
  BY <1>4, <1>7 DEF RunStopped
<1>8. ASSUME NEW c \in Conns, Cancelled(c) PROVE Settling'
  BY <1>4, <1>8, CancelledFacts
<1>9. CASE Quiet
  BY <1>4, <1>9 DEF Quiet, Accept, Serve, PeerCloses, Signal, CloseWriters, CloseListener, Return
<1>10. CASE UNCHANGED shutdownVars
  BY <1>4, <1>10 DEF shutdownVars
<1> QED
  BY <1>1, <1>2, <1>3, <1>5, <1>6, <1>7, <1>8, <1>9, <1>10, ConnectionMoves
     DEF ShutdownNext, StopStep, Quiet

(* stop() turns to the connections only when every run that was in flight  *)
(* when it began has ended, however many chats are accepted, cancelled and *)
(* finished while it waits for one run after the other.                    *)
THEOREM RunsAreSettledFirst == ShutdownSpec => []RunsSettleFirst
<1>1. ShutdownInit => Settling
  BY DEF ShutdownInit, Settling
<1>2. StopInv /\ Settling /\ [ShutdownNext]_shutdownVars => Settling'
  BY SettlingStep
<1>3. Settling => RunsSettleFirst
  BY DEF Settling, RunsSettleFirst
<1> QED
  BY <1>1, <1>2, <1>3, StopInvariance, PTL DEF ShutdownSpec


-----------------------------------------------------------------------------
(* Ends on record *)

(* The trace has an end of the run. *)
Recorded(r) == \E i \in DOMAIN trace[r] : trace[r][i] \in Terminal

(* A run that has ended is on record, or somebody is still waiting to      *)
(* record its cancellation, or was cancelled while it waited.  The last    *)
(* stages of a task that was not cancelled come after the record.          *)
Ended(r) ==
    /\ state[r] \in Terminal => \/ Recorded(r)
                                \/ r \in abandoned
                                \/ stopping = r
                                \/ \E c \in Conns : Cancelling(c, r)
    /\ task[r] \in {"stop_heartbeat", "terminal_notice"} => state[r] \in Terminal
    /\ task[r] = "interrupted_notice" => Recorded(r)

(* A run that a cancelled connection still waits for counts as abandoned. *)
Abandoning == \A c \in cancelled : Waiting(c) => awaiting[c] \in abandoned

Ends == Abandoning /\ \A r \in Runs : Ended(r)

(* An event more takes no end away, and an end is one. *)
LEMMA RecordStays ==
  ASSUME RunTypeOK, NEW q \in Runs, NEW stage \in TraceStages, Record(q, stage)
  PROVE  /\ \A r \in Runs : Recorded(r) => Recorded(r)'
         /\ stage \in Terminal => Recorded(q)'
<1>1. trace' = [trace EXCEPT ![q] = Append(trace[q], stage)] /\ trace[q] \in Seq(TraceStages)
  BY DEF Record, RunTypeOK
<1>2. trace'[q] = Append(trace[q], stage) /\ \A r \in Runs \ {q} : trace'[r] = trace[r]
  BY <1>1 DEF RunTypeOK
<1>3. /\ \A i \in DOMAIN trace[q] : i \in DOMAIN trace'[q] /\ trace'[q][i] = trace[q][i]
      /\ Len(trace[q]) + 1 \in DOMAIN trace'[q] /\ trace'[q][Len(trace[q]) + 1] = stage
  BY <1>1, <1>2
<1> QED
  BY <1>2, <1>3 DEF Recorded

(* Nothing that Ended speaks of gets worse for the run. *)
LEMMA EndedFrame ==
  ASSUME NEW r \in Runs, Ended(r), Recorded(r) => Recorded(r)',
         UNCHANGED <<abandoned, stopping>>,
         \/ state'[r] = state[r]
         \/ state'[r] \notin Terminal /\ state[r] \notin Terminal,
         task'[r] = task[r] \/ task'[r] \notin {"interrupted_notice", "stop_heartbeat",
                                                "terminal_notice"},
         \A c \in Conns : Cancelling(c, r) => Cancelling(c, r)'
  PROVE  Ended(r)'
<1>1. state'[r] \in Terminal => state[r] \in Terminal
  OBVIOUS
<1>2. state'[r] \in Terminal => \/ Recorded(r)'
                                \/ r \in abandoned'
                                \/ stopping' = r
                                \/ \E c \in Conns : Cancelling(c, r)'
  BY <1>1 DEF Ended
<1>3. /\ task'[r] \in {"stop_heartbeat", "terminal_notice"} => state'[r] \in Terminal
      /\ task'[r] = "interrupted_notice" => Recorded(r)'
  BY DEF Ended
<1> QED
  BY <1>2, <1>3 DEF Ended

(* The connection cancels the run: it will record that. *)
LEMMA CancelEnded ==
  ASSUME StopInv, Inv, Ends, NEW c \in Conns, NEW r \in Runs, CancelRun(c, r), IsActive(r),
         conn[c] # "accepting", awaiting[c] = None,
         UNCHANGED <<conn, task, trace, abandoned, stopping>>
  PROVE  \A q \in Runs : Ended(q)'
<1>1. /\ \A d \in Conns : ~Cancelling(d, r) /\ (Cancelling(d, r)' <=> d = c)
      /\ \A d \in Conns, q \in Runs \ {r} : Cancelling(d, q)' <=> Cancelling(d, q)
      /\ state'[r] = "cancelled"
      /\ \A q \in Runs \ {r} : state'[q] = state[q]
  BY CancelBegins
<1>2. \A q \in Runs : Recorded(q) => Recorded(q)'
  BY DEF Recorded
<1>3. Ended(r)'
  BY <1>1, <1>2 DEF Ends, Ended
<1>4. ASSUME NEW q \in Runs \ {r} PROVE Ended(q)'
  BY <1>1, <1>2, <1>4, EndedFrame DEF Ends
<1> QED
  BY <1>3, <1>4

LEMMA MovesEnds ==
  ASSUME StopInv, Ends, NEW c \in Conns, Moves(c)
  PROVE  Ends'
<1>0. /\ Inv /\ [Next]_vars /\ TypeOK /\ AwaitedRun /\ RunInv /\ RunTypeOK
      /\ ClientStep(c) \/ ConnStep(c)
      /\ UNCHANGED <<abandoned, stopping, cancelled>> /\ c \notin cancelled
      /\ ShutdownTypeOK /\ TraceMayFail = FALSE
  BY MovesKeeps, ConstantsAssumption DEF Inv, RunInv, Moves, StopInv
<1>1. Abandoning'
  <2> SUFFICES ASSUME NEW d \in cancelled, Waiting(d)' PROVE awaiting'[d] \in abandoned
    BY <1>0 DEF Abandoning
  <2>1. d \in Conns \ {c}
    BY <1>0 DEF ShutdownTypeOK
  <2>2. conn'[d] = conn[d] /\ awaiting'[d] = awaiting[d]
    BY <1>0, <2>1, ConnectionFacts
  <2> QED
    BY <2>2 DEF Ends, Abandoning, Waiting
<1>2. ASSUME ClientStep(c) \/ CreateTask(c) \/ DetachDone(c) \/ ConnectionClosed(c),
             NEW q \in Runs
      PROVE  Ended(q)'
  <2>1. \A d \in Conns : Cancelling(d, q) => Cancelling(d, q)'
    BY <1>0, <1>2, NoCancelling
  <2>2. /\ \/ state'[q] = state[q]
           \/ state'[q] = "running" /\ state[q] = "none"
        /\ task'[q] = task[q] \/ task'[q] = "scheduled"
    BY <1>0, <1>2
       DEF ClientStep, Attach, ChatBusy, ChatNotRecorded, StartChat, StartEphemeralChat, CreateRun,
           Detach, Disconnect, CreateTask, DetachDone, ConnectionClosed, TypeOK
  <2>3. trace' = trace \/ \E r \in Runs : Record(r, "created")
    BY <1>2
       DEF ClientStep, Attach, ChatBusy, ChatNotRecorded, StartChat, StartEphemeralChat, CreateRun,
           Detach, Disconnect, CreateTask, DetachDone, ConnectionClosed
  <2>4. Recorded(q) => Recorded(q)'
    <3>1. CASE trace' = trace
      BY <3>1 DEF Recorded
    <3>2. ASSUME NEW r \in Runs, Record(r, "created") PROVE Recorded(q) => Recorded(q)'
      BY <1>0, <3>2, RecordStays
    <3> QED
      BY <2>3, <3>1, <3>2
  <2> QED
    BY <1>0, <2>1, <2>2, <2>4, EndedFrame DEF Ends
<1>3. ASSUME UNCHANGED <<conn, awaiting, state, task, trace>>, NEW q \in Runs
      PROVE  Ended(q)'
  BY <1>0, <1>3 DEF Ends, Ended, Recorded, Cancelling
<1>4. ASSUME NEW s \in Named, OnSessionEmpty(c, s), NEW q \in Runs PROVE Ended(q)'
  <2>1. conn[c] # "accepting" /\ awaiting[c] = None /\ UNCHANGED <<conn, task, trace>>
    BY <1>4 DEF OnSessionEmpty
  <2>2. CASE IsActive(activeRun[s]) /\ CancelRun(c, activeRun[s])
    <3>1. activeRun[s] \in Runs
      BY <1>0, <2>2 DEF IsActive, TypeOK
    <3> QED
      BY <1>0, <2>1, <2>2, <3>1, CancelEnded
  <2> QED
    BY <1>3, <1>4, <2>1, <2>2 DEF OnSessionEmpty
<1>5. ASSUME NEW r \in Runs, CancelRunIfUnobserved(c, r), NEW q \in Runs PROVE Ended(q)'
  <2>1. conn[c] # "accepting" /\ awaiting[c] = None /\ UNCHANGED <<conn, task, trace>>
    BY <1>5 DEF CancelRunIfUnobserved
  <2>2. CASE IsActive(r) /\ CancelRun(c, r)
    BY <1>0, <2>1, <2>2, CancelEnded
  <2> QED
    BY <1>3, <1>5, <2>1, <2>2 DEF CancelRunIfUnobserved
<1>6. ASSUME RunCancelled(c), NEW q \in Runs PROVE Ended(q)'
  <2>1. PICK r \in Runs : r = awaiting[c]
    BY <1>0, <1>6 DEF RunCancelled, CancelLanded, TypeOK
  <2>2. Record(r, "cancelled") /\ UNCHANGED <<state, task>>
    BY <1>6, <2>1 DEF RunCancelled
  <2>3. (Recorded(q) => Recorded(q)') /\ Recorded(r)'
    BY <1>0, <2>2, RecordStays
  <2>4. CASE q = r
    BY <1>0, <2>2, <2>3, <2>4 DEF Ends, Ended
  <2>5. CASE q # r
    <3>1. \A d \in Conns : Cancelling(d, q) => Cancelling(d, q)'
      BY <1>0, <1>6, <2>1, <2>5, CancelEnds
    <3> QED
      BY <1>0, <2>2, <2>3, <3>1, EndedFrame DEF Ends
  <2> QED
    BY <2>4, <2>5
<1>7. ~CancelNotRecorded(c)
  BY <1>0 DEF CancelNotRecorded
<1> QED
  BY <1>0, <1>1, <1>2, <1>4, <1>5, <1>6, <1>7 DEF ConnStep, Ends

(* The task of a run records its outcome before it makes it the state of   *)
(* the run; a task that goes on while its run is cancelled leaves that to  *)
(* whoever cancels.                                                        *)
LEMMA ExecutedEnds ==
  ASSUME StopInv, Ends, NEW r \in Runs, Executed(r)
  PROVE  Ends'
<1>0. /\ Inv /\ TypeOK /\ RunTypeOK /\ TaskPhase /\ Ended(r)
      /\ TaskStep(r) \/ Heartbeat(r)
      /\ UNCHANGED <<abandoned, stopping, cancelled>>
      /\ TraceMayFail = FALSE
  BY ExecutedKeeps, ConstantsAssumption
     DEF Inv, RunInv, Executed, StopInv, Ends
<1>1. UNCHANGED <<conn, awaiting>>
  BY <1>0, TaskMoves
<1>2. Abandoning'
  BY <1>0, <1>1 DEF Ends, Abandoning, Waiting
<1>3. \A q \in Runs : \A c \in Conns : Cancelling(c, q) => Cancelling(c, q)'
  BY <1>1 DEF Cancelling
<1>4. /\ \/ UNCHANGED trace
         \/ \E stage \in Terminal : Record(r, stage)
      /\ \A q \in Runs \ {r} : state'[q] = state[q] /\ task'[q] = task[q]
  BY <1>0
     DEF TaskStep, ExecuteChat, ExecuteCancelled, NeverStarted, AgentReturns, AgentRaises, Fail,
         RunCompleted, RunInterrupted, FinishInterrupted, OutcomeNotRecorded, TerminalNotice,
         ExecuteDone, CancelDelivered, Unwind, Heartbeat, Goto, StopHeartbeat, TypeOK
<1>5. \A q \in Runs : Recorded(q) => Recorded(q)'
  <2>1. CASE UNCHANGED trace
    BY <2>1 DEF Recorded
  <2>2. ASSUME NEW stage \in Terminal, Record(r, stage)
        PROVE  \A q \in Runs : Recorded(q) => Recorded(q)'
    BY <1>0, <2>2, RecordStays
  <2> QED
    BY <1>4, <2>1, <2>2
<1>6. ASSUME NEW q \in Runs, q # r PROVE Ended(q)'
  BY <1>0, <1>3, <1>4, <1>5, <1>6, EndedFrame DEF Ends
<1>7. Ended(r)'
  <2>1. CASE AgentRaises(r) \/ RunCompleted(r)
    <3>1. /\ \E stage \in Terminal : Record(r, stage)
          /\ task'[r] = "stop_heartbeat" /\ state'[r] \in Terminal
      BY <1>0, <2>1 DEF AgentRaises, Fail, RunCompleted, StopHeartbeat, Goto, TypeOK
    <3>2. Recorded(r)'
      BY <1>0, <3>1, RecordStays
    <3> QED
      BY <3>1, <3>2 DEF Ended
  <2>2. CASE RunInterrupted(r)
    <3>1. /\ Record(r, "interrupted") /\ UNCHANGED state
          /\ task'[r] = "interrupted_notice"
      BY <1>0, <2>2 DEF RunInterrupted, Goto, TypeOK
    <3>2. Recorded(r)'
      BY <1>0, <3>1, RecordStays
    <3> QED
      BY <3>1, <3>2 DEF Ended
  <2>3. CASE FinishInterrupted(r)
    <3>1. /\ task[r] = "interrupted_notice" /\ UNCHANGED trace
          /\ state'[r] = "interrupted" /\ task'[r] = "stop_heartbeat"
      BY <1>0, <2>3 DEF FinishInterrupted, At, StopHeartbeat, Goto, TypeOK
    <3>2. Recorded(r)'
      BY <1>0, <1>5, <3>1 DEF Ended
    <3> QED
      BY <3>1, <3>2 DEF Ended
  <2>4. CASE TerminalNotice(r)
    <3>1. /\ task[r] = "stop_heartbeat" /\ task'[r] = "terminal_notice"
          /\ UNCHANGED state
      BY <1>0, <2>4 DEF TerminalNotice, At, Goto, TypeOK
    <3> QED
      BY <1>0, <1>3, <1>5, <3>1 DEF Ended
  <2>5. CASE ExecuteDone(r)
    <3>1. /\ task[r] = "terminal_notice" /\ task'[r] = "done"
          /\ state'[r] = IF state[r] = "running" THEN "failed" ELSE state[r]
      BY <1>0, <2>5 DEF ExecuteDone, At, Goto, TypeOK
    <3>2. state'[r] = state[r]
      BY <1>0, <3>1 DEF Ended
    <3> QED
      BY <1>0, <1>3, <1>5, <3>1, <3>2, EndedFrame
  <2>6. CASE \/ ExecuteChat(r) \/ ExecuteCancelled(r) \/ NeverStarted(r) \/ AgentReturns(r)
             \/ CancelDelivered(r) \/ Unwind(r) \/ Heartbeat(r)
    <3>1. /\ UNCHANGED state
          /\ task'[r] = task[r] \/ task'[r] \notin {"interrupted_notice", "stop_heartbeat",
                                                    "terminal_notice"}
      BY <1>0, <2>6
         DEF ExecuteChat, ExecuteCancelled, NeverStarted, AgentReturns, CancelDelivered, Unwind,
             Heartbeat, StopHeartbeat, Goto, TypeOK
    <3> QED
      BY <1>0, <1>3, <1>5, <3>1, EndedFrame
  <2>7. ~OutcomeNotRecorded(r)
    BY <1>0 DEF OutcomeNotRecorded
  <2> QED
    BY <1>0, <2>1, <2>2, <2>3, <2>4, <2>5, <2>6, <2>7 DEF TaskStep
<1> QED
  BY <1>2, <1>6, <1>7 DEF Ends

(* Where stop() is not cancelling a run, and no connection is cancelled.   *)
LEMMA OtherEnds ==
  ASSUME StopInv, Ends, UNCHANGED <<conn, awaiting, state, trace, abandoned, stopping>>,
         cancelled' \subseteq cancelled,
         \A r \in Runs : task'[r] = task[r] \/ task'[r] = "done"
  PROVE  Ends'
<1>1. Abandoning'
  BY DEF Ends, Abandoning, Waiting
<1>2. ASSUME NEW r \in Runs PROVE Ended(r)'
  BY DEF Ends, Ended, Recorded, Cancelling
<1> QED
  BY <1>1, <1>2 DEF Ends

(* cancel_all_active_runs records what it cancels. *)
LEMMA VisitEnds ==
  ASSUME StopInv, Ends, NEW s \in Sessions, VisitSession(s)
  PROVE  Ends'
<1>0. /\ UNCHANGED <<conn, awaiting, task, trace, cancelled, abandoned>>
      /\ stopping = None /\ RunTypeOK
  BY VisitFacts DEF VisitSession, StopInv
<1>1. CASE UNCHANGED <<state, stopping>>
  BY <1>0, <1>1, OtherEnds
<1>2. ASSUME NEW r \in Runs, state' = [state EXCEPT ![r] = "cancelled"], stopping' = r
      PROVE  Ends'
  <2>1. state'[r] = "cancelled" /\ \A q \in Runs \ {r} : state'[q] = state[q]
    BY <1>0, <1>2 DEF RunTypeOK
  <2>2. Abandoning'
    BY <1>0 DEF Ends, Abandoning, Waiting
  <2>3. ASSUME NEW q \in Runs PROVE Ended(q)'
    <3>1. q # stopping /\ Ended(q)
      BY <1>0, ConstantsAssumption DEF Ends
    <3>2. CASE q = r
      BY <1>0, <1>2, <2>1, <3>1, <3>2 DEF Ended, Recorded
    <3>3. CASE q # r
      BY <1>0, <2>1, <3>1, <3>3 DEF Ended, Recorded, Cancelling
    <3> QED
      BY <3>2, <3>3
  <2> QED
    BY <2>2, <2>3 DEF Ends
<1> QED
  BY <1>1, <1>2, VisitFacts

LEMMA RunStoppedEnds ==
  ASSUME StopInv, Ends, RunStopped
  PROVE  Ends'
<1>1. PICK r \in Runs : r = stopping
  BY RunStoppedInv
<1>2. /\ Record(r, "cancelled") /\ RunTypeOK
      /\ UNCHANGED <<conn, awaiting, state, task, cancelled, abandoned>>
  BY <1>1 DEF RunStopped, StopInv
<1>3. Recorded(r)' /\ \A q \in Runs : Recorded(q) => Recorded(q)'
  BY <1>2, RecordStays
<1>4. Abandoning'
  BY <1>2 DEF Ends, Abandoning, Waiting
<1>5. ASSUME NEW q \in Runs PROVE Ended(q)'
  <2>1. CASE q = r
    BY <1>2, <1>3, <2>1 DEF Ends, Ended
  <2>2. CASE q # r
    BY <1>1, <1>2, <1>3, <2>2 DEF Ends, Ended, Cancelling
  <2> QED
    BY <2>1, <2>2
<1> QED
  BY <1>4, <1>5 DEF Ends

(* The runs that the connections wait for when they are cancelled. *)
LEMMA CancelConnectionsEnds ==
  ASSUME StopInv, Ends, CancelConnections
  PROVE  Ends'
<1>1. /\ UNCHANGED <<conn, awaiting, state, task, trace, stopping>>
      /\ abandoned = {} /\ RunTypeOK
      /\ cancelled' \subseteq Conns
      /\ \A c \in cancelled' : Waiting(c) /\ awaiting[c] \in Runs => awaiting[c] \in abandoned'
  BY DEF CancelConnections, StopInv, Phase
<1>2. Abandoning'
  <2> SUFFICES ASSUME NEW c \in cancelled', Waiting(c)' PROVE awaiting'[c] \in abandoned'
    BY DEF Abandoning
  <2>1. Waiting(c) /\ awaiting[c] \in Runs
    BY <1>1 DEF Waiting, RunTypeOK
  <2> QED
    BY <1>1, <2>1
<1>3. ASSUME NEW r \in Runs PROVE Ended(r)'
  BY <1>1 DEF Ends, Ended, Recorded, Cancelling
<1> QED
  BY <1>2, <1>3 DEF Ends

(* A cancelled connection gives up a run that counts as abandoned. *)
LEMMA CancelledEnds ==
  ASSUME StopInv, Ends, NEW c \in Conns, Cancelled(c)
  PROVE  Ends'
<1>1. /\ c \in cancelled /\ cancelled' = cancelled \ {c}
      /\ UNCHANGED <<state, task, trace, stopping, abandoned>>
      /\ RunTypeOK /\ AwaitedRun /\ cancelled \subseteq Conns
  BY CancelledFacts DEF StopInv, RunInv, ShutdownTypeOK
<1>2. \A d \in Conns \ {c} : conn'[d] = conn[d] /\ awaiting'[d] = awaiting[d]
  <2>1. /\ \E where \in ConnStates : conn' = [conn EXCEPT ![c] = where]
        /\ awaiting' = [awaiting EXCEPT ![c] = None]
    BY CancelledFacts
  <2> QED
    BY <1>1, <2>1 DEF RunTypeOK
<1>3. Abandoning'
  BY <1>1, <1>2 DEF Ends, Abandoning, Waiting
<1>4. ASSUME NEW r \in Runs PROVE Ended(r)'
  <2>1. Cancelling(c, r) => r \in abandoned
    <3> SUFFICES ASSUME Cancelling(c, r) PROVE r \in abandoned
      OBVIOUS
    <3>1. awaiting[c] = r /\ r # None /\ Waiting(c)
      BY <1>1, ConstantsAssumption DEF Cancelling, AwaitedRun, Waiting, RunTypeOK
    <3> QED
      BY <1>1, <3>1 DEF Ends, Abandoning
  <2>2. \A d \in Conns : Cancelling(d, r) /\ d # c => Cancelling(d, r)'
    BY <1>2 DEF Cancelling
  <2> QED
    BY <1>1, <2>1, <2>2 DEF Ends, Ended, Recorded
<1> QED
  BY <1>3, <1>4 DEF Ends

LEMMA EndsStep ==
  ASSUME StopInv, Ends, [ShutdownNext]_shutdownVars
  PROVE  Ends'
<1>0. RunTypeOK
  BY DEF StopInv
<1>1. ASSUME NEW r \in Runs, UnwindInterrupted(r) PROVE Ends'
  <2>1. \A q \in Runs : task'[q] = task[q] \/ task'[q] = "done"
    BY <1>0, <1>1 DEF UnwindInterrupted, Goto, RunTypeOK
  <2> QED
    BY <1>1, <2>1, OtherEnds DEF UnwindInterrupted
<1>2. CASE Quiet
  <2>1. UNCHANGED <<vars, pastVars, stopping, cancelled>>
    BY <1>2, QuietInv
       DEF Quiet, Accept, Serve, PeerCloses, Signal, CloseWriters, CloseListener, Return
  <2> QED
    BY <2>1, OtherEnds DEF vars
<1>3. CASE BeginStop
  BY <1>3, OtherEnds DEF BeginStop
<1>4. CASE UNCHANGED shutdownVars
  BY <1>4, OtherEnds DEF shutdownVars, vars
<1> QED
  BY <1>1, <1>2, <1>3, <1>4, ConnectionMoves, MovesEnds, ExecutedEnds, VisitEnds, RunStoppedEnds,
     CancelConnectionsEnds, CancelledEnds
     DEF ShutdownNext, StopStep, Quiet

(* What is on record is counted. *)
LEMMA RecordedCounts ==
  ASSUME RunTypeOK, NEW r \in Runs, Recorded(r)
  PROVE  Count(trace[r], Terminal) > 0
<1> DEFINE ends == {i \in DOMAIN trace[r] : trace[r][i] \in Terminal}
<1>1. trace[r] \in Seq(TraceStages)
  BY DEF RunTypeOK
<1>2. Len(trace[r]) \in Nat /\ DOMAIN trace[r] = 1..Len(trace[r])
  BY <1>1
<1>3. ends # {} /\ ends \in SUBSET (1..Len(trace[r]))
  BY <1>2 DEF Recorded
<1>4. IsFiniteSet(ends)
  <2>1. IsFiniteSet(1..Len(trace[r]))
    BY <1>2, FS_Interval
  <2> HIDE DEF ends
  <2> QED
    BY <1>3, <2>1, FS_Subset
<1> HIDE DEF ends
<1>5. Cardinality(ends) \in Nat /\ Cardinality(ends) # 0
  BY <1>3, <1>4, FS_CardinalityType, FS_EmptySet
<1>6. Count(trace[r], Terminal) = Cardinality(ends)
  BY DEF Count, ends
<1> QED
  BY <1>5, <1>6

(* At the return of stop() the end of a run is on record, whoever ended    *)
(* it, unless the connection that did was cancelled while it waited.       *)
THEOREM EndsAreRecorded == ShutdownSpec => []EndsRecorded
<1>1. ShutdownInit => Ends
  BY ConstantsAssumption DEF ShutdownInit, Init, Ends, Ended, Abandoning
<1>2. StopInv /\ Ends /\ [ShutdownNext]_shutdownVars => Ends'
  BY EndsStep
<1>3. StopInv /\ Ends => EndsRecorded
  <2> SUFFICES ASSUME StopInv, Ends, stop = "returned",
                      NEW r \in Runs, state[r] \in Terminal, Settled(r), r \notin abandoned
               PROVE  Count(trace[r], Terminal) > 0
    BY DEF EndsRecorded
  <2>1. RunTypeOK /\ stopping # r
    BY ConstantsAssumption DEF StopInv, Phase
  <2>2. Recorded(r)
    BY <2>1 DEF Ends, Ended, Settled, Cancelling
  <2> QED
    BY <2>1, <2>2, RecordedCounts
<1> QED
  BY <1>1, <1>2, <1>3, StopInvariance, PTL DEF ShutdownSpec

-----------------------------------------------------------------------------
(* What stop() forgets *)

(* A run whose connection was cancelled while it sent the accept response: *)
(* its task was never created.                                             *)
Unborn == {r \in Runs : /\ state[r] # "none" /\ task[r] = "none"
                        /\ \A c \in Conns : ~(conn[c] = "accepting" /\ awaiting[c] = r)}

Excepted == skipped \cup Unborn

(* Every run is covered as in SessionRuns, unless its connection was cut   *)
(* short.                                                                  *)
Cover == CoveredBut(Excepted)

LEMMA CoverIs ==
  ASSUME NEW X, X = Excepted
  PROVE  Cover <=> CoveredBut(X)
  BY DEF Cover, CoveredBut, BeingAccepted, NamedRunCovered, EphemeralRunCovered

(* More exceptions only make it easier. *)
LEMMA CoverMore ==
  ASSUME NEW X, CoveredBut(X)', X \subseteq Excepted'
  PROVE  Cover'
<1>1. ChannelSubscribed' /\ NothingEmptied'
  BY DEF CoveredBut
<1>2. \A r \in Runs \ Excepted' : r \in Runs \ X
  OBVIOUS
<1>3. BeingAccepted(Excepted)'
  BY <1>2 DEF CoveredBut, BeingAccepted
<1>4. NamedRunCovered(Excepted)'
  BY <1>2 DEF CoveredBut, NamedRunCovered
<1>5. EphemeralRunCovered(Excepted)'
  BY <1>2 DEF CoveredBut, EphemeralRunCovered
<1> QED
  BY <1>1, <1>3, <1>4, <1>5 DEF Cover, CoveredBut

(* The run begins no task, and no connection accepts it once more. *)
LEMMA ConnectionUnborn ==
  ASSUME TypeOK, RunInv, NEW c \in Conns, ClientStep(c) \/ ConnStep(c), NEW r \in Unborn
  PROVE  r \in Unborn'
<1>0. /\ r \in Runs /\ state[r] # "none" /\ task[r] = "none" /\ state'[r] # "none"
      /\ \A d \in Conns : ~(conn[d] = "accepting" /\ awaiting[d] = r)
      /\ \A d \in Conns \ {c} : conn'[d] = conn[d] /\ awaiting'[d] = awaiting[d]
  BY ConnectionFacts DEF Unborn
<1> DEFINE Stays == task'[r] = "none" /\ ~(conn'[c] = "accepting" /\ awaiting'[c] = r)
<1> SUFFICES Stays
  BY <1>0 DEF Unborn
<1>1. ASSUME NEW s, NEW q \in Runs, CreateRun(c, s, q) PROVE Stays
  BY <1>0, <1>1 DEF CreateRun, TypeOK
<1>2. ASSUME NEW s \in Named, Attach(c, s) \/ ChatBusy(c, s) \/ ChatNotRecorded(c, s)
      PROVE  Stays
  BY <1>0, <1>2 DEF Attach, ChatBusy, ChatNotRecorded, Reading
<1>3. CASE Detach(c) \/ Disconnect(c)
  BY <1>0, <1>3 DEF Detach, Disconnect, TypeOK
<1>4. CASE CreateTask(c)
  BY <1>0, <1>4 DEF CreateTask, TypeOK
<1>5. ASSUME NEW s \in Named, OnSessionEmpty(c, s) PROVE Stays
  BY <1>0, <1>5 DEF OnSessionEmpty
<1>6. CASE DetachDone(c)
  BY <1>0, <1>6 DEF DetachDone, AfterDetach, TypeOK
<1>7. ASSUME NEW q \in Runs, CancelRunIfUnobserved(c, q) PROVE Stays
  BY <1>0, <1>7 DEF CancelRunIfUnobserved
<1>8. CASE ConnectionClosed(c)
  BY <1>0, <1>8 DEF ConnectionClosed, TypeOK
<1>9. CASE RunCancelled(c)
  BY <1>0, <1>9 DEF RunCancelled, CancelLanded
<1>10. CASE CancelNotRecorded(c)
  BY <1>0, <1>10 DEF CancelNotRecorded, AfterDetach, TypeOK
<1> QED
  BY <1>1, <1>2, <1>3, <1>4, <1>5, <1>6, <1>7, <1>8, <1>9, <1>10
     DEF ClientStep, ConnStep, StartChat, StartEphemeralChat

LEMMA TaskUnborn ==
  ASSUME TypeOK, RunInv, NEW q \in Runs, TaskStep(q) \/ Heartbeat(q), NEW r \in Unborn
  PROVE  r \in Unborn'
<1>1. /\ r \in Runs /\ state[r] # "none" /\ task[r] = "none"
      /\ \A d \in Conns : ~(conn[d] = "accepting" /\ awaiting[d] = r)
  BY DEF Unborn
<1>2. UNCHANGED <<conn, awaiting>> /\ state'[r] # "none"
  BY <1>1, TaskFacts, TaskMoves
<1>3. task'[r] = "none"
  BY <1>1
     DEF TaskStep, ExecuteChat, ExecuteCancelled, NeverStarted, AgentReturns, AgentRaises, Fail,
         RunCompleted, RunInterrupted, FinishInterrupted, OutcomeNotRecorded, TerminalNotice,
         ExecuteDone, CancelDelivered, Unwind, Heartbeat, Goto, StopHeartbeat, At, TypeOK
<1> QED
  BY <1>1, <1>2, <1>3 DEF Unborn

(* Steps of SessionRuns keep the runs covered whose connection is not cut  *)
(* short.                                                                  *)
LEMMA OrdinaryCover ==
  ASSUME StopInv, Cover,
         \/ \E c \in Conns : Moves(c)
         \/ \E r \in Runs : Executed(r)
  PROVE  Cover'
<1>1. Inv /\ [Next]_vars /\ skipped' = skipped /\ TraceMayFail = FALSE
  BY MovesKeeps, ExecutedKeeps, ConstantsAssumption DEF Moves, Executed, StopInv
<1>2. PICK X : X = Excepted
  OBVIOUS
<1>3. CoveredBut(X)'
  BY <1>1, <1>2, CoverIs, CoverStep
<1>4. \A r \in Unborn : r \in Unborn'
  BY <1>1, ConnectionUnborn, TaskUnborn DEF Moves, Executed, Inv
<1> QED
  BY <1>1, <1>2, <1>3, <1>4, CoverMore DEF Excepted

(* Steps that move neither connections nor endpoints. *)
LEMMA FrameCover ==
  ASSUME Cover,
         UNCHANGED <<conn, channel, emptied, own, awaiting, sinks, sessionId, initiator, skipped>>,
         \A q \in Runs : state'[q] = "running" => state[q] = "running",
         \A q \in Runs : state'[q] = "none" <=> state[q] = "none",
         \A q \in Runs : task'[q] = "none" <=> task[q] = "none"
  PROVE  Cover'
<1>1. PICK X : X = Excepted
  OBVIOUS
<1>2. CoveredBut(X)
  BY <1>1, CoverIs
<1>3. CoveredBut(X)'
  BY <1>2, CoverFrame
<1>4. Unborn' = Unborn
  BY DEF Unborn
<1> QED
  BY <1>1, <1>3, <1>4, CoverMore DEF Excepted

(* Nobody knows of a connection whose task never began. *)
LEMMA NeverServedCover ==
  ASSUME StopInv, Cover, NEW c \in Conns, NeverServed(c)
  PROVE  Cover'
<1>1. /\ conn' = [conn EXCEPT ![c] = "gone"] /\ link[c] = "accepted"
      /\ UNCHANGED <<channel, emptied, own, awaiting, sinks, state, sessionId, initiator, task,
                     skipped>>
      /\ RunTypeOK /\ Linked
  BY DEF NeverServed, StopInv
<1>2. /\ conn[c] \in {"reading", "gone"} /\ conn'[c] = "gone"
      /\ \A d \in Conns \ {c} : conn'[d] = conn[d]
      /\ \A r \in Runs : state[r] # "none" => initiator[r] # c
  BY <1>1 DEF RunTypeOK, Linked
<1>3. PICK X : X = Excepted
  OBVIOUS
<1>4. CoveredBut(X) /\ HomeSession
  BY <1>3, CoverIs DEF StopInv, RunInv
<1>5. Unborn' = Unborn
  BY <1>1, <1>2 DEF Unborn
<1>6. ChannelSubscribed' /\ NothingEmptied'
  BY <1>1, <1>2, <1>4 DEF CoveredBut, ChannelSubscribed, NothingEmptied
<1>7. BeingAccepted(X)'
  BY <1>1, <1>2, <1>4 DEF CoveredBut, BeingAccepted, HomeSession
<1>8. NamedRunCovered(X)'
  BY <1>1, <1>4 DEF CoveredBut, NamedRunCovered, IsNamed
<1>9. EphemeralRunCovered(X)'
  <2> SUFFICES ASSUME NEW r \in Runs \ X, state[r] = "running", ~IsNamed(r)
               PROVE  /\ conn'[initiator[r]] # "gone"
                      /\ conn'[initiator[r]] = "sweeping" => r \in own[initiator[r]]
    BY <1>1 DEF EphemeralRunCovered, IsNamed
  <2>1. initiator[r] \in Conns \ {c}
    BY <1>2, <1>4 DEF HomeSession
  <2> QED
    BY <1>2, <1>4, <2>1 DEF CoveredBut, EphemeralRunCovered
<1> QED
  BY <1>1, <1>3, <1>5, <1>6, <1>7, <1>8, <1>9, CoverMore DEF CoveredBut, Excepted

(* A named run keeps an endpoint or somebody who will visit its session,   *)
(* when a connection gives up what it had to visit and what is lost is     *)
(* excepted.                                                               *)
LEMMA GivesUp ==
  ASSUME StopInv, Cover, NEW c \in Conns, NEW r \in Runs, r \notin Excepted, r \notin Unvisited(c),
         state[r] = "running", IsNamed(r)
  PROVE  sinks[sessionId[r]] # {} \/ \E d \in Conns \ {c} : sessionId[r] \in emptied[d]
<1>1. r # None
  BY ConstantsAssumption
<1>2. sinks[sessionId[r]] # {} \/ \E d \in Conns : sessionId[r] \in emptied[d]
  BY DEF Cover, CoveredBut, NamedRunCovered
<1> QED
  BY <1>1, <1>2 DEF Unvisited, IsActive, Unobserved

(* The read loop is cancelled: the run being accepted is never born, and   *)
(* of the sessions the connection had to visit it visits no more.          *)
LEMMA LoopCancelledCover ==
  ASSUME StopInv, Cover, NEW c \in Conns, LoopCancelled(c)
  PROVE  Cover'
<1>1. /\ conn' = [conn EXCEPT ![c] = "closing"]
      /\ awaiting' = [awaiting EXCEPT ![c] = None]
      /\ channel' = [channel EXCEPT ![c] = None]
      /\ sinks' = [s \in Named |-> sinks[s] \ {c}]
      /\ emptied' = [emptied EXCEPT ![c] = {s \in Named : sinks[s] = {c}}]
      /\ UNCHANGED <<own, state, sessionId, initiator, task>>
      /\ skipped' = skipped \cup Unvisited(c)
      /\ RunTypeOK /\ HomeSession /\ OneAcceptor
      /\ CoveredBut(Excepted)
  BY DEF LoopCancelled, LeaveSessions, StopInv, RunInv, Cover
<1>2. /\ conn'[c] = "closing" /\ awaiting'[c] = None /\ channel'[c] = None
      /\ emptied'[c] = {s \in Named : sinks[s] = {c}}
      /\ \A d \in Conns \ {c} : /\ conn'[d] = conn[d] /\ awaiting'[d] = awaiting[d]
                                /\ channel'[d] = channel[d] /\ emptied'[d] = emptied[d]
  BY <1>1 DEF RunTypeOK
<1>3. Unborn \subseteq Unborn'
  BY <1>1, <1>2 DEF Unborn
<1>4. PICK X : X = Excepted'
  OBVIOUS
<1>5. \A r \in Runs \ X : r \notin Excepted /\ r \notin Unvisited(c) /\ r \notin Unborn'
  BY <1>1, <1>3, <1>4 DEF Excepted
<1>6. ChannelSubscribed'
  <2> SUFFICES ASSUME NEW d \in Conns, channel'[d] # None PROVE d \in sinks'[channel'[d]]
    BY DEF ChannelSubscribed
  <2>1. d # c /\ channel'[d] = channel[d] /\ channel[d] \in Named
    BY <1>1, <1>2 DEF RunTypeOK
  <2>2. d \in sinks[channel[d]]
    BY <1>1, <2>1 DEF CoveredBut, ChannelSubscribed
  <2> QED
    BY <1>1, <2>1, <2>2
<1>7. NothingEmptied'
  BY <1>1, <1>2 DEF CoveredBut, NothingEmptied
<1>8. BeingAccepted(X)'
  <2> SUFFICES ASSUME NEW r \in Runs \ X, state[r] # "none", task[r] = "none"
               PROVE  conn'[initiator[r]] = "accepting" /\ awaiting'[initiator[r]] = r
    BY <1>1 DEF BeingAccepted
  <2>1. PICK d \in Conns : conn'[d] = "accepting" /\ awaiting'[d] = r
    BY <1>1, <1>5 DEF Unborn
  <2>2. d # c /\ conn[d] = "accepting" /\ awaiting[d] = r
    BY <1>2, <2>1
  <2>3. /\ initiator[r] \in Conns
        /\ conn[initiator[r]] = "accepting" /\ awaiting[initiator[r]] = r
    BY <1>1, <1>5 DEF CoveredBut, BeingAccepted, HomeSession
  <2>4. initiator[r] = d
    BY <1>1, <2>2, <2>3 DEF OneAcceptor
  <2> QED
    BY <2>1, <2>4
<1>9. NamedRunCovered(X)'
  <2> SUFFICES ASSUME NEW r \in Runs \ X, state[r] = "running", IsNamed(r)
               PROVE  sinks'[sessionId[r]] # {} \/ \E d \in Conns : sessionId[r] \in emptied'[d]
    BY <1>1 DEF NamedRunCovered, IsNamed
  <2>1. sinks[sessionId[r]] # {} \/ \E d \in Conns \ {c} : sessionId[r] \in emptied[d]
    BY <1>5, GivesUp
  <2>2. CASE \E d \in Conns \ {c} : sessionId[r] \in emptied[d]
    BY <1>2, <2>2
  <2>3. CASE sinks[sessionId[r]] = {c}
    BY <1>2, <2>3 DEF IsNamed
  <2>4. CASE sinks[sessionId[r]] # {} /\ sinks[sessionId[r]] # {c}
    <3>1. sinks'[sessionId[r]] = sinks[sessionId[r]] \ {c}
      BY <1>1 DEF IsNamed
    <3> QED
      BY <2>4, <3>1
  <2> QED
    BY <2>1, <2>2, <2>3, <2>4
<1>10. EphemeralRunCovered(X)'
  <2> SUFFICES ASSUME NEW r \in Runs \ X, state[r] = "running", ~IsNamed(r)
               PROVE  /\ conn'[initiator[r]] # "gone"
                      /\ conn'[initiator[r]] = "sweeping" => r \in own[initiator[r]]
    BY <1>1 DEF EphemeralRunCovered, IsNamed
  <2>1. /\ initiator[r] \in Conns
        /\ conn[initiator[r]] # "gone"
        /\ conn[initiator[r]] = "sweeping" => r \in own[initiator[r]]
    BY <1>1, <1>5 DEF CoveredBut, EphemeralRunCovered, HomeSession
  <2> QED
    BY <1>2, <2>1
<1> QED
  BY <1>4, <1>6, <1>7, <1>8, <1>9, <1>10, CoverMore DEF CoveredBut

(* The clean-up is cancelled: what it was still to look at is excepted. *)
LEMMA CleanupCancelledCover ==
  ASSUME StopInv, Cover, NEW c \in Conns, CleanupCancelled(c)
  PROVE  Cover'
<1>1. /\ conn[c] \in {"closing", "sweeping"}
      /\ conn' = [conn EXCEPT ![c] = "gone"]
      /\ awaiting' = [awaiting EXCEPT ![c] = None]
      /\ emptied' = [emptied EXCEPT ![c] = {}]
      /\ own' = [own EXCEPT ![c] = {}]
      /\ UNCHANGED <<channel, sinks, state, sessionId, initiator, task>>
      /\ skipped' = skipped \cup Unvisited(c) \cup Unswept(c)
      /\ RunTypeOK /\ HomeSession
      /\ CoveredBut(Excepted)
  BY DEF CleanupCancelled, StopInv, RunInv, Cover
<1>2. /\ conn'[c] = "gone" /\ awaiting'[c] = None /\ emptied'[c] = {}
      /\ \A d \in Conns \ {c} : /\ conn'[d] = conn[d] /\ awaiting'[d] = awaiting[d]
                                /\ emptied'[d] = emptied[d] /\ own'[d] = own[d]
  BY <1>1 DEF RunTypeOK
<1>3. Unborn' = Unborn
  BY <1>1, <1>2 DEF Unborn
<1>4. PICK X : X = Excepted'
  OBVIOUS
<1>5. \A r \in Runs \ X : r \notin Excepted /\ r \notin Unvisited(c) /\ r \notin Unswept(c)
  BY <1>1, <1>3, <1>4 DEF Excepted
<1>6. ChannelSubscribed' /\ NothingEmptied'
  BY <1>1, <1>2 DEF CoveredBut, ChannelSubscribed, NothingEmptied
<1>7. BeingAccepted(X)'
  <2> SUFFICES ASSUME NEW r \in Runs \ X, state[r] # "none", task[r] = "none"
               PROVE  conn'[initiator[r]] = "accepting" /\ awaiting'[initiator[r]] = r
    BY <1>1 DEF BeingAccepted
  <2>1. /\ initiator[r] \in Conns
        /\ conn[initiator[r]] = "accepting" /\ awaiting[initiator[r]] = r
    BY <1>1, <1>5 DEF CoveredBut, BeingAccepted, HomeSession
  <2> QED
    BY <1>1, <1>2, <2>1
<1>8. NamedRunCovered(X)'
  <2> SUFFICES ASSUME NEW r \in Runs \ X, state[r] = "running", IsNamed(r)
               PROVE  sinks[sessionId[r]] # {} \/ \E d \in Conns : sessionId[r] \in emptied'[d]
    BY <1>1 DEF NamedRunCovered, IsNamed
  <2>1. sinks[sessionId[r]] # {} \/ \E d \in Conns \ {c} : sessionId[r] \in emptied[d]
    BY <1>5, GivesUp
  <2> QED
    BY <1>2, <2>1
<1>9. EphemeralRunCovered(X)'
  <2> SUFFICES ASSUME NEW r \in Runs \ X, state[r] = "running", ~IsNamed(r)
               PROVE  /\ conn'[initiator[r]] # "gone"
                      /\ conn'[initiator[r]] = "sweeping" => r \in own'[initiator[r]]
    BY <1>1 DEF EphemeralRunCovered, IsNamed
  <2>1. /\ initiator[r] \in Conns
        /\ conn[initiator[r]] # "gone"
        /\ conn[initiator[r]] = "sweeping" => r \in own[initiator[r]]
    BY <1>1, <1>5 DEF CoveredBut, EphemeralRunCovered, HomeSession
  <2>2. initiator[r] # c
    BY <1>5, ConstantsAssumption DEF Unswept, IsActive
  <2> QED
    BY <1>2, <2>1, <2>2
<1> QED
  BY <1>4, <1>6, <1>7, <1>8, <1>9, CoverMore DEF CoveredBut

LEMMA CoverStopStep ==
  ASSUME StopInv, Cover, [ShutdownNext]_shutdownVars
  PROVE  Cover'
<1>0. RunTypeOK
  BY DEF StopInv
<1>1. ASSUME NEW s \in Sessions, VisitSession(s) PROVE Cover'
  <2>1. /\ UNCHANGED <<connVars, sessionVars, sessionId, initiator, task, skipped>>
        /\ \/ UNCHANGED state
           \/ \E r \in Runs : state[r] = "running" /\ state' = [state EXCEPT ![r] = "cancelled"]
    BY <1>1, VisitFacts
  <2>2. \A q \in Runs : \/ state'[q] = state[q]
                        \/ state[q] = "running" /\ state'[q] = "cancelled"
    BY <1>0, <2>1 DEF RunTypeOK
  <2> QED
    BY <2>1, <2>2, FrameCover
<1>2. ASSUME NEW r \in Runs, UnwindInterrupted(r) PROVE Cover'
  <2>1. /\ UNCHANGED <<connVars, sessionVars, state, sessionId, initiator, skipped>>
        /\ \A q \in Runs : task'[q] = "none" <=> task[q] = "none"
    BY <1>0, <1>2 DEF UnwindInterrupted, Goto, RunTypeOK
  <2> QED
    BY <2>1, FrameCover
<1>3. CASE RunStopped
  <2>1. UNCHANGED <<connVars, sinks, state, sessionId, initiator, task, skipped>>
    BY <1>3 DEF RunStopped
  <2> QED
    BY <2>1, FrameCover
<1>4. CASE BeginStop \/ CancelConnections
  <2>1. UNCHANGED <<connVars, sessionVars, runVars, skipped>>
    BY <1>4 DEF BeginStop, CancelConnections
  <2> QED
    BY <2>1, FrameCover
<1>5. CASE Quiet
  <2>1. UNCHANGED <<vars, skipped>>
    BY <1>5, QuietInv
  <2> QED
    BY <2>1, FrameCover DEF vars
<1>6. CASE UNCHANGED shutdownVars
  BY <1>6, FrameCover DEF shutdownVars, vars
<1>7. ASSUME NEW c \in Conns, Cancelled(c) PROVE Cover'
  BY <1>7, NeverServedCover, LoopCancelledCover, CleanupCancelledCover DEF Cancelled
<1>8. (\E c \in Conns : Moves(c)) \/ (\E r \in Runs : Executed(r)) => Cover'
  BY OrdinaryCover
<1> QED
  BY <1>1, <1>2, <1>3, <1>4, <1>5, <1>6, <1>7, <1>8, ConnectionMoves
     DEF ShutdownNext, StopStep, Quiet

(* Once stop() has returned, and nobody connected too late for it, every   *)
(* connection that was ever served is gone.  Nobody then visits a session  *)
(* or looks at its own runs any more, so a run that is still covered is    *)
(* covered by a dead endpoint only.                                        *)
THEOREM NothingOutlivesStop == ShutdownSpec => []NoRunOutlivesStop
<1>1. ShutdownInit => Cover
  <2> SUFFICES ASSUME ShutdownInit PROVE Cover
    OBVIOUS
  <2>1. CoveredBut({})
    BY CoverInit DEF ShutdownInit
  <2>2. Excepted = {}
    BY DEF ShutdownInit, Init, Excepted, Unborn
  <2> QED
    BY <2>1, <2>2, CoverIs
<1>2. StopInv /\ Cover /\ [ShutdownNext]_shutdownVars => Cover'
  BY CoverStopStep
<1>3. StopInv /\ Cover => NoRunOutlivesStop
  <2> SUFFICES ASSUME StopInv, Cover, stop = "returned", Late = {},
                      NEW r \in Runs \ skipped, state[r] = "running", task[r] # "none"
               PROVE  IsNamed(r) /\ \E c \in sinks[sessionId[r]] : conn[c] = "gone"
    BY DEF NoRunOutlivesStop
  <2>0. RunTypeOK /\ Linked /\ HomeSession
    BY DEF StopInv, RunInv
  <2>1. \A c \in Conns : conn[c] # "gone" => link[c] = "none"
    BY DEF Late, StopInv, Phase
  <2>2. r \notin Excepted
    BY DEF Excepted, Unborn
  <2>3. IsNamed(r)
    <3> SUFFICES ASSUME ~IsNamed(r) PROVE FALSE
      OBVIOUS
    <3>1. initiator[r] \in Conns /\ conn[initiator[r]] # "gone"
      BY <2>0, <2>2 DEF Cover, CoveredBut, EphemeralRunCovered, HomeSession
    <3> QED
      BY <2>0, <2>1, <3>1 DEF Linked
  <2>4. sinks[sessionId[r]] # {}
    <3> SUFFICES ASSUME NEW c \in Conns, sessionId[r] \in emptied[c] PROVE FALSE
      BY <2>2, <2>3 DEF Cover, CoveredBut, NamedRunCovered
    <3>1. conn[c] \in {"detaching", "closing"}
      BY DEF Cover, CoveredBut, NothingEmptied
    <3> QED
      BY <2>0, <2>1, <3>1 DEF Linked
  <2>5. PICK c \in sinks[sessionId[r]] : c \in Conns
    BY <2>0, <2>3, <2>4 DEF RunTypeOK, IsNamed
  <2>6. conn[c] = "gone"
    BY <2>0, <2>1, <2>3, <2>5 DEF Linked, IsNamed
  <2> QED
    BY <2>3, <2>5, <2>6
<1> QED
  BY <1>1, <1>2, <1>3, StopInvariance, PTL DEF ShutdownSpec

-----------------------------------------------------------------------------
(* Nobody waits for everybody else *)

(* What the coroutines of the server can do next (ServerStep), by the      *)
(* guards of their actions: the task of a run, a connection, a cancelled   *)
(* connection and stop() itself.                                           *)
TaskCanMove(r) ==
    /\ holder = None
    /\ r \in interrupted => task[r] = "unwind"
    /\ \/ task[r] = "scheduled" /\ (cancelRequested[r] \/ state[r] \in {"running"} \cup Terminal)
       \/ task[r] = "final_stream" /\ (cancelRequested[r] \/ result[r] \in {"answer", "max_steps"})
       \/ task[r] \in {"agent", "interrupted_notice", "stop_heartbeat", "terminal_notice", "unwind"}

Leaving(c) == conn[c] \in {"detaching", "closing", "sweeping"}

ConnCanMove(c) ==
    /\ c \notin cancelled
    /\ \/ holder = None /\ conn[c] = "accepting"
       \/ holder = c /\ Leaving(c) /\ awaiting[c] = None
       \/ CancelLanded(c)

CancelledCanMove(c) ==
    /\ holder = None
    /\ c \in cancelled
    /\ \/ link[c] = "accepted"
       \/ link[c] = "served" /\ conn[c] \in {"reading", "accepting"}
       \/ link[c] = "served" /\ conn[c] = "detaching" /\ task[awaiting[c]] = "done"
       \/ conn[c] \in {"closing", "sweeping"} /\ task[awaiting[c]] = "done"

StopCanMove ==
    \/ holder = None /\ stop \in {"requested", "writers"}
    \/ holder = Server /\ stop = "runs"
    \/ holder = None /\ stopping # None /\ task[stopping] = "done"
    \/ holder = None /\ stop = "connections" /\ \A c \in gathered : conn[c] = "gone"
    \/ holder = None /\ stop = "listener" /\ \A c \in Conns : ~Open(c)

(* StopNeverStuck with these guards for ENABLED. *)
StopGoesOn ==
    stop \notin {"serving", "returned"} =>
        \/ StopCanMove
        \/ \E c \in Conns : ConnCanMove(c) \/ CancelledCanMove(c)
        \/ \E r \in Runs : TaskCanMove(r)
        \/ stop = "listener" /\ \E c \in leaked \cup Late : Open(c)

(* Whoever waits, waits for a task that was created, and whoever holds the *)
(* event loop has not been cancelled.  What stop() waits for is cancelled  *)
(* or on its way out already.                                              *)
HolderLeaves == \A c \in Conns : holder = c => c \notin cancelled /\ Leaving(c)

LeaverWaits ==
    \A c \in Conns : Leaving(c) /\ holder # c => awaiting[c] # None /\ task[awaiting[c]] # "none"

StopWaits == stop = "runs" /\ holder # Server => stopping # None /\ task[stopping] # "none"

GatheredLeave ==
    \A c \in gathered : /\ link[c] # "none"
                        /\ c \in cancelled \/ conn[c] \in {"closing", "sweeping", "gone"}

InterruptedUnwind == \A r \in interrupted : task[r] \in {"unwind", "done"}

Waits == HolderLeaves /\ LeaverWaits /\ StopWaits /\ GatheredLeave /\ InterruptedUnwind

(* A connection keeps the event loop only on its way out, and gives it up  *)
(* there only to wait for a task.                                          *)
LEMMA ConnectionWaits ==
  ASSUME TypeOK, RunInv, NEW c \in Conns, ClientStep(c) \/ ConnStep(c)
  PROVE  /\ holder' \in {None, c}
         /\ holder' = c => Leaving(c)'
         /\ Leaving(c)' /\ holder' # c => awaiting'[c] # None /\ task'[awaiting'[c]] # "none"
         /\ conn[c] \in {"closing", "sweeping"} => conn'[c] \in {"closing", "sweeping", "gone"}
         /\ \A r \in Runs : task[r] # "none" => task'[r] = task[r]
<1> DEFINE Facts ==
      /\ holder' \in {None, c}
      /\ holder' = c => Leaving(c)'
      /\ Leaving(c)' /\ holder' # c => awaiting'[c] # None /\ task'[awaiting'[c]] # "none"
      /\ conn[c] \in {"closing", "sweeping"} => conn'[c] \in {"closing", "sweeping", "gone"}
      /\ \A r \in Runs : task[r] # "none" => task'[r] = task[r]
<1> SUFFICES Facts
  OBVIOUS
<1>0. None \notin Conns /\ None \notin Runs
  BY ConstantsAssumption
<1>1. ASSUME NEW s \in Named, Attach(c, s) \/ ChatBusy(c, s) \/ ChatNotRecorded(c, s)
      PROVE  Facts
  BY <1>0, <1>1 DEF Attach, ChatBusy, ChatNotRecorded, Reading, Leaving
<1>2. ASSUME NEW s, NEW r \in Runs, Reading(c), CreateRun(c, s, r) PROVE Facts
  BY <1>0, <1>2 DEF CreateRun, Reading, Leaving, TypeOK
<1>3. CASE Detach(c) \/ Disconnect(c)
  BY <1>3 DEF Detach, Disconnect, LeaveSessions, Reading, Leaving, TypeOK
<1>4. CASE CreateTask(c)
  BY <1>0, <1>4 DEF CreateTask, Leaving, TypeOK, RunInv, AwaitedRun
<1>5. ASSUME NEW s \in Named, OnSessionEmpty(c, s) PROVE Facts
  BY <1>5 DEF OnSessionEmpty, CancelRun, IsActive, Leaving, TypeOK
<1>6. CASE DetachDone(c)
  BY <1>0, <1>6 DEF DetachDone, AfterDetach, Leaving, TypeOK
<1>7. ASSUME NEW r \in Runs, CancelRunIfUnobserved(c, r) PROVE Facts
  BY <1>7 DEF CancelRunIfUnobserved, CancelRun, IsActive, Leaving, TypeOK
<1>8. CASE ConnectionClosed(c)
  BY <1>0, <1>8 DEF ConnectionClosed, Leaving, TypeOK
<1>9. CASE RunCancelled(c)
  BY <1>9 DEF RunCancelled, CancelLanded, Leaving
<1>10. CASE CancelNotRecorded(c)
  BY <1>0, <1>10 DEF CancelNotRecorded, CancelLanded, AfterDetach, Leaving, TypeOK
<1> QED
  BY <1>1, <1>2, <1>3, <1>4, <1>5, <1>6, <1>7, <1>8, <1>9, <1>10
     DEF ClientStep, ConnStep, StartChat, StartEphemeralChat

(* A task that was created stays so, and one that is over stays over. *)
LEMMA TaskGoesOn ==
  ASSUME TypeOK, NEW r \in Runs, TaskStep(r) \/ Heartbeat(r)
  PROVE  /\ task[r] # "none" => task'[r] # "none"
         /\ task[r] = "done" => task'[r] = "done"
         /\ \A q \in Runs \ {r} : task'[q] = task[q]
  BY DEF TaskStep, ExecuteChat, ExecuteCancelled, NeverStarted, AgentReturns, AgentRaises, Fail,
         RunCompleted, RunInterrupted, FinishInterrupted, OutcomeNotRecorded, TerminalNotice,
         ExecuteDone, CancelDelivered, Unwind, Heartbeat, Goto, StopHeartbeat, At, TypeOK

(* Steps that change neither who waits nor for what. *)
LEMMA WaitsFrame ==
  ASSUME ShutdownTypeOK, RunTypeOK, Waits, UNCHANGED <<conn, awaiting>>,
         holder \notin Conns, holder' \notin Conns,
         \A r \in Runs : task[r] # "none" => task'[r] # "none",
         StopWaits', GatheredLeave', InterruptedUnwind'
  PROVE  Waits'
<1>1. HolderLeaves' /\ LeaverWaits'
  BY DEF Waits, HolderLeaves, LeaverWaits, Leaving, RunTypeOK
<1> QED
  BY <1>1 DEF Waits

LEMMA MovesWaits ==
  ASSUME StopInv, Waits, NEW c \in Conns, Moves(c)
  PROVE  Waits'
<1>0. /\ RunTypeOK /\ ShutdownTypeOK /\ TypeOK /\ RunInv
      /\ ClientStep(c) \/ ConnStep(c)
      /\ holder \in {None, c} /\ c \notin cancelled
      /\ UNCHANGED <<link, stopping, cancelled, gathered, interrupted>>
      /\ stop' = "runs" => stop = "runs"
      /\ None \notin Conns /\ None # Server /\ Server \notin Conns
  BY MovesKeeps, ConstantsAssumption, ServerAssumption DEF StopInv, Inv, Moves
<1>1. /\ holder' \in {None, c}
      /\ holder' = c => Leaving(c)'
      /\ Leaving(c)' /\ holder' # c => awaiting'[c] # None /\ task'[awaiting'[c]] # "none"
      /\ conn[c] \in {"closing", "sweeping"} => conn'[c] \in {"closing", "sweeping", "gone"}
      /\ \A r \in Runs : task[r] # "none" => task'[r] = task[r]
  BY <1>0, ConnectionWaits
<1>2. /\ conn[c] # "gone"
      /\ \A d \in Conns \ {c} : conn'[d] = conn[d] /\ awaiting'[d] = awaiting[d]
  BY <1>0, ConnectionFacts
<1>3. HolderLeaves'
  BY <1>0, <1>1 DEF HolderLeaves
<1>4. LeaverWaits'
  <2> SUFFICES ASSUME NEW d \in Conns, Leaving(d)', holder' # d
               PROVE  awaiting'[d] # None /\ task'[awaiting'[d]] # "none"
    BY DEF LeaverWaits
  <2>1. CASE d = c
    BY <1>1, <2>1
  <2>2. CASE d # c
    <3>1. Leaving(d) /\ holder # d
      BY <1>0, <1>2, <2>2 DEF Leaving
    <3>2. awaiting[d] \in Runs /\ task[awaiting[d]] # "none"
      BY <1>0, <3>1 DEF Waits, LeaverWaits, RunTypeOK
    <3> QED
      BY <1>1, <1>2, <2>2, <3>2, ConstantsAssumption
  <2> QED
    BY <2>1, <2>2
<1>5. StopWaits'
  BY <1>0, <1>1 DEF Waits, StopWaits, ShutdownTypeOK
<1>6. GatheredLeave'
  BY <1>0, <1>1, <1>2 DEF Waits, GatheredLeave, ShutdownTypeOK
<1>7. InterruptedUnwind'
  BY <1>0, <1>1 DEF Waits, InterruptedUnwind, ShutdownTypeOK
<1> QED
  BY <1>3, <1>4, <1>5, <1>6, <1>7 DEF Waits

LEMMA TasksWaits ==
  ASSUME StopInv, Waits, NEW r \in Runs, Executed(r) \/ UnwindInterrupted(r)
  PROVE  Waits'
<1>0. /\ RunTypeOK /\ ShutdownTypeOK
      /\ UNCHANGED <<holder, conn, awaiting, stopVars>> /\ holder = None
      /\ None \notin Conns
  BY TaskMoves, ConstantsAssumption DEF StopInv, Executed, UnwindInterrupted
<1>1. \A q \in Runs : /\ task[q] # "none" => task'[q] # "none"
                      /\ q \in interrupted => task'[q] \in {"unwind", "done"}
  <2>1. CASE Executed(r)
    <3>1. /\ TaskStep(r) \/ Heartbeat(r)
          /\ task[r] = "unwind" => r \notin interrupted
          /\ TypeOK
      BY <2>1, ExecutedKeeps DEF Executed, Inv
    <3>2. /\ task[r] # "none" => task'[r] # "none"
          /\ task[r] = "done" => task'[r] = "done"
          /\ \A q \in Runs \ {r} : task'[q] = task[q]
      BY <3>1, TaskGoesOn
    <3> QED
      BY <3>1, <3>2 DEF Waits, InterruptedUnwind
  <2>2. CASE UnwindInterrupted(r)
    BY <1>0, <2>2 DEF UnwindInterrupted, Goto, RunTypeOK, Waits, InterruptedUnwind
  <2> QED
    BY <2>1, <2>2
<1>2. StopWaits' /\ GatheredLeave' /\ InterruptedUnwind'
  BY <1>0, <1>1 DEF Waits, StopWaits, GatheredLeave, InterruptedUnwind, ShutdownTypeOK
<1> QED
  BY <1>0, <1>1, <1>2, WaitsFrame

(* stop() gives up the event loop only to wait for the task of a run. *)
LEMMA StopStepWaits ==
  ASSUME StopInv, Waits, StopStep \/ Quiet
  PROVE  Waits'
<1>0. /\ RunTypeOK /\ ShutdownTypeOK /\ Phase
      /\ None \notin Conns /\ Server \notin Conns
  BY ConstantsAssumption, ServerAssumption DEF StopInv
<1>1. ASSUME NEW s \in Sessions, VisitSession(s) PROVE Waits'
  <2>1. /\ holder = Server /\ holder' \in {None, Server}
        /\ UNCHANGED <<conn, awaiting, task, link, stop, cancelled, gathered, interrupted>>
        /\ holder' # Server => stopping' # None /\ task[stopping'] # "none"
    BY <1>1 DEF VisitSession, IsActive
  <2>2. StopWaits' /\ GatheredLeave' /\ InterruptedUnwind'
    BY <2>1 DEF Waits, StopWaits, GatheredLeave, InterruptedUnwind
  <2> QED
    BY <1>0, <2>1, <2>2, WaitsFrame
<1>2. CASE RunStopped
  <2>1. /\ holder \in {None, Server} /\ holder' = Server
        /\ UNCHANGED <<conn, awaiting, task, link, stop, cancelled, gathered, interrupted>>
    BY <1>2 DEF RunStopped
  <2>2. StopWaits' /\ GatheredLeave' /\ InterruptedUnwind'
    BY <2>1 DEF Waits, StopWaits, GatheredLeave, InterruptedUnwind
  <2> QED
    BY <1>0, <2>1, <2>2, WaitsFrame
<1>3. CASE BeginStop
  <2>1. /\ holder = None /\ holder' = Server
        /\ UNCHANGED <<conn, awaiting, task, link, cancelled, gathered, interrupted>>
    BY <1>3 DEF BeginStop
  <2>2. StopWaits' /\ GatheredLeave' /\ InterruptedUnwind'
    BY <2>1 DEF Waits, StopWaits, GatheredLeave, InterruptedUnwind
  <2> QED
    BY <1>0, <2>1, <2>2, WaitsFrame
<1>4. CASE CancelConnections
  <2>1. /\ holder = Server /\ holder' = None /\ stop' # "runs" /\ cancelled' = gathered'
        /\ gathered' = {c \in Conns : link[c] # "none" /\ conn[c] # "gone"}
        /\ \A r \in interrupted' : task[r] = "unwind"
        /\ UNCHANGED <<conn, awaiting, task, link>>
    BY <1>4 DEF CancelConnections
  <2>2. StopWaits' /\ GatheredLeave' /\ InterruptedUnwind'
    BY <2>1 DEF StopWaits, GatheredLeave, InterruptedUnwind
  <2> QED
    BY <1>0, <2>1, <2>2, WaitsFrame
<1>5. CASE Quiet
  <2>1. /\ UNCHANGED <<holder, conn, awaiting, task, stopping, cancelled, gathered, interrupted>>
        /\ stop' = "runs" => stop = "runs"
        /\ \A c \in Conns : link[c] # "none" => link'[c] # "none"
    BY <1>0, <1>5
       DEF Quiet, Accept, Serve, PeerCloses, Signal, CloseWriters, CloseListener, Return, vars,
           ShutdownTypeOK
  <2>2. HolderLeaves' /\ LeaverWaits'
    BY <2>1 DEF Waits, HolderLeaves, LeaverWaits, Leaving
  <2>3. StopWaits' /\ GatheredLeave' /\ InterruptedUnwind'
    BY <1>0, <2>1 DEF Waits, StopWaits, GatheredLeave, InterruptedUnwind, ShutdownTypeOK
  <2> QED
    BY <2>2, <2>3 DEF Waits
<1> QED
  BY <1>1, <1>2, <1>3, <1>4, <1>5 DEF StopStep, Quiet

(* A cancelled connection is gone, or takes the event loop to leave. *)
LEMMA CancelledWaits ==
  ASSUME StopInv, Waits, NEW c \in Conns, Cancelled(c)
  PROVE  Waits'
<1>0. /\ RunTypeOK /\ ShutdownTypeOK /\ Phase
      /\ None \notin Conns
  BY ConstantsAssumption DEF StopInv
<1>1. /\ c \in cancelled /\ cancelled' = cancelled \ {c}
      /\ \A d \in Conns \ {c} : conn'[d] = conn[d] /\ awaiting'[d] = awaiting[d]
      /\ UNCHANGED <<task, link, stop, stopping, gathered, interrupted>>
  <2>1. /\ c \in cancelled /\ cancelled' = cancelled \ {c}
        /\ \/ conn' = [conn EXCEPT ![c] = "gone"]
           \/ conn' = [conn EXCEPT ![c] = "closing"]
        /\ awaiting' = [awaiting EXCEPT ![c] = None]
        /\ UNCHANGED <<task, link, stop, stopping, gathered, interrupted>>
    BY CancelledFacts
  <2> QED
    BY <1>0, <2>1 DEF RunTypeOK
<1>2. /\ holder = None
      /\ \/ holder' = None /\ conn'[c] = "gone"
         \/ holder' = c /\ conn'[c] = "closing"
  BY <1>0 DEF Cancelled, NeverServed, LoopCancelled, CleanupCancelled, LeaveSessions, RunTypeOK
<1>3. HolderLeaves'
  BY <1>0, <1>1, <1>2 DEF HolderLeaves, Leaving
<1>4. LeaverWaits'
  <2> SUFFICES ASSUME NEW d \in Conns, Leaving(d)', holder' # d
               PROVE  awaiting'[d] # None /\ task'[awaiting'[d]] # "none"
    BY DEF LeaverWaits
  <2>1. d # c
    BY <1>2 DEF Leaving
  <2>2. Leaving(d) /\ holder # d
    BY <1>0, <1>1, <1>2, <2>1 DEF Leaving
  <2> QED
    BY <1>1, <2>1, <2>2 DEF Waits, LeaverWaits
<1>5. StopWaits'
  BY <1>0, <1>1 DEF StopWaits, Phase
<1>6. GatheredLeave'
  BY <1>0, <1>1, <1>2 DEF Waits, GatheredLeave, ShutdownTypeOK
<1>7. InterruptedUnwind'
  BY <1>1 DEF Waits, InterruptedUnwind
<1> QED
  BY <1>3, <1>4, <1>5, <1>6, <1>7 DEF Waits

LEMMA WaitsStep == StopInv /\ Waits /\ [ShutdownNext]_shutdownVars => Waits'
<1> SUFFICES ASSUME StopInv, Waits, [ShutdownNext]_shutdownVars PROVE Waits'
  OBVIOUS
<1>1. CASE UNCHANGED shutdownVars
  BY <1>1 DEF shutdownVars, vars, Waits, HolderLeaves, LeaverWaits, Leaving, StopWaits,
              GatheredLeave, InterruptedUnwind
<1> QED
  BY <1>1, ConnectionMoves, MovesWaits, TasksWaits, StopStepWaits, CancelledWaits
     DEF ShutdownNext, Quiet

(* A created task that is not over can go on: when it returned from the    *)
(* agent loop it knows its result.                                         *)
LEMMA UnfinishedMoves ==
  ASSUME StopInv, TellInv, Waits, holder = None, NEW r \in Runs, task[r] \notin {"none", "done"}
  PROVE  TaskCanMove(r)
<1>1. task[r] \in TaskStates /\ state[r] \in {"running"} \cup Terminal
  BY DEF StopInv, RunTypeOK, RunInv, HomeSession, RunStates
<1>2. task[r] = "final_stream" => result[r] \in {"answer", "max_steps"}
  BY DEF TellInv, Telling
<1>3. r \in interrupted => task[r] = "unwind"
  BY DEF Waits, InterruptedUnwind
<1> QED
  BY <1>1, <1>2, <1>3 DEF TaskCanMove, TaskStates

(* If nobody holds the event loop, a connection on its way out can move,   *)
(* cancelled or not, or the task that it waits for can.                    *)
LEMMA LeaverMoves ==
  ASSUME StopInv, TellInv, Waits, holder = None, NEW c \in Conns, Leaving(c)
  PROVE  ConnCanMove(c) \/ CancelledCanMove(c) \/ \E r \in Runs : TaskCanMove(r)
<1>1. awaiting[c] \in Runs /\ task[awaiting[c]] # "none" /\ awaiting[c] # None
  BY ConstantsAssumption DEF Waits, LeaverWaits, StopInv, RunTypeOK
<1>2. CASE task[awaiting[c]] # "done"
  BY <1>1, <1>2, UnfinishedMoves
<1>3. CASE task[awaiting[c]] = "done" /\ c \notin cancelled
  BY <1>1, <1>3 DEF ConnCanMove, CancelLanded, Leaving
<1>4. CASE task[awaiting[c]] = "done" /\ c \in cancelled
  <2>1. link[c] = "served"
    BY DEF Leaving, StopInv, Linked
  <2> QED
    BY <1>4, <2>1 DEF CancelledCanMove, Leaving
<1> QED
  BY <1>2, <1>3, <1>4

(* A connection that stop() waits for is leaving, or will be told that it  *)
(* is cancelled.                                                           *)
LEMMA GatheredMoves ==
  ASSUME StopInv, TellInv, Waits, holder = None, NEW c \in gathered, conn[c] # "gone"
  PROVE  ConnCanMove(c) \/ CancelledCanMove(c) \/ \E r \in Runs : TaskCanMove(r)
<1>1. c \in Conns /\ conn[c] \in ConnStates /\ link[c] \in {"accepted", "served"}
  BY DEF StopInv, RunTypeOK, ShutdownTypeOK, Waits, GatheredLeave
<1>2. CASE Leaving(c)
  BY <1>1, <1>2, LeaverMoves
<1>3. CASE ~Leaving(c)
  <2>1. c \in cancelled
    BY <1>3 DEF Leaving, Waits, GatheredLeave
  <2> QED
    BY <1>1, <1>3, <2>1 DEF CancelledCanMove, Leaving, ConnStates
<1> QED
  BY <1>2, <1>3

(* stop() waits for the tasks of runs, then for connections that wait for  *)
(* tasks of runs themselves, and those wait for nobody: in every state     *)
(* between the request to end and the return of stop() a coroutine of the  *)
(* server can move without a client doing anything, unless stop() waits    *)
(* for the transport of a connection that it did not close.                *)
THEOREM StopIsNeverStuck == ShutdownSpec => []StopGoesOn
<1>1. ShutdownInit => Waits
  BY ConstantsAssumption
     DEF ShutdownInit, Init, Waits, HolderLeaves, LeaverWaits, Leaving, StopWaits, GatheredLeave,
         InterruptedUnwind
<1>2. StopInv /\ TellInv /\ Waits => StopGoesOn
  <2> SUFFICES ASSUME StopInv, TellInv, Waits, stop \notin {"serving", "returned"}
               PROVE  \/ StopCanMove
                      \/ \E c \in Conns : ConnCanMove(c) \/ CancelledCanMove(c)
                      \/ \E r \in Runs : TaskCanMove(r)
                      \/ stop = "listener" /\ \E c \in leaked \cup Late : Open(c)
    BY DEF StopGoesOn
  <2>0. ShutdownTypeOK /\ Phase
    BY DEF StopInv
  <2>1. ASSUME NEW c \in Conns, holder = c PROVE ConnCanMove(c)
    <3>1. c \notin cancelled /\ Leaving(c)
      BY <2>1 DEF Waits, HolderLeaves
    <3> QED
      BY <2>1, <3>1 DEF ConnCanMove, CancelLanded, Leaving
  <2>2. CASE holder = Server
    BY <2>0, <2>2 DEF Phase, StopCanMove
  <2>3. CASE holder = None /\ stop = "runs"
    <3>1. stopping \in Runs /\ stopping # None /\ task[stopping] # "none"
      BY <2>0, <2>3, ServerAssumption DEF Waits, StopWaits, ShutdownTypeOK
    <3>2. CASE task[stopping] = "done"
      BY <2>3, <3>1, <3>2 DEF StopCanMove
    <3>3. CASE task[stopping] # "done"
      BY <2>3, <3>1, <3>3, UnfinishedMoves
    <3> QED
      BY <3>2, <3>3
  <2>4. CASE holder = None /\ stop \in {"requested", "writers"}
    BY <2>4 DEF StopCanMove
  <2>5. CASE holder = None /\ stop = "connections"
    <3>1. CASE \A c \in gathered : conn[c] = "gone"
      BY <2>5, <3>1 DEF StopCanMove
    <3>2. CASE \E c \in gathered : conn[c] # "gone"
      BY <2>0, <2>5, <3>2, GatheredMoves DEF ShutdownTypeOK
    <3> QED
      BY <3>1, <3>2
  <2>6. CASE holder = None /\ stop = "listener"
    <3>1. CASE \A c \in Conns : ~Open(c)
      BY <2>6, <3>1 DEF StopCanMove
    <3>2. ASSUME NEW c \in Conns, Open(c) PROVE c \in leaked \cup Late
      BY <2>0, <2>6, <3>2 DEF Open, Late, Phase
    <3> QED
      BY <2>6, <3>1, <3>2
  <2> QED
    BY <2>0, <2>1, <2>2, <2>3, <2>4, <2>5, <2>6 DEF ShutdownTypeOK
<1>3. ShutdownInit => StopInv /\ TellInv
  BY StopInit, TellInit DEF ShutdownInit
<1> QED
  BY <1>1, <1>2, <1>3, StopTellInvariance, WaitsStep, PTL DEF ShutdownSpec

===============================================================================
