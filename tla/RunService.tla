------------------------------ MODULE RunService -------------------------------
(***************************************************************************)
(* What the server promises its clients about chats: a session runs one    *)
(* chat at a time; an accepted chat ends in exactly one of four ways; and  *)
(* unless it was cancelled its outcome is told, once, and truthfully.      *)
(* Connections, subscriptions, tasks and the trace are not visible here.   *)
(***************************************************************************)
CONSTANTS Named, Runs, None

VARIABLES
  phase,    \* "none", "running" or how the run ended
  home,     \* the session of the run; its own for a chat without session
  told      \* the outcome its audience was told, or "nothing"

vars == <<phase, home, told>>

Ends == {"completed", "failed", "interrupted", "cancelled"}

Init ==
    /\ phase = [r \in Runs |-> "none"]
    /\ home = [r \in Runs |-> None]
    /\ told = [r \in Runs |-> "nothing"]

(* A chat is accepted only if no chat of the same session is running. *)
Accept(r, s) ==
    /\ phase[r] = "none"
    /\ \A q \in Runs : ~(phase[q] = "running" /\ home[q] = s)
    /\ phase' = [phase EXCEPT ![r] = "running"]
    /\ home' = [home EXCEPT ![r] = s]
    /\ UNCHANGED told

Finish(r, end) ==
    /\ phase[r] = "running"
    /\ phase' = [phase EXCEPT ![r] = end]
    /\ told[r] = "failed" => end \in {"failed", "cancelled"}
    /\ UNCHANGED <<home, told>>

(* A failure may be told before it is settled, an answer only after. *)
Tell(r, outcome) ==
    /\ told[r] = "nothing"
    /\ \/ outcome = "completed" /\ phase[r] \in {"completed", "interrupted"}
       \/ outcome = "failed" /\ phase[r] \in {"running", "failed"}
    /\ told' = [told EXCEPT ![r] = outcome]
    /\ UNCHANGED <<phase, home>>

Next ==
    \E r \in Runs :
        \/ \E s \in Named \cup {r} : Accept(r, s)
        \/ \E end \in Ends : Finish(r, end)
        \/ \E outcome \in {"completed", "failed"} : Tell(r, outcome)

Fairness ==
    \A r \in Runs : /\ WF_vars(\E end \in Ends : Finish(r, end))
                    /\ WF_vars(\E outcome \in {"completed", "failed"} : Tell(r, outcome))

Spec == Init /\ [][Next]_vars

FairSpec == Spec /\ Fairness

=============================================================================
