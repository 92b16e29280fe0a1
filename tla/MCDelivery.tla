------------------------------- MODULE MCDelivery -------------------------------
(* A small instance of Delivery.  A line of each kind that the read loop    *)
(* treats differently is enough: what else a line may hold is decided by    *)
(* Parse and Dispatched alone.                                              *)
EXTENDS Delivery, TLC

Call(method, params, id) ==
    [text |-> "object", version |-> TRUE, method |-> method, params |-> params,
     result |-> FALSE, error |-> "absent", id |-> id]

Some == {Call("chat", "complete", "valid"),
         Call("chat", "complete", "absent"),
         Call("session.attach", "complete", "valid"),
         Call("session.detach", "none", "valid"),
         Call("shutdown", "none", "absent"),
         Call("permission.respond", "complete", "valid"),
         [Call("ping", "none", "valid") EXCEPT !.result = TRUE]}

Symmetry == Permutations(Conns) \cup Permutations(Runs)

=============================================================================
