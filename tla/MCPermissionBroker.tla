--------------------------- MODULE MCPermissionBroker ---------------------------
(* Small instances of PermissionBroker.                                      *)
EXTENDS PermissionBroker, TLC

CONSTANTS c1, c2, r1, r2, q1, q2

(* write_file, a tool without a spec, and two calls whose rules conflict. *)
FourTerms ==
    { [rules |-> {}, override |-> None, spec |-> "ask"],
      [rules |-> {}, override |-> None, spec |-> None],
      [rules |-> {"allow", "deny"}, override |-> None, spec |-> "ask"],
      [rules |-> {"allow", "ask"}, override |-> "deny", spec |-> "deny"] }

Symmetry == Permutations({c1, c2}) \cup Permutations({q1, q2}) \cup Permutations({r1, r2})

=============================================================================
