---------------------------- MODULE MCServerShutdown ----------------------------
(* Small instances of ServerShutdown.  Connections and runs are never       *)
(* compared but for equality, so they may be permuted.                      *)
EXTENDS ServerShutdown, TLC

Symmetry == Permutations(Conns) \cup Permutations(Runs)

=============================================================================
