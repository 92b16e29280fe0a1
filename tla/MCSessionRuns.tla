----------------------------- MODULE MCSessionRuns -----------------------------
(* Small instances of SessionRuns.  Connections and runs are never          *)
(* compared but for equality, so they may be permuted in the safety runs.   *)
EXTENDS SessionRuns, TLC

Symmetry == Permutations(Conns) \cup Permutations(Runs)

=============================================================================
