------------------------------ MODULE MCTaskGraph ------------------------------
(* Small instances of TaskGraph: every dependency list of at most two       *)
(* entries, repeated ones included.                                         *)
EXTENDS TaskGraph, TLC

CONSTANTS t1, t2, t3

ThreeIds == {t1, t2, t3}

ListsUpToTwo == {<<>>} \cup {<<d>> : d \in ThreeIds} \cup {<<d, e>> : d, e \in ThreeIds}

Symmetry == Permutations(ThreeIds)

=============================================================================
