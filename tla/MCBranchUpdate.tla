-------------------------- MODULE MCBranchUpdate --------------------------
(* Small instances of BranchUpdate for TLC. *)
EXTENDS BranchUpdate, TLC

FirstConflicts == {<<DefaultBase, 1>>}
\* the second commit of the default branch conflicts with update branches
SecondConflicts == {<<DefaultBase, 2>>}
\* only the default branch moves, once; or twice
OneMove == [b \in Bases |-> IF b = DefaultBase THEN 1 ELSE 0]
TwoMoves == [b \in Bases |-> IF b = DefaultBase THEN 2 ELSE 0]
\* every branch starts on the default branch: they are interchangeable
Symmetry == Permutations(Branches)
=============================================================================
