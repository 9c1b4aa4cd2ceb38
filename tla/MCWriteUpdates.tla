-------------------------- MODULE MCWriteUpdates --------------------------
(* Small instances of WriteUpdates for TLC. *)
EXTENDS WriteUpdates, TLC

OneBase == [br \in Branches |-> DefaultBase]
NotDefault == [br \in Branches |-> CHOOSE b \in Bases : b # DefaultBase]
AllBranch == [br \in Branches |-> "branch"]
NoAutomerge == [br \in Branches |-> "none"]
\* one branch is automerged as a branch, the others as pull requests
OneBranch == [br \in Branches |-> IF br = CHOOSE x \in Branches : TRUE THEN "branch" ELSE "pr"]
\* the branches without an alert are interchangeable where they are configured alike
Symmetry == Permutations(Branches \ Alerts)
===========================================================================
