---------------------------- MODULE MCChildAgents ----------------------------
(* An instance of ChildAgents for TLC. *)
EXTENDS ChildAgents, TLC

CONSTANTS e1, e2

TwoExecutors == {e1, e2}
Swapped == Permutations(TwoExecutors)
\* A quick read, and one that takes longer than the time budget of 4.
QuickAndSlow == {1, 5}
=============================================================================
