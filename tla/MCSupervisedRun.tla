-------------------------- MODULE MCSupervisedRun --------------------------
(* An instance of SupervisedRun for TLC: a run id used twice. *)
EXTENDS SupervisedRun, TLC

KernelRuns == {KernelRun(TRUE), KernelRun(FALSE)}
RunSymmetry == Permutations(Clients)

\* A client may be killed at any point.
Anywhere == Points \ Ended
BothFaults == {"timeout", "serve"}
=============================================================================
