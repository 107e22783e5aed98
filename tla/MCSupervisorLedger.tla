------------------------- MODULE MCSupervisorLedger -------------------------
(* Instances of SupervisorLedger for TLC. *)
EXTENDS SupervisorLedger, TLC

\* A process may be killed between writing the temp file and renaming it.
CrashBeforeRename == {"temp"}

NoFaults == {}
=============================================================================
