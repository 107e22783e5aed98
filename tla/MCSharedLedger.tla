--------------------------- MODULE MCSharedLedger ---------------------------
(* Instances of SharedLedger for TLC. *)
EXTENDS SharedLedger, TLC

\* A supervisor may be killed at any point.
CrashAnywhere == Points \ {"dead"}
RemoveFaults == {"remove"}
=============================================================================
