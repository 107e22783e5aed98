------------------------------ MODULE EventLog ------------------------------
(***************************************************************************)
(* What the event ledger of a workspace promises its callers, whatever     *)
(* files, locks and processes implement it: events are only ever added at  *)
(* the end, and an event whose append was acknowledged is in the log from  *)
(* then on.  (crates/supervisor/src/lib.rs:451, append_event_with_payload, *)
(* returns the event id; docs call the ledger append-only.)                *)
(***************************************************************************)
EXTENDS Naturals, Sequences

CONSTANT EventId

VARIABLES
    log,      \* the committed events, oldest first
    acked     \* the events whose append returned successfully

logVars == <<log, acked>>

LogIds == {log[i] : i \in DOMAIN log}

Init ==
    /\ log = <<>>
    /\ acked = {}

Commit(e) ==
    /\ e \notin LogIds
    /\ log' = Append(log, e)
    /\ UNCHANGED acked

Acknowledge(e) ==
    /\ e \in LogIds
    /\ acked' = acked \cup {e}
    /\ UNCHANGED log

Next == \E e \in EventId : Commit(e) \/ Acknowledge(e)

Spec == Init /\ [][Next]_logVars
=============================================================================
