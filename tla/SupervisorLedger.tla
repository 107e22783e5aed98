-------------------------- MODULE SupervisorLedger --------------------------
(***************************************************************************)
(* The event ledger of one workspace as the Rust supervisor processes      *)
(* write it (crates/supervisor/src/lib.rs): LedgerLock, the append that    *)
(* rewrites the file under the lock, and the recovery scan that begins     *)
(* every request (init_workspace, crates/supervisor/src/main.rs).          *)
(*                                                                         *)
(* A process is one `aetherion-supervisor` (stdio or socket, one request   *)
(* at a time).  Its control state pc[p] names the point between two system *)
(* calls.  An event is its id and the id of its parent: the SHA-256 of the *)
(* parent is abstracted to the parent's identity.  A process id is never   *)
(* reused.                                                                 *)
(***************************************************************************)
EXTENDS Naturals, Sequences

CONSTANTS
    Procs,       \* supervisor processes; a killed one is not started again
    MaxEvents,   \* bound on the number of append requests
    CrashAt,     \* program points at which a process may be killed
    Faults       \* which of "read", "pid_write", "stall", "remove" occur

(***************************************************************************)
(* Program points.  The process owns the lock file it created in LockHeld. *)
(***************************************************************************)
LockHeld == {"created", "holding", "read", "temp", "closing"}
Points == {"idle", "acquire", "steal", "ready", "dead"} \cup LockHeld

ASSUME SupervisorLedgerAssumption ==
    /\ MaxEvents \in Nat
    /\ "none" \notin Procs
    /\ CrashAt \subseteq Points \ {"dead"}
    /\ Faults \subseteq {"read", "pid_write", "stall", "remove"}

VARIABLES
    ledger,      \* events.jsonl, a sequence of [id, parent]
    lock,        \* events.jsonl.lock, or NoLock
    temps,       \* temps[p]: events.jsonl.tmp.<pid>.<n> of p, or NoTemp
    pc,          \* pc[p]: where p is
    job,         \* job[p]: "recover" (init_workspace) or "append"
    snap,        \* snap[p]: ledger_before, as p read it
    event,       \* event[p]: the id p gave its event (0: none)
    outcome,     \* outcome[p]: "ok" or "error", what the call will return
    lastId,      \* the last event id handed out (now_nanos)
    acked        \* ids whose append returned Ok

vars == <<ledger, lock, temps, pc, job, snap, event, outcome, lastId, acked>>

NoLock == [owner |-> "none", pid |-> FALSE, old |-> FALSE]
NoTemp == <<>>

(***************************************************************************)
(* The hash chain: the first event has no parent (0), every other names    *)
(* the event before it.                                                    *)
(***************************************************************************)
ChainValidSeq(s) ==
    \A i \in DOMAIN s : s[i].parent = IF i = 1 THEN 0 ELSE s[i - 1].id

LastId(s) == IF s = <<>> THEN 0 ELSE s[Len(s)].id

Extended(s, e) == Append(s, [id |-> e, parent |-> LastId(s)])

\* Variant of LockIsStale: an empty lock file is stale whatever its age.
EmptyLockIsStale == IF lock.pid THEN pc[lock.owner] = "dead" ELSE lock # NoLock

(***************************************************************************)
(* lock_is_stale: a recorded owner decides; an empty lock file is stale    *)
(* only by age (30 s).                                                     *)
(***************************************************************************)
LockIsStale ==
    IF lock.pid THEN pc[lock.owner] = "dead" ELSE lock.old

Init ==
    /\ ledger = <<>>
    /\ lock = NoLock
    /\ temps = [p \in Procs |-> NoTemp]
    /\ pc = [p \in Procs |-> "idle"]
    /\ job = [p \in Procs |-> "recover"]
    /\ snap = [p \in Procs |-> <<>>]
    /\ event = [p \in Procs |-> 0]
    /\ outcome = [p \in Procs |-> "ok"]
    /\ lastId = 0
    /\ acked = {}

Goto(p, point) == pc' = [pc EXCEPT ![p] = point]

-----------------------------------------------------------------------------
(* Calls *)

\* A request arrives: init_workspace recovers the ledger before it is served.
Request(p) ==
    /\ pc[p] = "idle"
    /\ Goto(p, "acquire")
    /\ job' = [job EXCEPT ![p] = "recover"]
    /\ UNCHANGED <<ledger, lock, temps, snap, event, outcome, lastId, acked>>

\* The request appends an event, one or several times.  Its id (a nanosecond
\* clock) is unique; the code composes it just after taking the lock.
AppendEvent(p) ==
    /\ pc[p] = "ready"
    /\ lastId < MaxEvents
    /\ Goto(p, "acquire")
    /\ job' = [job EXCEPT ![p] = "append"]
    /\ lastId' = lastId + 1
    /\ event' = [event EXCEPT ![p] = lastId + 1]
    /\ UNCHANGED <<ledger, lock, temps, snap, outcome, acked>>

\* The response is written; the process waits for the next request.  A call that
\* ends in an error ends the request with an error response: it goes to "idle".
Respond(p) ==
    /\ pc[p] = "ready"
    /\ Goto(p, "idle")
    /\ UNCHANGED <<ledger, lock, temps, job, snap, event, outcome, lastId, acked>>

-----------------------------------------------------------------------------
(* LedgerLock::acquire *)

\* Variant of CreateLock: create instead of create_new.
CreateLockShared(p) ==
    /\ pc[p] = "acquire"
    /\ lock' = [owner |-> p, pid |-> FALSE, old |-> FALSE]
    /\ Goto(p, "created")
    /\ UNCHANGED <<ledger, temps, job, snap, event, outcome, lastId, acked>>

\* open(create_new) succeeds; the file is still empty.
CreateLock(p) ==
    /\ pc[p] = "acquire"
    /\ lock = NoLock
    /\ lock' = [owner |-> p, pid |-> FALSE, old |-> FALSE]
    /\ Goto(p, "created")
    /\ UNCHANGED <<ledger, temps, job, snap, event, outcome, lastId, acked>>

\* writeln!(pid=...) goes to the file p opened, which may no longer be the one
\* at the lock path.  If it fails, acquire returns the error without a guard,
\* and the empty lock file stays.
WritePid(p) ==
    /\ pc[p] = "created"
    /\ \E written \in {TRUE} \cup (IF "pid_write" \in Faults THEN {FALSE} ELSE {}) :
          /\ lock' = IF lock.owner = p /\ written
                     THEN [owner |-> p, pid |-> TRUE, old |-> FALSE]
                     ELSE lock
          /\ Goto(p, IF written THEN "holding" ELSE "idle")
    /\ UNCHANGED <<ledger, temps, job, snap, event, outcome, lastId, acked>>

\* open(create_new) fails and lock_is_stale answers yes.
JudgeStale(p) ==
    /\ pc[p] = "acquire"
    /\ lock # NoLock
    /\ LockIsStale
    /\ Goto(p, "steal")
    /\ UNCHANGED <<ledger, lock, temps, job, snap, event, outcome, lastId, acked>>

\* remove_file(lock_path): whatever file is there by now.
RemoveStale(p) ==
    /\ pc[p] = "steal"
    /\ lock' = NoLock
    /\ Goto(p, "acquire")
    /\ UNCHANGED <<ledger, temps, job, snap, event, outcome, lastId, acked>>

\* The removal fails and the failure is ignored: the waiter judges the same lock
\* again, without looking at the time.
RemoveFails(p) ==
    /\ pc[p] = "steal"
    /\ "remove" \in Faults
    /\ Goto(p, "acquire")
    /\ UNCHANGED <<ledger, lock, temps, job, snap, event, outcome, lastId, acked>>

\* Variant of TimeOut: a waiter never gives up.
TimeOutNever(p) == pc[p] = "timed_out" /\ UNCHANGED vars

\* Five seconds have passed and the lock at the path is not stale.
TimeOut(p) ==
    /\ pc[p] = "acquire"
    /\ lock # NoLock
    /\ ~LockIsStale
    /\ Goto(p, "idle")
    /\ UNCHANGED <<ledger, lock, temps, job, snap, event, outcome, lastId, acked>>

-----------------------------------------------------------------------------
(* append_event_with_payload and atomic_rewrite_ledger, under the lock *)

\* The whole ledger is read; the event will name its last line as parent.  A read
\* error counts as an empty ledger (unwrap_or_default).
ReadLedger(p) ==
    /\ pc[p] = "holding"
    /\ job[p] = "append"
    /\ \E seen \in {ledger} \cup (IF "read" \in Faults THEN {<<>>} ELSE {}) :
         snap' = [snap EXCEPT ![p] = seen]
    /\ Goto(p, "read")
    /\ UNCHANGED <<ledger, lock, temps, job, event, outcome, lastId, acked>>

WriteTemp(p) ==
    /\ pc[p] = "read"
    /\ temps' = [temps EXCEPT ![p] = Extended(snap[p], event[p])]
    /\ Goto(p, "temp")
    /\ UNCHANGED <<ledger, lock, job, snap, event, outcome, lastId, acked>>

\* rename(temp, ledger); it fails if a recovery scan removed the temp file.
Rename(p) ==
    /\ pc[p] = "temp"
    /\ ledger' = IF temps[p] # NoTemp THEN temps[p] ELSE ledger
    /\ outcome' = [outcome EXCEPT ![p] = IF temps[p] # NoTemp THEN "ok" ELSE "error"]
    /\ temps' = [temps EXCEPT ![p] = NoTemp]
    /\ Goto(p, "closing")
    /\ UNCHANGED <<lock, job, snap, event, lastId, acked>>

\* The guard is dropped, which removes the file at the lock path (a removal that
\* fails is ignored), and the call returns.
Return(p) ==
    /\ pc[p] = "closing"
    /\ lock' \in {NoLock} \cup (IF "remove" \in Faults THEN {lock} ELSE {})
    /\ Goto(p, IF outcome[p] = "ok" THEN "ready" ELSE "idle")
    /\ acked' = IF outcome[p] = "ok" /\ job[p] = "append" THEN acked \cup {event[p]} ELSE acked
    /\ UNCHANGED <<ledger, temps, job, snap, event, outcome, lastId>>

-----------------------------------------------------------------------------
(* recover_ledger_on_startup, under the lock *)

\* Abandoned temp files are removed and the chain is verified; the read for it may
\* fail, which is an error here.
Recover(p) ==
    /\ pc[p] = "holding"
    /\ job[p] = "recover"
    /\ temps' = [q \in Procs |-> NoTemp]
    /\ \E unread \in {FALSE} \cup (IF "read" \in Faults THEN {TRUE} ELSE {}) :
          outcome' = [outcome EXCEPT ![p] =
                        IF ChainValidSeq(ledger) /\ ~unread THEN "ok" ELSE "error"]
    /\ Goto(p, "closing")
    /\ UNCHANGED <<ledger, lock, job, snap, event, lastId, acked>>

-----------------------------------------------------------------------------
(* The environment *)

\* The process is killed: its lock and temp files stay.
Crash(p) ==
    /\ pc[p] \in CrashAt
    /\ Goto(p, "dead")
    /\ UNCHANGED <<ledger, lock, temps, job, snap, event, outcome, lastId, acked>>

\* Thirty seconds pass over an empty lock file: nobody is about to write its
\* pid, or its creator stalls between open and write.
LockAges ==
    /\ lock # NoLock
    /\ ~lock.pid
    /\ ~lock.old
    /\ pc[lock.owner] # "created" \/ "stall" \in Faults
    /\ lock' = [lock EXCEPT !.old = TRUE]
    /\ UNCHANGED <<ledger, temps, pc, job, snap, event, outcome, lastId, acked>>

-----------------------------------------------------------------------------
Acquire(p) ==
    \/ CreateLock(p) \/ JudgeStale(p) \/ RemoveStale(p) \/ RemoveFails(p)
    \/ TimeOut(p)

Locked(p) ==
    \/ WritePid(p) \/ ReadLedger(p) \/ WriteTemp(p)
    \/ Rename(p) \/ Recover(p) \/ Return(p)

Next ==
    \/ \E p \in Procs :
         \/ Request(p) \/ AppendEvent(p) \/ Respond(p)
         \/ Acquire(p) \/ Locked(p) \/ Crash(p)
    \/ LockAges

Spec == Init /\ [][Next]_vars

-----------------------------------------------------------------------------
(* Properties *)

EventIds == 1..MaxEvents
Event == [id : EventIds, parent : 0..MaxEvents]

\* Every variable holds values of its type.
TypeOK ==
    /\ ledger \in Seq(Event)
    /\ \/ lock = NoLock
       \/ lock \in [owner : Procs, pid : BOOLEAN, old : BOOLEAN]
    /\ temps \in [Procs -> Seq(Event)]
    /\ pc \in [Procs -> Points]
    /\ job \in [Procs -> {"recover", "append"}]
    /\ snap \in [Procs -> Seq(Event)]
    /\ event \in [Procs -> 0..MaxEvents]
    /\ outcome \in [Procs -> {"ok", "error"}]
    /\ lastId \in 0..MaxEvents
    /\ acked \subseteq EventIds

\* Whatever is killed, stolen or raced, the ledger file is always a valid hash
\* chain: no recovery scan is ever refused by what supervisors wrote.
ChainValid == ChainValidSeq(ledger)

\* At most one process is between acquiring and releasing the ledger lock.
MutualExclusion ==
    \A p, q \in Procs : pc[p] \in LockHeld /\ pc[q] \in LockHeld => p = q

LedgerIds == {ledger[i].id : i \in DOMAIN ledger}

\* An event whose append was acknowledged is in the ledger.
AckedDurable == acked \subseteq LedgerIds

\* The file, the lock and the processes implement the promise of EventLog.
Log == INSTANCE EventLog WITH
    EventId <- EventIds,
    log <- [i \in DOMAIN ledger |-> ledger[i].id]

ImplementsLog == Log!Spec

\* A supervisor that waits for the ledger lock gets it and returns, gives up or
\* dies, unless its removals of a stale lock fail for ever: such a waiter never
\* comes to look at its five seconds.
CallsReturn ==
    \A p \in Procs :
       \/ pc[p] = "acquire" ~> pc[p] \in {"idle", "ready", "dead"}
       \/ []<><<RemoveFails(p)>>_vars
=============================================================================
