---------------------------- MODULE SharedLedger ----------------------------
(***************************************************************************)
(* The same ledger file with its second author: the TypeScript harness     *)
(* (packages/harness-core/src/ledger.ts:49, appendEvent) reads the events, *)
(* computes the parent of the new one and appends a line with flag "a",    *)
(* without the lock.  The agent loop and the local run use it, supervised  *)
(* runs append through a supervisor process; nothing keeps one from        *)
(* running beside the other.                                               *)
(*                                                                         *)
(* An append with flag "a" opens the file and then writes; a supervisor's  *)
(* rename in between leaves the write in the replaced file.                *)
(***************************************************************************)
EXTENDS SupervisorLedger

CONSTANT Writers      \* TypeScript processes that append

ASSUME SharedLedgerAssumption == Writers \cap Procs = {}

VARIABLES
    tsPc,         \* tsPc[w] \in {"idle", "read", "open"}
    tsLine,       \* tsLine[w]: the line w is about to write
    tsCurrent,    \* tsCurrent[w]: the file w opened is still the ledger
    tsAcked,      \* ids whose appendEvent resolved
    tsIds,        \* history: the ids of the TypeScript lines
    overtaken,    \* history: the lines under way beside a supervisor's rewrite
    forked        \* history: the lines under way beside another TypeScript line

tsVars == <<tsPc, tsLine, tsCurrent, tsAcked, tsIds>>
sharedVars == <<vars, tsVars, overtaken, forked>>

NoLine == [id |-> 0, parent |-> 0]

SharedInit ==
    /\ Init
    /\ tsPc = [w \in Writers |-> "idle"]
    /\ tsLine = [w \in Writers |-> NoLine]
    /\ tsCurrent = [w \in Writers |-> FALSE]
    /\ tsAcked = {}
    /\ tsIds = {}
    /\ overtaken = {}
    /\ forked = {}

-----------------------------------------------------------------------------
(* The history of overlaps, kept by every step *)

\* A line is under way from the read of the ledger to the write of the line.
UnderWay == {w \in Writers : tsPc[w] # "idle"}

\* A supervisor rewrites from its read of the ledger to its rename.
Rewriting == \E p \in Procs : pc[p] \in {"read", "temp"}

BesideRewrite == {tsLine[w].id : w \in {u \in UnderWay : Rewriting}}

BesideLine == {tsLine[w].id : w \in {u \in UnderWay : \E v \in UnderWay : v # u}}

NoteOverlaps ==
    /\ overtaken' = overtaken \cup BesideRewrite'
    /\ forked' = forked \cup BesideLine'

-----------------------------------------------------------------------------
(* The TypeScript author *)

\* Variant of TsRead: the first event of a process names no parent.
TsReadOrphan(w) ==
    /\ tsPc[w] = "idle"
    /\ lastId < MaxEvents
    /\ lastId' = lastId + 1
    /\ tsLine' = [tsLine EXCEPT ![w] = [id |-> lastId + 1, parent |-> 0]]
    /\ tsPc' = [tsPc EXCEPT ![w] = "read"]
    /\ tsIds' = tsIds \cup {lastId + 1}
    /\ UNCHANGED <<ledger, lock, temps, pc, job, snap, event, outcome, acked>>
    /\ UNCHANGED <<tsCurrent, tsAcked>>
    /\ NoteOverlaps

\* readEvents and withEventHash: the line names the last event it saw.
TsRead(w) ==
    /\ tsPc[w] = "idle"
    /\ lastId < MaxEvents
    /\ lastId' = lastId + 1
    /\ tsLine' = [tsLine EXCEPT ![w] = [id |-> lastId + 1, parent |-> LastId(ledger)]]
    /\ tsPc' = [tsPc EXCEPT ![w] = "read"]
    /\ tsIds' = tsIds \cup {lastId + 1}
    /\ UNCHANGED <<ledger, lock, temps, pc, job, snap, event, outcome, acked>>
    /\ UNCHANGED <<tsCurrent, tsAcked>>
    /\ NoteOverlaps

\* The schema refuses the event, or the process ends: nothing is written.
TsRefuse(w) ==
    /\ tsPc[w] = "read"
    /\ tsPc' = [tsPc EXCEPT ![w] = "idle"]
    /\ tsLine' = [tsLine EXCEPT ![w] = NoLine]
    /\ UNCHANGED <<vars, tsCurrent, tsAcked, tsIds>>
    /\ NoteOverlaps

\* writeFile(..., { flag: "a" }) opens the ledger.
TsOpen(w) ==
    /\ tsPc[w] = "read"
    /\ tsCurrent' = [tsCurrent EXCEPT ![w] = TRUE]
    /\ tsPc' = [tsPc EXCEPT ![w] = "open"]
    /\ UNCHANGED <<vars, tsLine, tsAcked, tsIds>>
    /\ NoteOverlaps

\* Variant of TsWrite: the file is overwritten, as by flag "w".
TsWriteTruncating(w) ==
    /\ tsPc[w] = "open"
    /\ ledger' = IF tsCurrent[w] THEN <<tsLine[w]>> ELSE ledger
    /\ tsAcked' = tsAcked \cup {tsLine[w].id}
    /\ tsPc' = [tsPc EXCEPT ![w] = "idle"]
    /\ UNCHANGED <<lock, temps, pc, job, snap, event, outcome, lastId, acked>>
    /\ tsLine' = [tsLine EXCEPT ![w] = NoLine]
    /\ tsCurrent' = [tsCurrent EXCEPT ![w] = FALSE]
    /\ UNCHANGED tsIds
    /\ NoteOverlaps

\* ... and writes at the end of the file it opened.
TsWrite(w) ==
    /\ tsPc[w] = "open"
    /\ ledger' = IF tsCurrent[w] THEN Append(ledger, tsLine[w]) ELSE ledger
    /\ tsAcked' = tsAcked \cup {tsLine[w].id}
    /\ tsPc' = [tsPc EXCEPT ![w] = "idle"]
    /\ UNCHANGED <<lock, temps, pc, job, snap, event, outcome, lastId, acked>>
    /\ tsLine' = [tsLine EXCEPT ![w] = NoLine]
    /\ tsCurrent' = [tsCurrent EXCEPT ![w] = FALSE]
    /\ UNCHANGED tsIds
    /\ NoteOverlaps

-----------------------------------------------------------------------------
(* The supervisors beside it *)

\* A step that leaves the TypeScript author's files and lines alone.
Beside == UNCHANGED tsVars /\ NoteOverlaps

\* A supervisor's rename replaces the file under every open handle.
SharedRename(p) ==
    /\ Rename(p)
    /\ tsCurrent' = [w \in Writers |-> tsCurrent[w] /\ temps[p] = NoTemp]
    /\ UNCHANGED <<tsPc, tsLine, tsAcked, tsIds>>
    /\ NoteOverlaps

SharedAcquire(p) == Acquire(p) /\ Beside

SharedLocked(p) ==
    \/ /\ WritePid(p) \/ ReadLedger(p) \/ WriteTemp(p) \/ Recover(p) \/ Return(p)
       /\ Beside
    \/ SharedRename(p)

SharedServe(p) ==
    /\ Request(p) \/ AppendEvent(p) \/ Respond(p) \/ Crash(p)
    /\ Beside

SharedNext ==
    \/ \E w \in Writers : TsRead(w) \/ TsRefuse(w) \/ TsOpen(w) \/ TsWrite(w)
    \/ \E p \in Procs : SharedServe(p) \/ SharedAcquire(p) \/ SharedLocked(p)
    \/ LockAges /\ Beside

SharedSpec == SharedInit /\ [][SharedNext]_sharedVars

\* A running supervisor keeps executing the call it is in.
SharedFairSpec ==
    /\ SharedSpec
    /\ \A p \in Procs :
          WF_sharedVars(SharedAcquire(p)) /\ WF_sharedVars(SharedLocked(p))

-----------------------------------------------------------------------------
(* Properties *)

\* Every line of a ledger names the line before it, the first one none, but for
\* the lines in the given set.
LinkedBut(s, loose) ==
    \A i \in DOMAIN s :
       s[i].id \notin loose => s[i].parent = IF i = 1 THEN 0 ELSE s[i - 1].id

\* The chain may break only at a TypeScript line that was under way while a
\* supervisor rewrote the file or another TypeScript line was under way: ledger.ts
\* takes no lock.  The lines of supervisors, and every line that was alone, name
\* the line before them, across authors and whatever was killed or lost between.
CrossAuthorChain == LinkedBut(ledger, overtaken \cup forked)

\* An append that was acknowledged stays, of a supervisor whatever runs beside it;
\* a line of the TypeScript author unless a supervisor's rewrite overtook it.
SharedDurable == AckedDurable /\ tsAcked \subseteq LedgerIds \cup overtaken

\* The supervisors' lines are the append-only log of EventLog, also with a second
\* author who appends between them.
SupervisorLines == SelectSeq(ledger, LAMBDA line : line.id \notin tsIds)

SharedLog == INSTANCE EventLog WITH
    EventId <- EventIds,
    log <- [i \in DOMAIN SupervisorLines |-> SupervisorLines[i].id]

SharedImplementsLog == SharedLog!Spec
=============================================================================
