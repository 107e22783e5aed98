---------------------------- MODULE RunManifest ----------------------------
(***************************************************************************)
(* The manifest of one run (packages/harness-core/src/workspace.ts): a     *)
(* file that projects the run's ledger events, updated by client processes *)
(* under a lock directory and a generation check, while supervisors append *)
(* the events the clients ask for.                                         *)
(*                                                                         *)
(* A client executes the supervisor calls of a command (run-supervisor.ts, *)
(* run-local.ts, the managed runs of cli.ts), records the event ids each   *)
(* call returned and completes the manifest.  Any error ends the client,   *)
(* as the throw that leaves the command does.                              *)
(***************************************************************************)
EXTENDS Naturals, Sequences

CONSTANTS
    Clients,     \* client processes that work on this run id
    Commands,    \* the commands a client may have been started with
    CrashAt,     \* points at which a client may be killed
    Faults       \* which of "timeout" (socket), "serve" the system exhibits

EventTypes ==
    {"run.started", "user.message", "tool.requested", "risk.composed",
     "policy.decided", "lease.issued", "tool.result", "consent.recorded",
     "action.recorded", "observation.recorded", "verification.recorded",
     "run.completed", "governance", "agent.child.started", "agent.child.closed"}

(***************************************************************************)
(* A call appends the events of one of its outcomes.  mode "locked": the   *)
(* manifest lock is held across the call.  A refused outcome ends the      *)
(* client, in mode "guarded" before the events are recorded.  In mode      *)
(* "child" a failed call does not end the client: it records what the      *)
(* supervisor appended and closes the run (agent execute in cli.ts).       *)
(***************************************************************************)
Outcome == [events : Seq(EventTypes), accepted : BOOLEAN]
Step == [mode : {"locked", "traced", "guarded", "child"}, outcomes : SUBSET Outcome]

(***************************************************************************)
(* A command creates the manifest or loads an existing one, executes its   *)
(* calls and completes the manifest with its final status.                 *)
(***************************************************************************)
Command == [creates : BOOLEAN, calls : Seq(Step), final : {"completed", "blocked"}]

Points ==
    {"new", "write", "writing", "ready", "rpc", "record", "locked", "loaded",
     "verified", "unlock", "check", "checked", "complete", "done", "failed", "dead"}

Ended == {"done", "failed", "dead"}

ASSUME RunManifestAssumption ==
    /\ "none" \notin Clients
    /\ Commands \subseteq Command
    /\ CrashAt \subseteq Points \ Ended
    /\ Faults \subseteq {"timeout", "serve"}

VARIABLES
    log,         \* the run's events in ledger order: [id, type]
    file,        \* runs/<id>.json: a manifest, Missing or Torn
    lock,        \* runs/<id>.lock: the client that made it, or "none"
    command,     \* command[c]: what c was started with
    pc,          \* pc[c]: where c is
    step,        \* step[c]: the index of c's current call
    call,        \* call[c]: the supervisor's side of c's last call
    pending,     \* pending[c]: returned event ids c has yet to record
    observed,    \* observed[c]: event types of c's "child" call
    copy,        \* copy[c]: c's manifest object
    loaded,      \* loaded[c]: currentManifest, as c read it
    next,        \* next[c]: the manifest c is about to write
    erred        \* erred[c]: an error is on its way out of c

vars == <<log, file, lock, command, pc, step, call, pending, observed, copy, loaded, next, erred>>

Manifest(generation, ids, status) ==
    [generation |-> generation, ids |-> ids, status |-> status]

\* A file whose content does not parse, and no file: no generation matches.
Torn == Manifest(0, <<>>, "torn")
Missing == Manifest(0, <<>>, "missing")
Fresh == Manifest(0, <<>>, "running")
Readable(m) == m.status \notin {"torn", "missing"}

\* todo, late: events the supervisor will append, for a client that waits for them
\* and for one that gave up.  done: the ids it will return.
NoCall == [todo |-> <<>>, late |-> <<>>, done |-> <<>>, served |-> TRUE, accepted |-> TRUE]

Init ==
    /\ log = <<>>
    /\ file = Missing
    /\ lock = "none"
    /\ command \in [Clients -> Commands]
    /\ pc = [c \in Clients |-> "new"]
    /\ step = [c \in Clients |-> 1]
    /\ call = [c \in Clients |-> NoCall]
    /\ pending = [c \in Clients |-> <<>>]
    /\ observed = [c \in Clients |-> <<>>]
    /\ copy = [c \in Clients |-> Missing]
    /\ loaded = [c \in Clients |-> Missing]
    /\ next = [c \in Clients |-> Missing]
    /\ erred = [c \in Clients |-> FALSE]

Goto(c, point) == pc' = [pc EXCEPT ![c] = point] /\ UNCHANGED erred

\* A throw: the finally block of withRunManifestLock still runs.
Throw(c) ==
    /\ pc' = [pc EXCEPT ![c] = IF lock = c THEN "unlock" ELSE "failed"]
    /\ erred' = [erred EXCEPT ![c] = TRUE]

GotoIf(c, condition, point) == IF condition THEN Goto(c, point) ELSE Throw(c)

Calls(c) == command[c].calls
Completing(c) == step[c] > Len(Calls(c))
Mode(c) == Calls(c)[step[c]].mode

-----------------------------------------------------------------------------
(* createRunManifest and loadRunManifest *)

\* assertRunManifestDoesNotExist: a torn file exists, too.
CheckMissing(c) ==
    /\ pc[c] = "new"
    /\ command[c].creates
    /\ next' = [next EXCEPT ![c] = Fresh]
    /\ GotoIf(c, file = Missing, "write")
    /\ UNCHANGED <<command, log, file, lock, step, call, pending, observed, copy, loaded>>

\* A client that works on a manifest some other client created.
Open(c) ==
    /\ pc[c] = "new"
    /\ ~command[c].creates
    /\ copy' = [copy EXCEPT ![c] = file]
    /\ GotoIf(c, Readable(file), "ready")
    /\ UNCHANGED <<command, log, file, lock, step, call, pending, observed, loaded, next>>

-----------------------------------------------------------------------------
(* writeJson: open and truncate, then write *)

Truncate(c) ==
    /\ pc[c] = "write"
    /\ file' = Torn
    /\ Goto(c, "writing")
    /\ UNCHANGED <<command, log, lock, step, call, pending, observed, copy, loaded, next>>

Longer(m, n) ==
    \/ Len(m.ids) > Len(n.ids)
    \/ m.status \notin {"running", "torn"} /\ n.status = "running"

\* A text shorter than one that another client wrote since the truncation
\* leaves that one's tail.
Write(c) ==
    /\ pc[c] = "writing"
    /\ file' = IF Longer(file, next[c]) THEN Torn ELSE next[c]
    /\ copy' = [copy EXCEPT ![c] = next[c]]
    /\ Goto(c, IF lock = c THEN "unlock" ELSE "ready")
    /\ UNCHANGED <<command, log, lock, step, call, pending, observed, loaded, next>>

-----------------------------------------------------------------------------
(* Supervisor calls *)

StartCall(c) ==
    /\ \E o \in Calls(c)[step[c]].outcomes :
         call' = [call EXCEPT ![c].todo = o.events, ![c].done = <<>>,
                              ![c].served = TRUE, ![c].accepted = o.accepted]
    /\ Goto(c, "rpc")
    /\ UNCHANGED <<command, log, file, step, pending, observed, copy, loaded, next>>

\* appendSupervisorEvent takes the lock before it calls.
CallLocked(c) ==
    /\ pc[c] = "ready"
    /\ ~Completing(c)
    /\ Mode(c) = "locked"
    /\ lock = "none"
    /\ lock' = c
    /\ StartCall(c)

Call(c) ==
    /\ pc[c] = "ready"
    /\ ~Completing(c)
    /\ Mode(c) # "locked"
    /\ StartCall(c)
    /\ UNCHANGED lock

\* The supervisor appends the next event of the call, whether or not the
\* client is still there.
Serve(c) ==
    \E part \in {"todo", "late"} :
        /\ call[c][part] # <<>>
        /\ log' = Append(log, [id |-> Len(log) + 1, type |-> Head(call[c][part])])
        /\ call' = [call EXCEPT
             ![c][part] = Tail(@),
             ![c].done = IF part = "todo" THEN Append(@, Len(log) + 1) ELSE @]
        /\ UNCHANGED <<command, file, lock, pc, step, pending, observed, copy, loaded, next, erred>>

\* An append fails, or the supervisor dies: the rest of the call is not done.
ServeFails(c) ==
    /\ "serve" \in Faults
    /\ call[c].todo # <<>> \/ call[c].late # <<>>
    /\ call' = [call EXCEPT ![c].todo = <<>>, ![c].late = <<>>, ![c].served = FALSE]
    /\ UNCHANGED <<command, log, file, lock, pc, step, pending, observed, copy, loaded, next, erred>>

\* recordUnprojectedRunEvents: what the run's ledger holds beyond the manifest.
Unprojected(c) ==
    LET n == Len(copy[c].ids)
    IN  [i \in 1..(IF Len(log) > n THEN Len(log) - n ELSE 0) |-> log[n + i].id]

TypesOf(ids) == [i \in DOMAIN ids |-> log[ids[i]].type]

Reply(c) ==
    /\ pc[c] = "rpc"
    /\ call[c].todo = <<>>
    /\ Mode(c) # "child"
    /\ pending' = [pending EXCEPT ![c] = call[c].done]
    /\ GotoIf(c, call[c].served /\ (Mode(c) = "guarded" => call[c].accepted),
              IF lock = c THEN "locked" ELSE "record")
    /\ UNCHANGED <<command, log, file, lock, step, call, observed, copy, loaded, next>>

ChildReply(c) ==
    /\ pc[c] = "rpc"
    /\ call[c].todo = <<>>
    /\ Mode(c) = "child"
    /\ LET ids == IF call[c].served THEN call[c].done ELSE Unprojected(c)
       IN  /\ pending' = [pending EXCEPT ![c] = ids]
           /\ observed' = [observed EXCEPT ![c] = TypesOf(ids)]
    /\ Goto(c, "record")
    /\ UNCHANGED <<command, log, file, lock, step, call, copy, loaded, next>>

\* Variant of ChildTimeOut: the exit of the killed supervisor is not awaited.
ChildTimeOutUnawaited(c) ==
    /\ pc[c] = "rpc"
    /\ Mode(c) = "child"
    /\ "timeout" \in Faults
    /\ call' = [call EXCEPT ![c].late = call[c].todo, ![c].todo = <<>>, ![c].served = FALSE]
    /\ UNCHANGED <<command, log, file, lock, pc, step, pending, observed, copy, loaded, next, erred>>

\* The stdio call kills its supervisor and awaits its exit.
ChildTimeOut(c) ==
    /\ pc[c] = "rpc"
    /\ Mode(c) = "child"
    /\ "timeout" \in Faults
    /\ call' = [call EXCEPT ![c].todo = <<>>, ![c].served = FALSE]
    /\ UNCHANGED <<command, log, file, lock, pc, step, pending, observed, copy, loaded, next, erred>>

\* The socket call gives up after five seconds: the supervisor goes on.
TimeOut(c) ==
    /\ pc[c] = "rpc"
    /\ Mode(c) # "child"
    /\ "timeout" \in Faults
    /\ call' = [call EXCEPT ![c].late = call[c].todo, ![c].todo = <<>>]
    /\ Throw(c)
    /\ UNCHANGED <<command, log, file, lock, step, pending, observed, copy, loaded, next>>

-----------------------------------------------------------------------------
(* withRunManifestLock *)

WantsLock(c) ==
    \/ pc[c] = "record" /\ pending[c] # <<>>
    \/ pc[c] = "complete"

\* Variant of Lock: a lock directory that exists is no obstacle.
LockRegardless(c) ==
    /\ WantsLock(c)
    /\ lock' = c
    /\ Goto(c, "locked")
    /\ UNCHANGED <<command, log, file, step, call, pending, observed, copy, loaded, next>>

Lock(c) ==
    /\ WantsLock(c)
    /\ lock = "none"
    /\ lock' = c
    /\ Goto(c, "locked")
    /\ UNCHANGED <<command, log, file, step, call, pending, observed, copy, loaded, next>>

\* Variant of LockBusy: the client waits for the lock instead.
LockBusyWaits(c) ==
    /\ WantsLock(c)
    /\ lock # "none"
    /\ UNCHANGED vars

\* mkdir answers EEXIST: the update is refused, nobody waits.
LockBusy(c) ==
    /\ \/ WantsLock(c)
       \/ pc[c] = "ready" /\ ~Completing(c) /\ Mode(c) = "locked"
    /\ lock # "none"
    /\ Throw(c)
    /\ UNCHANGED <<command, log, file, lock, step, call, pending, observed, copy, loaded, next>>

\* rm(lockPath), then the call returns or throws on.
Unlock(c) ==
    /\ pc[c] = "unlock"
    /\ lock' = "none"
    /\ pending' = [pending EXCEPT ![c] = IF @ = <<>> THEN @ ELSE Tail(@)]
    /\ pc' = [pc EXCEPT ![c] = IF erred[c] THEN "failed"
                               ELSE IF Completing(c) THEN "done" ELSE "record"]
    /\ UNCHANGED <<command, log, file, step, call, observed, copy, loaded, next, erred>>

-----------------------------------------------------------------------------
(* recordRunEventFromCurrentState and completeRunManifest, under the lock *)

\* loadCurrentRunManifest: the generation on disk is the client's.
SameGeneration(m) == Readable(file) /\ file.generation = m.generation

\* Variant of Load: the manifest on disk is taken whatever its generation.
LoadAny(c) ==
    /\ pc[c] = "locked"
    /\ loaded' = [loaded EXCEPT ![c] = file]
    /\ GotoIf(c, Readable(file), "loaded")
    /\ UNCHANGED <<command, log, file, lock, step, call, pending, observed, copy, next>>

Load(c) ==
    /\ pc[c] = "locked"
    /\ loaded' = [loaded EXCEPT ![c] = file]
    /\ GotoIf(c, SameGeneration(copy[c]), "loaded")
    /\ UNCHANGED <<command, log, file, lock, step, call, pending, observed, copy, next>>

\* The manifest's ids are the first events of the run in the ledger.
PrefixOfLog(ids) ==
    /\ Len(ids) <= Len(log)
    /\ \A i \in 1..Len(ids) : ids[i] = log[i].id

NextInLog(m, id) ==
    /\ Len(m.ids) < Len(log)
    /\ log[Len(m.ids) + 1].id = id

Recorded(m, id) == Manifest(m.generation + 1, Append(m.ids, id), m.status)

\* Variant of VerifyNext: the id is recorded without a look at the ledger.
VerifyNothing(c) ==
    /\ pc[c] = "loaded"
    /\ ~Completing(c)
    /\ next' = [next EXCEPT ![c] = Recorded(loaded[c], Head(pending[c]))]
    /\ Goto(c, "verified")
    /\ UNCHANGED <<command, log, file, lock, step, call, pending, observed, copy, loaded>>

\* nextLedgerEventForManifest: only the next unrecorded event may be recorded.
VerifyNext(c) ==
    /\ pc[c] = "loaded"
    /\ ~Completing(c)
    /\ LET m == loaded[c]
           id == Head(pending[c])
           verified == PrefixOfLog(m.ids) /\ NextInLog(m, id)
       IN  /\ next' = IF verified THEN [next EXCEPT ![c] = Recorded(m, id)] ELSE next
           /\ GotoIf(c, verified, "verified")
    /\ UNCHANGED <<command, log, file, lock, step, call, pending, observed, copy, loaded>>

AllOfLog(m) == Len(m.ids) = Len(log) /\ PrefixOfLog(m.ids)

\* completeRunManifest: every event of the run has been recorded.
VerifyAll(c) ==
    /\ pc[c] = "loaded"
    /\ Completing(c)
    /\ next' = [next EXCEPT ![c] =
                  Manifest(loaded[c].generation + 1, loaded[c].ids, command[c].final)]
    /\ GotoIf(c, AllOfLog(loaded[c]), "verified")
    /\ UNCHANGED <<command, log, file, lock, step, call, pending, observed, copy, loaded>>

\* saveRunManifest reads the generation once more before it writes.
Recheck(c) ==
    /\ pc[c] = "verified"
    /\ GotoIf(c, SameGeneration(loaded[c]), "write")
    /\ UNCHANGED <<command, log, file, lock, step, call, pending, observed, copy, loaded, next>>

-----------------------------------------------------------------------------
(* completeRunManifestWithEventSequence, without the lock *)

\* All ids of a call are recorded: the client goes on, unless it was refused.
CallRecorded(c) ==
    /\ pc[c] = "record"
    /\ pending[c] = <<>>
    /\ step' = [step EXCEPT ![c] = @ + 1]
    /\ GotoIf(c, call[c].accepted, "ready")
    /\ UNCHANGED <<command, log, file, lock, call, pending, observed, copy, loaded, next>>

LoadForCheck(c) ==
    /\ pc[c] = "ready"
    /\ Completing(c)
    /\ loaded' = [loaded EXCEPT ![c] = file]
    /\ GotoIf(c, SameGeneration(copy[c]), "check")
    /\ UNCHANGED <<command, log, file, lock, step, call, pending, observed, copy, next>>

Types(s) == [i \in DOMAIN s |-> s[i].type]

Expected(c) ==
    LET accepted(i) == (CHOOSE o \in Calls(c)[i].outcomes : o.accepted).events
        upTo[i \in 0..Len(Calls(c))] ==
            IF i = 0 THEN <<>>
            ELSE upTo[i - 1] \o (IF Calls(c)[i].mode = "child" THEN observed[c] ELSE accepted(i))
    IN  upTo[Len(Calls(c))]

\* The recorded events are the whole ledger and the lifecycle of the run.
CheckSequence(c) ==
    /\ pc[c] = "check"
    /\ copy' = [copy EXCEPT ![c] = loaded[c]]
    /\ GotoIf(c, AllOfLog(loaded[c]) /\ Types(log) = Expected(c), "complete")
    /\ UNCHANGED <<command, log, file, lock, step, call, pending, observed, loaded, next>>

-----------------------------------------------------------------------------
\* The client is killed: its lock directory stays, and so does a torn file.
Crash(c) ==
    /\ pc[c] \in CrashAt
    /\ Goto(c, "dead")
    /\ UNCHANGED <<command, log, file, lock, step, call, pending, observed, copy, loaded, next>>

ClientStep(c) ==
    \/ CheckMissing(c) \/ Open(c) \/ Truncate(c) \/ Write(c)
    \/ CallLocked(c) \/ Call(c) \/ Reply(c) \/ ChildReply(c)
    \/ Lock(c) \/ LockBusy(c) \/ Unlock(c)
    \/ Load(c) \/ VerifyNext(c) \/ VerifyAll(c) \/ Recheck(c)
    \/ CallRecorded(c) \/ LoadForCheck(c) \/ CheckSequence(c)

Next == \E c \in Clients :
    ClientStep(c) \/ Serve(c) \/ ServeFails(c) \/ TimeOut(c) \/ ChildTimeOut(c) \/ Crash(c)

Spec == Init /\ [][Next]_vars

\* Clients and supervisors keep running.
FairSpec == Spec /\ \A c \in Clients : WF_vars(ClientStep(c)) /\ WF_vars(Serve(c))

-----------------------------------------------------------------------------
(* Properties *)

ManifestFiles ==
    [generation : Nat, ids : Seq(Nat),
     status : {"torn", "missing", "running", "completed", "blocked"}]

\* Every variable holds values of its type.
TypeOK ==
    /\ log \in Seq([id : Nat, type : EventTypes])
    /\ file \in ManifestFiles
    /\ lock \in Clients \cup {"none"}
    /\ pc \in [Clients -> Points]
    /\ command \in [Clients -> Commands]
    /\ step \in [Clients -> Nat \ {0}]
    /\ call \in [Clients -> [todo : Seq(EventTypes), late : Seq(EventTypes), done : Seq(Nat),
                             served : BOOLEAN, accepted : BOOLEAN]]
    /\ pending \in [Clients -> Seq(Nat)]
    /\ observed \in [Clients -> Seq(EventTypes)]
    /\ copy \in [Clients -> ManifestFiles]
    /\ loaded \in [Clients -> ManifestFiles]
    /\ next \in [Clients -> ManifestFiles]
    /\ erred \in [Clients -> BOOLEAN]

\* Whoever races or dies, a manifest that can be read is a projection of the
\* ledger: it lists the run's first events, in ledger order, without a gap.
ProjectionIsPrefix == Readable(file) => PrefixOfLog(file.ids)

Terminal(m) == m.status \in {"completed", "blocked"}

\* The clients that have created or loaded the manifest.
Holders == {c \in Clients : Readable(copy[c])}
CreatedBy == {c \in Holders : command[c].creates}
AtMostOne(S) == \A c, d \in S : c = d

\* A terminal manifest of a run with one client hides no ledger event of the run,
\* not even one that a supervisor appended after the client gave up on it.
TerminalHidesNothing ==
    AtMostOne(Holders) /\ Terminal(file) => Len(file.ids) = Len(log)

\* What a client has recorded stays recorded: once the manifest is created, no
\* other client's write goes back behind it.
RecordedStays ==
    AtMostOne(CreatedBy) /\ Readable(file) =>
        \A c \in Holders :
            /\ Len(copy[c].ids) <= Len(file.ids)
            /\ \A i \in 1..Len(copy[c].ids) : file.ids[i] = copy[c].ids[i]

\* A client always ends, whatever the others hold or leave behind.
ClientsEnd == \A c \in Clients : <>(pc[c] \in Ended)
=============================================================================
