--------------------------- MODULE SupervisedRun ---------------------------
(***************************************************************************)
(* A kernel file run (packages/harness-core/src/run-supervisor.ts): the    *)
(* client drives the traced read, the write proposal and the approved      *)
(* write of crates/supervisor/src/main.rs, and projects every event into   *)
(* the run manifest.  The write of the workspace file is the side effect   *)
(* that the events account for.                                            *)
(***************************************************************************)
EXTENDS RunManifest

VARIABLE effect  \* effect[c]: the call of c has written the workspace file

runVars == <<vars, effect>>

Accept(events) == [events |-> events, accepted |-> TRUE]
Refuse(events) == [events |-> events, accepted |-> FALSE]

Requested == <<"tool.requested", "risk.composed", "policy.decided">>

\* A read inside the workspace is leased, and may still fail, one outside is denied.
ReadOutcomes ==
    {Accept(Requested \o <<"lease.issued", "tool.result">>),
     Refuse(Requested \o <<"lease.issued", "tool.result">>),
     Refuse(Requested \o <<"tool.result">>)}

\* A write asks for consent and is only proposed.
PrepareOutcomes == {Accept(Requested)}

WriteEvidence == <<"consent.recorded", "policy.decided", "lease.issued">>
WriteRecord == <<"action.recorded", "observation.recorded", "verification.recorded">>

\* An approved write is leased and done, fails, or is denied.
CommitOutcomes ==
    {Accept(WriteEvidence \o WriteRecord),
     Refuse(WriteEvidence),
     Refuse(<<"policy.decided">>)}

Locked(type) == [mode |-> "locked", outcomes |-> {Accept(<<type>>)}]

\* runSupervisorKernelLoop: the write is committed only if it was approved.
KernelCalls(approved) ==
    <<Locked("run.started"), Locked("user.message"),
      [mode |-> "traced", outcomes |-> ReadOutcomes],
      [mode |-> "traced", outcomes |-> PrepareOutcomes]>>
    \o (IF approved THEN <<[mode |-> "guarded", outcomes |-> CommitOutcomes]>> ELSE <<>>)
    \o <<Locked("run.completed")>>

KernelRun(approved) ==
    [creates |-> TRUE, calls |-> KernelCalls(approved),
     final |-> IF approved THEN "completed" ELSE "blocked"]

ASSUME SupervisedRunAssumption == Commands = {KernelRun(TRUE), KernelRun(FALSE)}

RunInit == Init /\ effect = [c \in Clients |-> FALSE]

NextEvents(c) ==
    {Head(call[c][part]) : part \in {p \in {"todo", "late"} : call[c][p] # <<>>}}
ActionIsNext(c) == "action.recorded" \in NextEvents(c)

\* Variant of WriteTarget: the file is written as soon as the commit is received.
WriteTargetEagerly(c) ==
    /\ "consent.recorded" \in NextEvents(c)
    /\ ~effect[c]
    /\ effect' = [effect EXCEPT ![c] = TRUE]
    /\ UNCHANGED vars

\* write_with_lease: the file is written after the lease event and before the
\* action event.
WriteTarget(c) ==
    /\ ActionIsNext(c)
    /\ ~effect[c]
    /\ effect' = [effect EXCEPT ![c] = TRUE]
    /\ UNCHANGED vars

\* Variant of ServeRun: the action is recorded whether or not it was done.
ServeRunUnwritten(c) == Serve(c) /\ UNCHANGED effect

ServeRun(c) ==
    /\ ActionIsNext(c) => effect[c]
    /\ Serve(c)
    /\ UNCHANGED effect

RunNext == \E c \in Clients :
    \/ WriteTarget(c) \/ ServeRun(c)
    \/ /\ ClientStep(c) \/ ServeFails(c) \/ TimeOut(c) \/ Crash(c)
       /\ UNCHANGED effect

RunSpec == RunInit /\ [][RunNext]_runVars

-----------------------------------------------------------------------------
(* Properties *)

\* Events of the given types occur in the log in that order.
Occur(types) ==
    \E f \in [1..Len(types) -> DOMAIN log] :
        \A i \in 1..Len(types) :
            /\ log[f[i]].type = types[i]
            /\ i > 1 => f[i - 1] < f[i]

\* The workspace file is never written before consent, policy decision and
\* lease are in the ledger, in that order, whatever fails afterwards.
WriteIsEvidenced == (\E c \in Clients : effect[c]) => Occur(WriteEvidence)

\* A manifest says "completed" only for a run that wrote its file and has the
\* whole record of it, and "blocked" only for a run that touched nothing.
StatusMatchesEffect ==
    /\ file.status = "completed" => (\E c \in Clients : effect[c]) /\ Occur(WriteRecord)
    /\ file.status = "blocked" => ~\E c \in Clients : effect[c]

\* What a run did to the workspace, what the ledger tells of it and what its
\* manifest says agree, whatever fails on either side (writeSupervisedFile,
\* serve_write_commit).
RunTellsTheTruth == WriteIsEvidenced /\ StatusMatchesEffect

\* However a run id is used twice, at once or after a failure, at most one
\* attempt gets beyond its first event, so that at most one writes the file.
OneAttemptProceeds ==
    \A c, d \in Clients : copy[c].ids # <<>> /\ copy[d].ids # <<>> => c = d
=============================================================================
