----------------------------- MODULE Rehearsals -----------------------------
(* Checkpoints, branches and rehearsals of one workspace file: a rehearsal   *)
(* writes the proposed content into the sandbox of its branch, the approval  *)
(* checks both contents against the hashes the rehearsal kept and commits.   *)
EXTENDS Registries

CONSTANTS
    Checkpoints,    \* the runs that may be checkpointed
    Contents        \* contents of the file, of proposals and of outside edits

SandboxRegistries == {"checkpoints", "branches", "rehearsals", "sandbox-approvals"}

\* runCheckpoint: the head event of the run, with its hash.
TakeCheckpoint(p, id) ==
    Begin(p, PrintJson(<<"checkpoint", id, id>>, "checkpoints", id, [run |-> id]))

\* createBranch and runBranch: the row is replaced by a fresh one.
FreshBranch(id) == [checkpoint |-> id, status |-> "sandbox"]

OpenBranch(p, id) ==
    /\ id \in DOMAIN rows["checkpoints"]
    /\ Begin(p, PrintJson(<<"branch", id, id>>, "branches", id, FreshBranch(id)))

-----------------------------------------------------------------------------
(* rehearse: one rehearsal for each branch, the last one counts.            *)

\* rehearseFileWrite
Rehearsal(id, original, proposed) == [branch |-> id, original |-> original, proposed |-> proposed]

Rehearse(p, id, proposed) ==
    /\ id \in DOMAIN rows["branches"]
    /\ Begin(p, <<[do |-> "copy", branch |-> id, content |-> proposed]>>
                \o PrintJson(<<"rehearse", id, id>>, "rehearsals", id,
                             Rehearsal(id, world.target, proposed)))

CopyToSandbox(p) ==
    /\ AtStep(p, "copy")
    /\ LET s == Head(proc[p].plan)
       IN world' = [world EXCEPT !.sandbox = Over(Single(s.branch, s.content), @)]
    /\ Advance(p)
    /\ UNCHANGED <<family, rows, artifacts, log, begun, reports, kills, cut>>

-----------------------------------------------------------------------------
(* approve-rehearsal                                                        *)

\* Variant of MayPromote: the target is not compared with the rehearsal.
MayPromoteAnyTarget(id) ==
    /\ id \in DOMAIN rows["rehearsals"] \cap DOMAIN rows["branches"]
    /\ rows["branches"][id].checkpoint \in DOMAIN rows["checkpoints"]
    /\ rows["branches"][id].status = "sandbox"
    /\ world.sandbox[id] = rows["rehearsals"][id].proposed

\* runApproveRehearsal and assertSandboxPromotionEvidence
MayPromote(id) ==
    /\ id \in DOMAIN rows["rehearsals"] \cap DOMAIN rows["branches"]
    /\ rows["branches"][id].checkpoint \in DOMAIN rows["checkpoints"]
    /\ rows["branches"][id].status = "sandbox"
    /\ world.target = rows["rehearsals"][id].original
    /\ world.sandbox[id] = rows["rehearsals"][id].proposed

\* The events the supervisor writes for the request and for the commit.
PrepareEvents == <<"run.started", "policy.decided">>
PromotionEvents == PrepareEvents \o <<"action.recorded">>

\* The branch and the approval are written after the run has completed.
Promote(p, id) ==
    /\ MayPromote(id)
    /\ LET run == NewRun
           approval == [branch |-> id, run |-> run]
           approved == [rows["branches"][id] EXCEPT !.status = "approved"]
       IN BeginWith(p,
            <<Manifest(run, "running", <<>>)>>
            \o Managed(run, "run.started", <<>>, <<>>)
            \o <<[do |-> "reread", branch |-> id]>>
            \o Managed(run, "policy.decided", <<>>, <<"run.started">>)
            \o <<[do |-> "commit"]>>
            \o Managed(run, "action.recorded", <<>>, PrepareEvents)
            \o <<[do |-> "verify"]>>
            \o Managed(run, "run.completed", <<>>, PromotionEvents)
            \o <<Manifest(run, "completed", Append(PromotionEvents, "run.completed")),
                 Upsert("branches", id, approved)>>
            \o PrintJson(<<"approve-rehearsal", id, id>>, "sandbox-approvals", id, approval),
            [promoting |-> id, contents |-> <<>>, edited |-> FALSE])

\* The sandbox file is read again, after its hash has been checked.
RereadSandbox(p) ==
    /\ AtStep(p, "reread")
    /\ proc' = [proc EXCEPT ![p].plan = Tail(@),
                            ![p].view.contents = <<world.sandbox[Head(proc[p].plan).branch]>>]
    /\ UNCHANGED <<family, files, begun, reports, kills, cut>>

\* file.write.commit of the supervisor.
CommitPromotion(p) ==
    /\ AtStep(p, "commit")
    /\ world' = [world EXCEPT !.target = proc[p].view.contents[1]]
    /\ Advance(p)
    /\ UNCHANGED <<family, rows, artifacts, log, begun, reports, kills, cut>>

\* The file is read back: another content fails the command where it is.
VerifyPromotion(p) ==
    /\ AtStep(p, "verify")
    /\ IF world.target = proc[p].view.contents[1]
       THEN Advance(p) /\ UNCHANGED cut
       ELSE CutShort(p)
    /\ UNCHANGED <<family, files, begun, reports, kills>>

\* Somebody edits the workspace file.  Promotions under way are marked.
EditTarget(p, content) ==
    /\ Outside(p, [world EXCEPT !.target = content])
    /\ proc' = [q \in Procs |->
                  IF "promoting" \in DOMAIN proc[q].view
                  THEN [proc[q] EXCEPT !.view.edited = TRUE] ELSE proc[q]]

-----------------------------------------------------------------------------
(* auditSandboxRegistryRebuild: from the artifacts, with no event.          *)

ExpectedBranches ==
    [id \in DOMAIN Records("branch") |->
       IF id \in DOMAIN Records("approve-rehearsal")
       THEN [Records("branch")[id] EXCEPT !.status = "approved"]
       ELSE Records("branch")[id]]

SandboxFindings ==
    Findings("checkpoints", Records("checkpoint"))
    \cup Findings("branches", ExpectedBranches)
    \cup Findings("rehearsals", Records("rehearse"))
    \cup Findings("sandbox-approvals", Records("approve-rehearsal"))

\* A branch that was opened again after its approval.
SandboxAuditMisses(finding) ==
    /\ finding.in = "branches"
    /\ rows["branches"][finding.id] = FreshBranch(finding.id)
    /\ finding.id \in DOMAIN Records("approve-rehearsal")

-----------------------------------------------------------------------------

EmptySandbox ==
    [rows |-> [name \in SandboxRegistries |-> Nothing], artifacts |-> Nothing, log |-> <<>>,
     world |-> [target |-> "original", sandbox |-> Nothing]]

\* Each run checkpointed, and a branch opened for it.
OpenedSandbox ==
    LET filed(command) == {<<command, id, id>> : id \in Checkpoints}
    IN [EmptySandbox EXCEPT
          !.rows["checkpoints"] = [id \in Checkpoints |-> [run |-> id]],
          !.rows["branches"] = [id \in Checkpoints |-> FreshBranch(id)],
          !.artifacts = [path \in filed("checkpoint") \cup filed("branch") |->
                           IF path[1] = "checkpoint" THEN [run |-> path[2]] ELSE FreshBranch(path[2])]]

RehearsedPlan(id, content) ==
    PrintJson(<<"rehearse", id, id>>, "rehearsals", id, Rehearsal(id, "original", content))

\* Nothing yet, or a branch opened for each run and one rehearsed already.
SandboxStarts ==
    {EmptySandbox} \cup
    {CarriedOut([OpenedSandbox EXCEPT !.world.sandbox = Single(id, "new")],
                RehearsedPlan(id, "new")) : id \in Checkpoints}

SandboxStep(p) ==
    \/ \E id \in Checkpoints : TakeCheckpoint(p, id) \/ OpenBranch(p, id) \/ Promote(p, id)
    \/ \E id \in Checkpoints, content \in Contents : Rehearse(p, id, content)
    \/ CopyToSandbox(p) \/ RereadSandbox(p) \/ CommitPromotion(p) \/ VerifyPromotion(p)
    \/ \E content \in Contents \cup {"original"} : EditTarget(p, content)
=============================================================================
