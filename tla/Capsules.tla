------------------------------ MODULE Capsules ------------------------------
(* The life of a capsule: draft, test, publish, rollback, the package store, *)
(* replay evidence, and the containment trial that quarantines it.  Capsule  *)
(* commands write their rows first, then the artifact and its event.         *)
EXTENDS ContentSecurity

CONSTANTS
    Versions,       \* versions of the capsule
    ToolSets,       \* sets of tools a manifest may require
    Packages        \* signed packages an operator may install

CapsuleRegistries ==
    {"capsules", "capsule-drafts", "capsule-versions", "capsule-installs", "approval-cards",
     "store-publishers", "replay-records", "poisoning-signals", "honeypot-trials"}

\* One capsule: its manifests, versions and packages all have its id.
Cap == "cap"
Active == rows["capsules"]
Drafts == rows["capsule-drafts"]
ArchiveOf(version) == rows["capsule-versions"][version]

ToolsOf(table) == IF Cap \in DOMAIN table THEN table[Cap].tools ELSE {}

\* permissionDiff: more tools than the published capsule needs an approval.
PermissionDiff(tools, previous) == tools \ ToolsOf(previous) # {}

\* createDraftCapsule: a capsule of code is quarantined from the start.
CreateDraft(version, tools, mode, previous) ==
    [version |-> version, tools |-> tools, mode |-> mode,
     lifecycle |-> IF mode = "document_only" THEN "draft" ELSE "quarantined",
     asks |-> PermissionDiff(tools, previous), tests |-> "none", trial |-> "none",
     approval |-> "not_required"]

\* recordCapsuleLifecycleEvent: artifact and event of the capsule as written.
LifecyclePath(lifecycle, id) == <<"capsule", lifecycle, id>>
LifecycleEvent ==
    [draft |-> "capsule.draft.recorded", test |-> "capsule.test.recorded",
     publish |-> "capsule.publish.recorded", rollback |-> "capsule.rollback.recorded"]
Lifecycle(lifecycle, id, value) ==
    Recorded(LifecycleEvent[lifecycle], LifecyclePath(lifecycle, id), value)

\* archiveCapsuleVersion: what was archived under the version is replaced.
Archive(capsule) == Upsert("capsule-versions", capsule.version, capsule)

\* capsule draft: the permission diff is against the capsule published now.
DraftCapsule(p, version, tools, mode) ==
    LET draft == CreateDraft(version, tools, mode, Active)
    IN Begin(p, <<Archive(draft), Upsert("capsule-drafts", Cap, draft)>>
                \o Lifecycle("draft", version, draft))

-----------------------------------------------------------------------------
(* capsule test: replays of the cited runs, a trial of the playbook.        *)

ReplayRuns == <<"first", "second">>

ReplayPath(run) == <<"replay", run, "trace">>

\* writeReplayArtifact and the row of the record, for each run.
ReplayOf(run, result) ==
    <<Artifact(ReplayPath(run), result), Upsert("replay-records", run, result)>>
ReplayPlan(result) == ReplayOf(ReplayRuns[1], result) \o ReplayOf(ReplayRuns[2], result)

\* runDocumentSandboxTrial: the playbook is copied, then judged.
TrialPath(version) == <<"trials", version>>
TrialPasses(playbook) == playbook # "forbidden"

\* attachCapsuleTestEvidence
AttachEvidence(capsule, result, playbook) ==
    LET passed == result = "passed" /\ TrialPasses(playbook)
    IN [capsule EXCEPT !.lifecycle = IF passed THEN "tested" ELSE "draft",
                       !.tests = result,
                       !.trial = IF passed THEN playbook ELSE "failed",
                       !.approval = IF capsule.asks THEN "pending" ELSE "not_required"]

\* A quarantined capsule is refused after its replays have been written,
\* and, when it is a document, after its trial has been copied.
TestCapsule(p, result, playbook) ==
    /\ Cap \in DOMAIN Drafts
    /\ LET capsule == Drafts[Cap]
           tested == AttachEvidence(capsule, result, playbook)
           copied == <<Artifact(TrialPath(capsule.version), playbook)>>
       IN Begin(p, ReplayPlan(result)
                   \o IF capsule.mode # "document_only" THEN <<>>
                      ELSE IF capsule.lifecycle \notin {"draft", "tested"} THEN copied
                      ELSE copied
                           \o <<Archive(tested), Upsert("capsule-drafts", Cap, tested)>>
                           \o Lifecycle("test", capsule.version, tested))

-----------------------------------------------------------------------------
(* capsule publish and capsule rollback                                     *)

\* publishCapsule
MayPublish(capsule) ==
    capsule.lifecycle = "tested" /\ capsule.tests = "passed" /\ capsule.trial # "failed"

Published(capsule) ==
    [capsule EXCEPT !.lifecycle = "published",
                    !.approval = IF capsule.asks THEN "approved" ELSE "not_required"]

\* What is signed as published is what publishCapsule returned to the publisher:
\* publishing it once more would change nothing.
ASSUME PackagesAssumption ==
    \A package \in Packages :
      LET capsule == package.capsule
      IN /\ DOMAIN capsule = DOMAIN CreateDraft("", {}, "document_only", Nothing)
         /\ capsule.asks \in BOOLEAN
         /\ capsule.lifecycle = "published" => capsule = Published(capsule)

ApprovalCard(capsule) ==
    IF capsule.asks THEN <<Upsert("approval-cards", capsule.version, [tools |-> capsule.tools])>>
    ELSE <<>>

\* The approval card is written before the checks of publishCapsule.
PublishCapsule(p) ==
    /\ Cap \in DOMAIN Drafts
    /\ LET capsule == Drafts[Cap]
           published == Published(capsule)
           rest == IF MayPublish(capsule)
                   THEN <<Archive(published), Upsert("capsules", Cap, published),
                          DropRow("capsule-drafts", Cap)>>
                        \o Lifecycle("publish", capsule.version, published)
                   ELSE <<>>
       IN Begin(p, ApprovalCard(capsule) \o rest)

\* Variant of MayRollBack: any archived version will do.
MayRollBackToAny(version) ==
    /\ Cap \in DOMAIN Active
    /\ Active[Cap].lifecycle = "published"
    /\ version \in DOMAIN rows["capsule-versions"]

\* readCapsuleVersion and rollbackCapsule
MayRollBack(version) ==
    /\ Cap \in DOMAIN Active
    /\ Active[Cap].lifecycle = "published"
    /\ version \in DOMAIN rows["capsule-versions"]
    /\ ArchiveOf(version).lifecycle = "published"

\* Nobody is asked, whatever tools the older version needs.
RollBackCapsule(p, version) ==
    /\ MayRollBack(version)
    /\ LET active == [ArchiveOf(version) EXCEPT !.lifecycle = "published"]
           deprecated == [Active[Cap] EXCEPT !.lifecycle = "deprecated"]
       IN Begin(p, <<Archive(deprecated), Archive(active), Upsert("capsules", Cap, active)>>
                   \o Lifecycle("rollback", deprecated.version \o "_to_" \o version,
                                [active |-> active, deprecated |-> deprecated]))

\* security trial --capsule: the published capsule, or else the draft.
QuarantineCapsule(p, id) ==
    /\ id \in DOMAIN rows["poisoning-signals"]
    /\ Cap \in DOMAIN Active \cup DOMAIN Drafts
    /\ LET name == IF Cap \in DOMAIN Active THEN "capsules" ELSE "capsule-drafts"
       IN Begin(p, <<Upsert(name, Cap, [rows[name][Cap] EXCEPT !.lifecycle = "quarantined"])>>
                   \o TrialPlan(id, Cap))

-----------------------------------------------------------------------------
(* replay, store trust-publisher and store install                          *)

\* recordReplayEvidence: artifact, event, then the row.
RecordReplay(p, run, result) ==
    Begin(p, Recorded("replay.recorded", ReplayPath(run), result)
             \o <<Upsert("replay-records", run, result)>>)

\* A publisher has one key: the last one enrolled.  What the command prints
\* goes into the registry of every store command, capsule-installs.
TrustPublisher(p, key) ==
    Begin(p, <<Artifact(<<"store", "publisher", "pub">>, [key |-> key]),
               Upsert("store-publishers", "pub", [key |-> key]),
               Event("store.publisher.trusted", <<"store", "publisher", "pub">>)>>
             \o PrintJson(<<"store", "trust-publisher", "pub">>, "capsule-installs", "pub",
                          [key |-> key]))

\* readLedgerBackedStoreReplayEvidence: the replay events and what they point to.
ReplayEvidence == {log[i].ref : i \in {j \in DOMAIN log : log[j].type = "replay.recorded"}}

\* requireReplayEvidence, requireSandboxEvidence: what the package claims of
\* its tests is what this workspace has recorded and tried.
EvidenceIsLocal(capsule) ==
    /\ \A i \in DOMAIN ReplayRuns :
         /\ ReplayPath(ReplayRuns[i]) \in ReplayEvidence
         /\ artifacts[ReplayPath(ReplayRuns[i])] = "passed"
    /\ TrialPath(capsule.version) \in DOMAIN artifacts
    /\ artifacts[TrialPath(capsule.version)] = capsule.trial

\* requireTrustedPublisher and verifyStorePackageSignature
SignedByTrusted(package) ==
    /\ "pub" \in DOMAIN rows["store-publishers"]
    /\ rows["store-publishers"]["pub"].key = package.key

\* createCapsuleInstallRecord
Installable(package) ==
    /\ SignedByTrusted(package)
    /\ package.capsule.lifecycle = "published"
    /\ package.capsule.tests = "passed"
    /\ package.capsule.trial # "failed"
    /\ EvidenceIsLocal(package.capsule)

\* store install: the permission diff is the one the package came with.
InstallPackage(p, package) ==
    /\ Installable(package)
    /\ LET capsule == package.capsule
           install == [version |-> capsule.version, key |-> package.key]
       IN Begin(p, <<Artifact(<<"store", "install", capsule.version>>, install)>>
                   \o ApprovalCard(capsule)
                   \o <<Upsert("capsules", Cap, capsule),
                        Upsert("capsule-installs", capsule.version, install),
                        Archive(capsule),
                        Event("capsule.store.installed", <<"store", "install", capsule.version>>)>>
                   \o PrintJson(<<"store", "install", capsule.version>>, "capsule-installs",
                                capsule.version, install))

-----------------------------------------------------------------------------
(* auditCapsuleRegistryRebuild                                              *)

CapsuleEvents == {LifecycleEvent[lifecycle] : lifecycle \in DOMAIN LifecycleEvent}

ApplyCapsuleEvent(expected, event) ==
    LET value == PayloadOf(event)
    IN CASE event.type \in {"capsule.draft.recorded", "capsule.test.recorded"} ->
              [expected EXCEPT !.drafts = Cap :> value, !.versions = (value.version :> value) @@ @]
         [] event.type = "capsule.publish.recorded" ->
              [capsules |-> Cap :> value, drafts |-> Nothing,
               versions |-> (value.version :> value) @@ expected.versions]
         [] event.type = "capsule.rollback.recorded" ->
              [capsules |-> Cap :> value.active, drafts |-> Nothing,
               versions |-> (value.deprecated.version :> value.deprecated)
                            @@ (value.active.version :> value.active) @@ expected.versions]

CapsuleFindings ==
    LET expected == Rebuilt(CapsuleEvents, ApplyCapsuleEvent,
                            [capsules |-> Nothing, drafts |-> Nothing, versions |-> Nothing])
    IN Findings("capsules", expected.capsules) \cup Findings("capsule-drafts", expected.drafts)
       \cup Findings("capsule-versions", expected.versions)

\* auditStoreRegistryRebuild
ApplyStoreEvent(expected, event) ==
    IF event.type = "store.publisher.trusted"
    THEN [expected EXCEPT !.publishers = "pub" :> PayloadOf(event)]
    ELSE [expected EXCEPT !.installs = (event.ref[3] :> PayloadOf(event)) @@ @]

StoreFindings ==
    LET expected == Rebuilt({"store.publisher.trusted", "capsule.store.installed"},
                            ApplyStoreEvent, [publishers |-> Nothing, installs |-> Nothing])
    IN Findings("store-publishers", expected.publishers)
       \cup Findings("capsule-installs", expected.installs)

\* The row a trusted publisher has among the installs.
StoreAuditMisses(finding) == finding.in = "capsule-installs" /\ finding.id = "pub"

\* auditReplayRecordRegistryRebuild: from the artifacts, with no event.
ReplayFindings ==
    LET written == {path \in DOMAIN artifacts : path[1] = "replay"}
    IN Findings("replay-records", [run \in {path[2] : path \in written} |-> artifacts[ReplayPath(run)]])

Happened(type) == \E i \in DOMAIN log : log[i].type = type

\* What the capsule audit does not follow: a quarantine, an install, the
\* draft a rollback leaves, and a rollback to the version that is active.
CapsuleAuditMisses(finding) ==
    \/ finding.in = "capsules" /\ Active[Cap].lifecycle = "quarantined"
    \/ finding.in \in {"capsules", "capsule-versions"} /\ Happened("capsule.store.installed")
    \/ /\ finding.in = "capsule-drafts"
       /\ \/ finding.status = "mismatched" /\ Drafts[Cap].lifecycle = "quarantined"
          \/ finding.status = "stale_registry" /\ Happened("capsule.rollback.recorded")
    \/ /\ finding.in = "capsule-versions"
       /\ LifecyclePath("rollback", finding.id \o "_to_" \o finding.id) \in DOMAIN artifacts

-----------------------------------------------------------------------------

PassedDraft(version, tools, previous) ==
    AttachEvidence(CreateDraft(version, tools, "document_only", previous), "passed", "clean")

\* A version drafted, tested and published, as the ledger has it.
PublicationPlan(version, tools, previous) ==
    LET tested == PassedDraft(version, tools, previous)
        published == Published(tested)
    IN ReplayPlan("passed") \o <<Artifact(TrialPath(version), "clean")>>
       \o Lifecycle("test", version, tested)
       \o ApprovalCard(tested)
       \o <<Archive(published), Upsert("capsules", Cap, published), DropRow("capsule-drafts", Cap)>>
       \o Lifecycle("publish", version, published)

EmptyCapsules ==
    [rows |-> [[name \in CapsuleRegistries |-> Nothing] EXCEPT !["poisoning-signals"] =
                 "signal0" :> [assessment |-> "assessment0", content |-> "injected",
                               status |-> "detected", fixture |-> FALSE]],
     artifacts |-> Nothing, log |-> <<>>, world |-> Nothing]

\* Nothing yet, or two published versions, the second with fewer tools, and
\* the runs replayed as evidence.
CapsuleStarts ==
    LET tools == [capsule \in {Cap} |-> [tools |-> {"write"}]]
    IN {EmptyCapsules,
        CarriedOut(EmptyCapsules,
                   PublicationPlan("1", {"write"}, Nothing) \o PublicationPlan("2", {}, tools)
                   \o Recorded("replay.recorded", ReplayPath("first"), "passed")
                   \o Recorded("replay.recorded", ReplayPath("second"), "passed"))}

CapsuleStep(p) ==
    \/ \E v \in Versions, t \in ToolSets, m \in {"document_only", "external_sandbox"} :
         DraftCapsule(p, v, t, m)
    \/ \E r \in {"passed", "partial"}, b \in {"clean", "forbidden"} : TestCapsule(p, r, b)
    \/ PublishCapsule(p)
    \/ \E v \in Versions : RollBackCapsule(p, v)
    \/ \E id \in DOMAIN rows["poisoning-signals"] : QuarantineCapsule(p, id)
    \/ \E run \in {"first", "second"}, r \in {"passed", "partial"} : RecordReplay(p, run, r)
    \/ \E key \in {package.key : package \in Packages} : TrustPublisher(p, key)
    \/ \E package \in Packages : InstallPackage(p, package)
=============================================================================
