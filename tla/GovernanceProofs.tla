-------------------------- MODULE GovernanceProofs --------------------------
(***************************************************************************)
(* Theorems about Governance: what the commands of a family do to the      *)
(* registries, for every number of operators, readers, commands and kills. *)
(***************************************************************************)
EXTENDS Governance, SequenceTheorems, FiniteSetTheorems, TLAPS

-----------------------------------------------------------------------------
(* Plans *)

\* A plan is a sequence of steps; Range(plan) is the set of its steps.
IsPlan(plan) == plan \in Seq(Range(plan))

LEMMA None == IsPlan(<<>>) /\ Range(<<>>) = {}
BY EmptySeq DEF IsPlan, Range

LEMMA One ==
  ASSUME NEW a
  PROVE  IsPlan(<<a>>) /\ Range(<<a>>) = {a}
BY DEF IsPlan, Range

LEMMA Two ==
  ASSUME NEW a, NEW b
  PROVE  IsPlan(<<a, b>>) /\ Range(<<a, b>>) = {a, b}
BY DEF IsPlan, Range

LEMMA Three ==
  ASSUME NEW a, NEW b, NEW c
  PROVE  IsPlan(<<a, b, c>>) /\ Range(<<a, b, c>>) = {a, b, c}
BY DEF IsPlan, Range

LEMMA Joined ==
  ASSUME NEW s, NEW t, IsPlan(s), IsPlan(t)
  PROVE  IsPlan(s \o t) /\ Range(s \o t) = Range(s) \cup Range(t)
<1> DEFINE S == Range(s) \cup Range(t)
<1>1. s \in Seq(S) /\ t \in Seq(S)
  BY DEF IsPlan
<1>2. s \o t \in Seq(S)
  BY <1>1, ConcatProperties
<1>3. Range(s \o t) = S
  BY <1>1, RangeConcatenation
<1>4. QED BY <1>2, <1>3 DEF IsPlan

LEMMA Left ==
  ASSUME NEW s, IsPlan(s), s # <<>>
  PROVE  /\ Head(s) \in Range(s)
         /\ IsPlan(Tail(s))
         /\ Range(Tail(s)) \subseteq Range(s)
BY HeadTailProperties, RangeOfSeq, SeqOfRange DEF IsPlan

-----------------------------------------------------------------------------
(* The processes *)

ProcFields == {"plan", "held", "view", "ids"}

\* What an operator keeps of a tool he asks for.
ToolViews == {"proposes", "executes"}
PromptFamilies == {"prompts", "chat"}

\* Packs of memories are assembled by the readers of the memory family, and
\* tools are asked for in the families of the prompts.
Shaped ==
    /\ DOMAIN proc = Procs
    /\ \A p \in Procs : DOMAIN proc[p] = ProcFields
    /\ family # "memory" => \A p \in Readers : "pack" \notin DOMAIN proc[p].view
    /\ family \notin PromptFamilies =>
         \A p \in Operators : \A field \in ToolViews : field \notin DOMAIN proc[p].view

\* A step is of the family of its history, which never changes.
Moves == family' = family /\ (Shaped => Shaped')

LEMMA ReadersReport == \A p \in Readers : p \in Procs /\ p \notin Operators
BY ProcsAssumption DEF Procs

LEMMA BeginWithMoves ==
  ASSUME NEW p, NEW plan, NEW view, BeginWith(p, plan, view),
         family \in PromptFamilies \/ \A field \in ToolViews : field \notin DOMAIN view
  PROVE  Moves
<1>1. family' = family /\ p \in Operators
  BY DEF BeginWith
<1>2. proc' = [proc EXCEPT ![p] = [plan |-> plan, held |-> <<>>, view |-> view,
                                   ids |-> Touched(plan)]]
  BY DEF BeginWith, StartPlan
<1>3. ASSUME Shaped
      PROVE  DOMAIN proc' = Procs /\ \A q \in Procs : DOMAIN proc'[q] = ProcFields
  BY <1>2, <1>3 DEF Shaped, ProcFields
<1>4. ASSUME Shaped
      PROVE  \A q \in Readers : proc'[q] = proc[q]
  BY <1>1, <1>2, <1>4, ReadersReport DEF Shaped
<1>5. ASSUME Shaped, family \notin PromptFamilies
      PROVE  \A q \in Operators : \A field \in ToolViews : field \notin DOMAIN proc'[q].view
  BY <1>1, <1>2, <1>5 DEF Shaped, Procs
<1>6. QED BY <1>1, <1>3, <1>4, <1>5 DEF Moves, Shaped

LEMMA BeginMoves ==
  ASSUME NEW p, NEW plan, Begin(p, plan)
  PROVE  Moves
BY BeginWithMoves DEF Begin, Nothing

\* A report leaves its process as it is.
LEMMA ReportMoves ==
  ASSUME NEW p, NEW path, NEW name, NEW id, NEW value, Report(p, path, name, id, value)
  PROVE  Moves
BY DEF Report, Moves, Shaped

LEMMA OutsideMoves ==
  ASSUME NEW p, NEW change, Outside(p, change), UNCHANGED proc
  PROVE  Moves
BY DEF Outside, Moves, Shaped

\* A process changes, and its view has the fields it had.
Alone(p) ==
    /\ DOMAIN proc' = Procs
    /\ \A q \in Procs : q # p => proc'[q] = proc[q]
    /\ DOMAIN proc'[p] = ProcFields
    /\ DOMAIN proc'[p].view = DOMAIN proc[p].view

LEMMA AloneMoves ==
  ASSUME NEW p \in Procs, UNCHANGED family, Shaped => Alone(p)
  PROVE  Moves
BY DEF Alone, Shaped, Moves, Procs

\* A reader that keeps something else, in the family of the memories.
LEMMA ReaderMoves ==
  ASSUME NEW p \in Readers, UNCHANGED family, family = "memory",
         NEW r, Shaped => proc' = [proc EXCEPT ![p] = r] /\ DOMAIN r = ProcFields
  PROVE  Moves
BY ReadersReport DEF Shaped, Procs, Moves

LEMMA AdvanceMoves ==
  ASSUME NEW p \in Procs, Advance(p), UNCHANGED family
  PROVE  Moves
<1>1. ASSUME Shaped
      PROVE  Alone(p)
  <2>1. DOMAIN proc[p] = ProcFields /\ DOMAIN proc = Procs
    BY <1>1 DEF Shaped
  <2>2. \A q \in Procs : q # p => proc'[q] = proc[q]
    BY <2>1 DEF Advance
  <2>3. DOMAIN proc' = Procs /\ DOMAIN proc'[p] = ProcFields
    BY <2>1 DEF Advance
  <2>4. proc'[p].view = proc[p].view
    BY <2>1 DEF Advance, ProcFields
  <2>5. QED BY <2>2, <2>3, <2>4 DEF Alone
<1>2. QED BY <1>1, AloneMoves

LEMMA CutMoves ==
  ASSUME NEW p \in Procs, CutShort(p), UNCHANGED family
  PROVE  Moves
BY DEF CutShort, IdleProc, Nothing, Moves, Shaped, ProcFields

LEMMA WriteMoves ==
  ASSUME NEW p \in Procs, Write(p)
  PROVE  Moves
<1>1. CASE StoreArtifact(p) \/ AppendEvent(p) \/ WriteTable(p)
  BY <1>1, AdvanceMoves DEF StoreArtifact, AppendEvent, WriteTable
<1>2. CASE ReadTable(p)
  BY <1>2 DEF ReadTable, Moves, Shaped, ProcFields
<1>3. QED BY <1>1, <1>2 DEF Write

LEMMA KillMoves ==
  ASSUME NEW p \in Procs, Kill(p)
  PROVE  Moves
BY CutMoves DEF Kill

LEMMA MemoryMoves ==
  ASSUME NEW p \in Procs, family = "memory", MemoryStep(p)
  PROVE  Moves
<1>1. CASE MemoryCommand(p)
  BY <1>1, BeginMoves
  DEF MemoryCommand, DeriveCandidates, EnsureEpisode, ProposeCandidate, AcceptMemory,
      RejectMemory, DeleteMemory, BlockMemory, DreamRun, DreamAccept, DreamReject
<1>2. CASE ExplainContext(p)
  <2> DEFINE plan == <<[do |-> "cards"], [do |-> "pack"]>>
             seen == [deleted |-> Deleted(rows["memory-tombstones"]), pack |-> <<>>]
             r == [plan |-> plan, held |-> <<>>, view |-> seen, ids |-> Touched(plan)]
  <2>1. p \in Readers /\ family' = family /\ proc' = [proc EXCEPT ![p] = r]
    BY <1>2 DEF ExplainContext, BeginReport, StartPlan
  <2>2. DOMAIN r = ProcFields
    BY DEF ProcFields
  <2> HIDE DEF r
  <2>3. QED BY <2>1, <2>2, ReaderMoves
<1>3. CASE LookAtCards(p)
  BY <1>3, AloneMoves DEF LookAtCards, Alone, Shaped, ProcFields
<1>4. CASE PackContext(p)
  BY <1>4, AloneMoves DEF PackContext, Alone, Shaped, ProcFields
<1>5. CASE UserModel(p) \/ Timeline(p)
  BY <1>5, ReportMoves DEF UserModel, Timeline
<1>6. QED BY <1>1, <1>2, <1>3, <1>4, <1>5 DEF MemoryStep

LEMMA SecurityMoves ==
  ASSUME NEW p, SecurityStep(p)
  PROVE  Moves
<1>1. ASSUME NEW content, NEW v, ScanContent(p, content, v)
      PROVE  Moves
  BY <1>1, BeginMoves DEF ScanContent
<1>2. ASSUME NEW id, Acknowledge(p, id) \/ RunTrial(p, id) \/ CreateFixture(p, id)
      PROVE  Moves
  BY <1>2, BeginMoves DEF Acknowledge, RunTrial, CreateFixture
<1>3. ASSUME NEW page, NEW v, ObserveBrowser(p, page, v) \/ QueueMessage(p, page, v)
      PROVE  Moves
  BY <1>3, BeginMoves DEF ObserveBrowser, QueueMessage
<1>4. ASSUME NEW visibility, NEW m, NEW role, ReceiveMessage(p, visibility, m, role)
      PROVE  Moves
  BY <1>4, BeginMoves DEF ReceiveMessage
<1>5. QED BY <1>1, <1>2, <1>3, <1>4 DEF SecurityStep

LEMMA CapsulesMove ==
  ASSUME NEW p, CapsuleStep(p)
  PROVE  Moves
BY BeginMoves
DEF CapsuleStep, DraftCapsule, TestCapsule, PublishCapsule, RollBackCapsule, QuarantineCapsule,
    RecordReplay, TrustPublisher, InstallPackage

LEMMA SandboxMoves ==
  ASSUME NEW p \in Procs, SandboxStep(p)
  PROVE  Moves
<1>1. ASSUME NEW id, TakeCheckpoint(p, id) \/ OpenBranch(p, id) \/ Promote(p, id)
      PROVE  Moves
  <2> DEFINE view == [promoting |-> id, contents |-> <<>>, edited |-> FALSE]
  <2>1. \A field \in ToolViews : field \notin DOMAIN view
    BY DEF ToolViews
  <2> HIDE DEF view
  <2>2. Promote(p, id) => \E plan : BeginWith(p, plan, view)
    BY DEF Promote, view
  <2>3. QED BY <1>1, <2>1, <2>2, BeginMoves, BeginWithMoves DEF TakeCheckpoint, OpenBranch
<1>2. ASSUME NEW id, NEW content, Rehearse(p, id, content)
      PROVE  Moves
  BY <1>2, BeginMoves DEF Rehearse
<1>3. CASE CopyToSandbox(p) \/ CommitPromotion(p)
  BY <1>3, AdvanceMoves DEF CopyToSandbox, CommitPromotion
<1>4. CASE RereadSandbox(p)
  <2> SUFFICES ASSUME Shaped PROVE Alone(p)
    BY <1>4, AloneMoves DEF RereadSandbox
  <2>1. DOMAIN proc[p] = ProcFields /\ DOMAIN proc = Procs
    BY DEF Shaped
  <2>2. \A q \in Procs : q # p => proc'[q] = proc[q]
    BY <1>4, <2>1 DEF RereadSandbox
  <2>3. DOMAIN proc' = Procs /\ DOMAIN proc'[p] = ProcFields
    BY <1>4, <2>1 DEF RereadSandbox
  <2>4. DOMAIN proc'[p].view = DOMAIN proc[p].view
    BY <1>4, <2>1 DEF RereadSandbox, ProcFields
  <2>5. QED BY <2>2, <2>3, <2>4 DEF Alone
<1>5. CASE VerifyPromotion(p)
  BY <1>5, AdvanceMoves, CutMoves DEF VerifyPromotion
<1>6. ASSUME NEW content, EditTarget(p, content)
      PROVE  Moves
  BY <1>6 DEF EditTarget, Outside, Shaped, ProcFields, Moves, Procs
<1>7. QED
  BY <1>1, <1>2, <1>3, <1>4, <1>5, <1>6 DEF SandboxStep

LEMMA HibernationMoves ==
  ASSUME NEW p, HibernationStep(p)
  PROVE  Moves
BY BeginMoves, OutsideMoves DEF SleepRun, Wake, WatchedFileChanges, DeadlinePasses, HibernationStep

LEMMA SoulMoves ==
  ASSUME NEW p, SoulStep(p)
  PROVE  Moves
<1>1. ASSUME NEW id, NEW s, ProposeAnchor(p, id, s) \/ AcceptAnchor(p, id, s) \/ RejectAnchor(p, id)
      PROVE  Moves
  BY <1>1, BeginMoves DEF ProposeAnchor, AcceptAnchor, RejectAnchor
<1>2. CASE ListAnchors(p)
  BY <1>2, BeginMoves DEF ListAnchors
<1>3. ASSUME NEW agent, NEW yes, ForkSoul(p, agent, yes) \/ ResetPersona(p)
      PROVE  Moves
  BY <1>3, BeginMoves DEF ResetPersona, ForkSoul
<1>4. QED BY <1>1, <1>2, <1>3 DEF SoulStep

LEMMA ToolsMove ==
  ASSUME NEW p, Tools(p), family \in PromptFamilies
  PROVE  Moves
<1>1. ASSUME NEW id, ProposeTool(p, id)
      PROVE  \E plan, view : BeginWith(p, plan, view)
  BY <1>1, Zenon DEF ProposeTool
<1>2. ASSUME NEW id, NEW decision, ExecuteTool(p, id, decision)
      PROVE  \E plan, view : BeginWith(p, plan, view)
  BY <1>2, Zenon DEF ExecuteTool
<1>3. \E plan, view : BeginWith(p, plan, view)
  BY <1>1, <1>2, Zenon DEF Tools
<1>4. QED BY <1>3, BeginWithMoves

LEMMA PromptsMove ==
  ASSUME NEW p \in Procs, PromptStep(p), family \in PromptFamilies
  PROVE  Moves
<1>1. ASSUME NEW task, BindRuntime(p, task)
      PROVE  Moves
  BY <1>1, BeginMoves DEF BindRuntime
<1>2. ASSUME NEW prompt, PrepareRequest(p, prompt)
      PROVE  Moves
  BY <1>2, BeginMoves DEF PrepareRequest
<1>3. ASSUME NEW id, NEW task, NEW answer, InvokeModel(p, id, task, answer)
      PROVE  Moves
  BY <1>3, BeginMoves DEF InvokeModel
<1>4. ASSUME NEW id, NEW task, NEW answer, InvokeElsewhere(p, id, task, answer)
      PROVE  Moves
  BY <1>4 DEF InvokeElsewhere, BeginReport, StartPlan, Nothing, Moves, Shaped, ProcFields
<1>5. Staged(p) => Moves
  BY <1>1, <1>2, <1>3, <1>4 DEF Staged
<1>6. MemoryChanges(p) => Moves
  BY OutsideMoves DEF MemoryChanges
<1>7. QED BY <1>5, <1>6, ToolsMove DEF PromptStep

LEMMA ChatMoves ==
  ASSUME NEW p \in Procs, ChatStep(p), family \in PromptFamilies
  PROVE  Moves
<1>1. ASSUME NEW task, NEW answer, Chat(p, task, answer)
      PROVE  Moves
  BY <1>1, BeginMoves DEF Chat
<1>2. ASSUME NEW id, NEW task, NEW answer, InvokeModel(p, id, task, answer)
      PROVE  Moves
  BY <1>2, BeginMoves DEF InvokeModel
<1>3. AssembleAgain(p) => Moves
  BY AdvanceMoves, CutMoves DEF AssembleAgain
<1>4. MemoryChanges(p) => Moves
  BY OutsideMoves DEF MemoryChanges
<1>5. QED BY <1>1, <1>2, <1>3, <1>4, ToolsMove DEF ChatStep

LEMMA NextMoves == [Next]_govVars => Moves
<1>1. CASE UNCHANGED govVars
  BY <1>1 DEF govVars, Moves, Shaped
<1>2. ASSUME NEW p \in Procs, FamilyStep(p)
      PROVE  Moves
  BY <1>2, MemoryMoves, SecurityMoves, CapsulesMove, SandboxMoves, HibernationMoves, SoulMoves,
     PromptsMove, ChatMoves
  DEF FamilyStep, PromptFamilies
<1>3. QED BY <1>1, <1>2, WriteMoves, KillMoves DEF Next

LEMMA InitShaped == Init => Shaped
BY DEF Init, Shaped, IdleProc, ProcFields, Nothing, Procs

-----------------------------------------------------------------------------
(* The evidence of the published capsules *)

CapsuleTables == {"capsules", "capsule-drafts", "capsule-versions"}

CapsuleFields ==
    {"version", "tools", "mode", "lifecycle", "asks", "tests", "trial", "approval"}

\* A tested capsule has its evidence, and a published one its approval too.
Sound(capsule) ==
    /\ DOMAIN capsule = CapsuleFields
    /\ capsule.asks \in BOOLEAN
    /\ capsule.lifecycle \in {"tested", "published"} =>
         capsule.tests = "passed" /\ capsule.trial \notin {"none", "failed"}
    /\ capsule.lifecycle = "published" /\ capsule.asks => capsule.approval = "approved"

SoundTable(table) == \A id \in DOMAIN table : Sound(table[id])

\* The artifact of a trial is a playbook.
SoundFile(path, value) == path[1] = "trials" => value # "none"

SoundStep(s) ==
    /\ s.do = "edit" /\ s.in \in CapsuleTables => SoundTable(s.put)
    /\ s.do = "artifact" => SoundFile(s.at, s.value)

SoundPlan(plan) == IsPlan(plan) /\ \A s \in Range(plan) : SoundStep(s)

\* The next step writes a table of capsules that has been read.
HoldsCapsules(r) ==
    /\ r.plan # <<>>
    /\ Head(r.plan).do = "edit"
    /\ Head(r.plan).in \in CapsuleTables
    /\ r.held # <<>>

SoundProc(r) ==
    /\ DOMAIN r = ProcFields
    /\ SoundPlan(r.plan)
    /\ HoldsCapsules(r) => SoundTable(r.held[1])

EvidenceInv ==
    /\ DOMAIN rows = CapsuleRegistries
    /\ \A name \in CapsuleTables : SoundTable(rows[name])
    /\ \A path \in DOMAIN artifacts : SoundFile(path, artifacts[path])
    /\ DOMAIN proc = Procs
    /\ \A p \in Procs : SoundProc(proc[p])

CapsuleInv == family = "capsules" => EvidenceInv

LEMMA SoundJoined ==
  ASSUME NEW s, NEW t, SoundPlan(s), SoundPlan(t)
  PROVE  SoundPlan(s \o t)
BY Joined DEF SoundPlan

LEMMA SoundNone == SoundPlan(<<>>)
BY None DEF SoundPlan

LEMMA SoundOne ==
  ASSUME NEW a, SoundStep(a)
  PROVE  SoundPlan(<<a>>)
BY One DEF SoundPlan

LEMMA SoundTwo ==
  ASSUME NEW a, NEW b, SoundStep(a), SoundStep(b)
  PROVE  SoundPlan(<<a, b>>)
BY Two DEF SoundPlan

LEMMA SoundThree ==
  ASSUME NEW a, NEW b, NEW c, SoundStep(a), SoundStep(b), SoundStep(c)
  PROVE  SoundPlan(<<a, b, c>>)
BY Three DEF SoundPlan

LEMMA SoundArtifact ==
  ASSUME NEW at, NEW value, SoundFile(at, value)
  PROVE  SoundStep(Artifact(at, value))
BY DEF SoundStep, Artifact

LEMMA SoundEvent ==
  ASSUME NEW run, NEW type, NEW path
  PROVE  SoundStep(RunEvent(run, type, path)) /\ SoundStep(Event(type, path))
BY DEF SoundStep, RunEvent, Event

LEMMA SoundUpsert ==
  ASSUME NEW name, NEW id, NEW row, name \in CapsuleTables => Sound(row)
  PROVE  SoundStep(Upsert(name, id, row))
BY DEF SoundStep, Upsert, UpsertAll, Single, SoundTable

LEMMA SoundDrop ==
  ASSUME NEW name, NEW id
  PROVE  SoundStep(DropRow(name, id))
BY DEF SoundStep, DropRow, SoundTable, Nothing

\* The paths of the other artifacts.
LEMMA NotATrial ==
  ASSUME NEW a, NEW b, NEW value, a # "trials"
  PROVE  SoundFile(<<a, b>>, value) /\ \A c : SoundFile(<<a, b, c>>, value)
BY DEF SoundFile

LEMMA SoundRecorded ==
  ASSUME NEW type, NEW path, NEW value, SoundFile(path, value)
  PROVE  SoundPlan(Recorded(type, path, value))
BY SoundArtifact, SoundEvent, SoundTwo DEF Recorded

LEMMA SoundLifecycle ==
  ASSUME NEW lifecycle, NEW id, NEW value
  PROVE  SoundPlan(Lifecycle(lifecycle, id, value))
BY SoundRecorded, NotATrial DEF Lifecycle, LifecyclePath

LEMMA SoundPrint ==
  ASSUME NEW path, NEW name, NEW id, NEW value, SoundFile(path, value), name \notin CapsuleTables
  PROVE  SoundPlan(PrintJson(path, name, id, value))
BY SoundArtifact, SoundUpsert, SoundTwo DEF PrintJson

LEMMA SoundGoverned ==
  ASSUME NEW run, NEW type, NEW path
  PROVE  SoundPlan(Governed(run, type, path))
BY SoundArtifact, NotATrial, SoundOne, SoundEvent, SoundTwo, SoundJoined DEF Manifest, Managed, Governed

LEMMA SoundReplay ==
  ASSUME NEW result
  PROVE  SoundPlan(ReplayPlan(result))
BY SoundArtifact, NotATrial, SoundUpsert, SoundTwo, SoundJoined
DEF ReplayOf, ReplayPath, CapsuleTables, ReplayPlan
-----------------------------------------------------------------------------
(* What the commands plan *)

LEMMA SoundDraft ==
  ASSUME NEW version, NEW tools, NEW mode, NEW previous
  PROVE  Sound(CreateDraft(version, tools, mode, previous))
BY DEF Sound, CreateDraft, PermissionDiff, CapsuleFields

LEMMA SoundTested ==
  ASSUME NEW capsule, Sound(capsule), NEW result, NEW playbook \in {"clean", "forbidden"}
  PROVE  Sound(AttachEvidence(capsule, result, playbook))
BY DEF Sound, AttachEvidence, TrialPasses, CapsuleFields

LEMMA SoundPublished ==
  ASSUME NEW capsule, Sound(capsule), MayPublish(capsule)
  PROVE  Sound(Published(capsule))
BY DEF Sound, Published, MayPublish, CapsuleFields

\* A package is installed with the trial this workspace has recorded.
LEMMA SoundPackage ==
  ASSUME NEW package \in Packages, Installable(package),
         \A path \in DOMAIN artifacts : SoundFile(path, artifacts[path])
  PROVE  Sound(package.capsule)
<1> DEFINE capsule == package.capsule
<1>1. /\ capsule.lifecycle = "published"
      /\ capsule.tests = "passed"
      /\ capsule.trial # "failed"
      /\ TrialPath(capsule.version) \in DOMAIN artifacts
      /\ artifacts[TrialPath(capsule.version)] = capsule.trial
  BY DEF Installable, EvidenceIsLocal
<1>2. TrialPath(capsule.version)[1] = "trials"
  BY DEF TrialPath
<1>3. capsule.trial # "none"
  BY <1>1, <1>2 DEF SoundFile
<1>4. DOMAIN capsule = CapsuleFields /\ capsule.asks \in BOOLEAN
  BY PackagesAssumption DEF CreateDraft, CapsuleFields
<1>5. capsule = Published(capsule)
  BY <1>1, PackagesAssumption
<1>6. capsule.asks => capsule.approval = "approved"
  BY <1>4, <1>5 DEF Published, CapsuleFields
<1>7. QED BY <1>1, <1>3, <1>4, <1>6 DEF Sound

LEMMA SoundCard ==
  ASSUME NEW capsule
  PROVE  SoundPlan(ApprovalCard(capsule))
BY SoundUpsert, SoundOne, SoundNone DEF CapsuleTables, ApprovalCard

LEMMA SoundArchive ==
  ASSUME NEW capsule, Sound(capsule)
  PROVE  SoundStep(Archive(capsule))
BY SoundUpsert DEF Archive

\* A capsule whose new lifecycle needs no evidence.
LEMMA SoundRetired ==
  ASSUME NEW capsule, Sound(capsule), NEW lifecycle \in {"deprecated", "quarantined"}
  PROVE  Sound([capsule EXCEPT !.lifecycle = lifecycle])
BY DEF Sound, CapsuleFields

\* A command begins with a sound plan, or it changes nothing of the files.
Begins(p) ==
    /\ UNCHANGED <<family, files>>
    /\ \E plan, view : SoundPlan(plan) /\ StartPlan(p, plan, view)

LEMMA BeginsSoundly ==
  ASSUME NEW p, NEW plan, SoundPlan(plan), Begin(p, plan)
  PROVE  p \in Operators /\ Begins(p)
BY DEF Begin, BeginWith, Begins

LEMMA DraftBegins ==
  ASSUME NEW p, NEW version, NEW tools, NEW mode, DraftCapsule(p, version, tools, mode)
  PROVE  p \in Operators /\ Begins(p)
<1> DEFINE draft == CreateDraft(version, tools, mode, Active)
           plan == <<Archive(draft), Upsert("capsule-drafts", Cap, draft)>>
                   \o Lifecycle("draft", version, draft)
<1>1. Sound(draft)
  BY SoundDraft
<1>2. SoundPlan(plan)
  BY <1>1, SoundArchive, SoundUpsert, SoundTwo, SoundLifecycle, SoundJoined
<1>3. Begin(p, plan)
  BY DEF DraftCapsule
<1>4. QED BY <1>2, <1>3, BeginsSoundly

LEMMA TestBegins ==
  ASSUME NEW p, NEW result, NEW playbook \in {"clean", "forbidden"},
         TestCapsule(p, result, playbook), EvidenceInv
  PROVE  p \in Operators /\ Begins(p)
<1> DEFINE capsule == Drafts[Cap]
           tested == AttachEvidence(capsule, result, playbook)
           copied == <<Artifact(TrialPath(capsule.version), playbook)>>
           kept == <<Archive(tested), Upsert("capsule-drafts", Cap, tested)>>
                   \o Lifecycle("test", capsule.version, tested)
           judged == IF capsule.mode # "document_only" THEN <<>>
                     ELSE IF capsule.lifecycle \notin {"draft", "tested"} THEN copied
                     ELSE copied \o <<Archive(tested), Upsert("capsule-drafts", Cap, tested)>>
                          \o Lifecycle("test", capsule.version, tested)
<1>1. Begin(p, ReplayPlan(result) \o judged)
  BY DEF TestCapsule
<1>2. Sound(tested)
  BY SoundTested DEF TestCapsule, EvidenceInv, CapsuleTables, SoundTable, Drafts
<1>3. SoundPlan(copied)
  BY SoundArtifact, SoundOne DEF SoundFile
<1>4. SoundPlan(<<Archive(tested), Upsert("capsule-drafts", Cap, tested)>>)
  BY <1>2, SoundArchive, SoundUpsert, SoundTwo
<1>5. SoundPlan(judged)
  BY <1>3, <1>4, SoundLifecycle, SoundJoined, SoundNone
<1>6. QED BY <1>1, <1>5, SoundReplay, SoundJoined, BeginsSoundly

LEMMA PublishBegins ==
  ASSUME NEW p, PublishCapsule(p), EvidenceInv
  PROVE  p \in Operators /\ Begins(p)
<1> DEFINE capsule == Drafts[Cap]
           published == Published(capsule)
           rest == IF MayPublish(capsule)
                   THEN <<Archive(published), Upsert("capsules", Cap, published),
                          DropRow("capsule-drafts", Cap)>>
                        \o Lifecycle("publish", capsule.version, published)
                   ELSE <<>>
<1>1. Begin(p, ApprovalCard(capsule) \o rest)
  BY DEF PublishCapsule
<1>2. Sound(capsule)
  BY DEF PublishCapsule, EvidenceInv, CapsuleTables, SoundTable, Drafts
<1>3. SoundPlan(rest)
  <2>1. CASE MayPublish(capsule)
    <3>1. Sound(published)
      BY <1>2, <2>1, SoundPublished
    <3>2. SoundPlan(<<Archive(published), Upsert("capsules", Cap, published),
                      DropRow("capsule-drafts", Cap)>>)
      BY <3>1, SoundArchive, SoundUpsert, SoundDrop, SoundThree
    <3>3. QED BY <2>1, <3>2, SoundLifecycle, SoundJoined
  <2>2. CASE ~MayPublish(capsule)
    BY <2>2, SoundNone
  <2>3. QED BY <2>1, <2>2
<1>4. QED BY <1>1, <1>3, SoundCard, SoundJoined, BeginsSoundly

LEMMA RollBackBegins ==
  ASSUME NEW p, NEW version, RollBackCapsule(p, version), EvidenceInv
  PROVE  p \in Operators /\ Begins(p)
<1> DEFINE active == [ArchiveOf(version) EXCEPT !.lifecycle = "published"]
           deprecated == [Active[Cap] EXCEPT !.lifecycle = "deprecated"]
           plan == <<Archive(deprecated), Archive(active), Upsert("capsules", Cap, active)>>
                   \o Lifecycle("rollback", deprecated.version \o "_to_" \o version,
                                [active |-> active, deprecated |-> deprecated])
<1>1. Begin(p, plan)
  BY DEF RollBackCapsule
<1>2. Sound(Active[Cap]) /\ Sound(ArchiveOf(version)) /\ ArchiveOf(version).lifecycle = "published"
  BY DEF RollBackCapsule, MayRollBack, EvidenceInv, CapsuleTables, SoundTable, Active, ArchiveOf
<1>3. Sound(active)
  BY <1>2 DEF Sound, CapsuleFields
<1>4. Sound(deprecated)
  BY <1>2, SoundRetired
<1>5. SoundPlan(<<Archive(deprecated), Archive(active), Upsert("capsules", Cap, active)>>)
  BY <1>3, <1>4, SoundArchive, SoundUpsert, SoundThree
<1>6. QED BY <1>1, <1>5, SoundLifecycle, SoundJoined, BeginsSoundly

LEMMA QuarantineBegins ==
  ASSUME NEW p, NEW id, QuarantineCapsule(p, id), EvidenceInv
  PROVE  p \in Operators /\ Begins(p)
<1> DEFINE name == IF Cap \in DOMAIN Active THEN "capsules" ELSE "capsule-drafts"
           row == [rows[name][Cap] EXCEPT !.lifecycle = "quarantined"]
<1>1. Begin(p, <<Upsert(name, Cap, row)>> \o TrialPlan(id, Cap))
  BY DEF QuarantineCapsule
<1>2. Sound(rows[name][Cap])
  BY DEF QuarantineCapsule, EvidenceInv, CapsuleTables, SoundTable, Active, Drafts
<1>3. SoundPlan(<<Upsert(name, Cap, row)>>)
  BY <1>2, SoundRetired, SoundUpsert, SoundOne
<1>4. SoundPlan(TrialPlan(id, Cap))
  BY SoundArtifact, NotATrial, SoundUpsert, SoundTwo, SoundGoverned, SoundJoined
  DEF Persist, CapsuleTables, TrialPlan
<1>5. QED BY <1>1, <1>3, <1>4, SoundJoined, BeginsSoundly

LEMMA ReplayBegins ==
  ASSUME NEW p, NEW run, NEW result, RecordReplay(p, run, result)
  PROVE  p \in Operators /\ Begins(p)
BY SoundRecorded, NotATrial, SoundUpsert, SoundOne, SoundJoined, BeginsSoundly
DEF ReplayPath, CapsuleTables, RecordReplay

LEMMA TrustBegins ==
  ASSUME NEW p, NEW key, TrustPublisher(p, key)
  PROVE  p \in Operators /\ Begins(p)
<1> DEFINE enrolled == <<Artifact(<<"store", "publisher", "pub">>, [key |-> key]),
                         Upsert("store-publishers", "pub", [key |-> key]),
                         Event("store.publisher.trusted", <<"store", "publisher", "pub">>)>>
           printed == PrintJson(<<"store", "trust-publisher", "pub">>, "capsule-installs", "pub",
                                [key |-> key])
<1>1. Begin(p, enrolled \o printed)
  BY DEF TrustPublisher
<1>2. SoundPlan(enrolled)
  BY SoundArtifact, NotATrial, SoundUpsert, SoundEvent, SoundThree DEF CapsuleTables
<1>3. SoundPlan(printed)
  BY SoundPrint, NotATrial DEF CapsuleTables
<1>4. QED BY <1>1, <1>2, <1>3, SoundJoined, BeginsSoundly
LEMMA InstallBegins ==
  ASSUME NEW p, NEW package \in Packages, InstallPackage(p, package), EvidenceInv
  PROVE  p \in Operators /\ Begins(p)
<1> DEFINE capsule == package.capsule
           path == <<"store", "install", capsule.version>>
           install == [version |-> capsule.version, key |-> package.key]
           file == <<Artifact(path, install)>>
           records == <<Upsert("capsules", Cap, capsule),
                        Upsert("capsule-installs", capsule.version, install),
                        Archive(capsule),
                        Event("capsule.store.installed", path)>>
           printed == PrintJson(path, "capsule-installs", capsule.version, install)
<1>1. Begin(p, file \o ApprovalCard(capsule) \o records \o printed)
  BY DEF InstallPackage
<1>2. Sound(capsule)
  BY SoundPackage DEF InstallPackage, EvidenceInv
<1>3. SoundPlan(file)
  BY SoundArtifact, NotATrial, SoundOne
<1>4. SoundPlan(records)
  BY <1>2, SoundUpsert, SoundArchive, SoundEvent DEF CapsuleTables, IsPlan, Range, SoundPlan
<1>5. SoundPlan(printed)
  BY SoundPrint, NotATrial DEF CapsuleTables
<1>6. QED BY <1>1, <1>3, <1>4, <1>5, SoundCard, SoundJoined, BeginsSoundly

LEMMA CommandBegins ==
  ASSUME NEW p, CapsuleStep(p), EvidenceInv
  PROVE  p \in Operators /\ Begins(p)
<1>1. CASE \E v \in Versions, t \in ToolSets, m \in {"document_only", "external_sandbox"} :
             DraftCapsule(p, v, t, m)
  BY <1>1, DraftBegins
<1>2. CASE \E r \in {"passed", "partial"}, b \in {"clean", "forbidden"} : TestCapsule(p, r, b)
  BY <1>2, TestBegins
<1>3. CASE PublishCapsule(p)
  BY <1>3, PublishBegins
<1>4. CASE \E v \in Versions : RollBackCapsule(p, v)
  BY <1>4, RollBackBegins
<1>5. CASE \E id \in DOMAIN rows["poisoning-signals"] : QuarantineCapsule(p, id)
  BY <1>5, QuarantineBegins
<1>6. CASE \E run \in {"first", "second"}, r \in {"passed", "partial"} : RecordReplay(p, run, r)
  BY <1>6, ReplayBegins
<1>7. CASE \E key \in {package.key : package \in Packages} : TrustPublisher(p, key)
  BY <1>7, TrustBegins
<1>8. CASE \E package \in Packages : InstallPackage(p, package)
  BY <1>8, InstallBegins
<1>9. QED
  BY <1>1, <1>2, <1>3, <1>4, <1>5, <1>6, <1>7, <1>8 DEF CapsuleStep

-----------------------------------------------------------------------------
(* The steps of a plan *)

LEMMA BeginsStep ==
  ASSUME NEW p \in Procs, Begins(p), EvidenceInv
  PROVE  EvidenceInv'
<1>1. PICK plan, view : SoundPlan(plan) /\ StartPlan(p, plan, view)
  BY DEF Begins
<1>2. SoundProc([plan |-> plan, held |-> <<>>, view |-> view, ids |-> Touched(plan)])
  BY <1>1 DEF SoundProc, ProcFields, HoldsCapsules
<1>3. DOMAIN proc' = Procs /\ \A q \in Procs : SoundProc(proc'[q])
  BY <1>1, <1>2 DEF StartPlan, EvidenceInv
<1>4. QED BY <1>3 DEF Begins, files, EvidenceInv

\* A process that has written a step of its plan.
LEMMA AdvanceSoundly ==
  ASSUME NEW p \in Procs, ~Idle(p), Advance(p), EvidenceInv
  PROVE  DOMAIN proc' = Procs /\ \A q \in Procs : SoundProc(proc'[q])
<1>1. SoundProc(proc[p])
  BY DEF EvidenceInv
<1>2. SoundPlan(Tail(proc[p].plan))
  BY <1>1, Left DEF SoundProc, SoundPlan, Idle
<1>3. /\ DOMAIN proc'[p] = ProcFields
      /\ proc'[p].plan = Tail(proc[p].plan)
      /\ proc'[p].held = <<>>
  BY <1>1 DEF Advance, SoundProc, ProcFields, EvidenceInv
<1>4. SoundProc(proc'[p])
  BY <1>2, <1>3 DEF SoundProc, HoldsCapsules
<1>5. QED BY <1>4 DEF Advance, EvidenceInv

LEMMA StoreStep ==
  ASSUME NEW p \in Procs, StoreArtifact(p), EvidenceInv
  PROVE  EvidenceInv'
<1> DEFINE s == Head(proc[p].plan)
<1>1. SoundStep(s) /\ s.do = "artifact"
  BY Left DEF StoreArtifact, AtStep, Idle, EvidenceInv, SoundProc, SoundPlan
<1>2. SoundFile(s.at, s.value)
  BY <1>1 DEF SoundStep
<1>3. \A path \in DOMAIN artifacts' : SoundFile(path, artifacts'[path])
  BY <1>2 DEF StoreArtifact, Over, Single, EvidenceInv
<1>4. DOMAIN proc' = Procs /\ \A q \in Procs : SoundProc(proc'[q])
  BY AdvanceSoundly DEF StoreArtifact, AtStep
<1>5. QED BY <1>3, <1>4 DEF StoreArtifact, EvidenceInv

LEMMA AppendStep ==
  ASSUME NEW p \in Procs, AppendEvent(p), EvidenceInv
  PROVE  EvidenceInv'
BY AdvanceSoundly DEF AppendEvent, AtStep, EvidenceInv

LEMMA ReadStep ==
  ASSUME NEW p \in Procs, ReadTable(p), EvidenceInv
  PROVE  EvidenceInv'
BY DEF EvidenceInv, ReadTable, SoundProc, ProcFields, HoldsCapsules, files

LEMMA WriteTableStep ==
  ASSUME NEW p \in Procs, WriteTable(p), EvidenceInv
  PROVE  EvidenceInv'
<1> DEFINE s == Head(proc[p].plan)
           table == proc[p].held[1]
<1>1. SoundStep(s) /\ s.do = "edit" /\ proc[p].plan # <<>> /\ proc[p].held # <<>>
  BY Left DEF WriteTable, AtStep, Idle, EvidenceInv, SoundProc, SoundPlan
<1>2. s.in \in CapsuleTables => SoundTable(s.put) /\ SoundTable(table)
  BY SMTT(30), <1>1 DEF SoundStep, EvidenceInv, SoundProc, HoldsCapsules
<1>3. s.in \in CapsuleTables => SoundTable(Edited(table, s))
  BY <1>2 DEF SoundTable, Edited, Over, Without
<1>4. /\ DOMAIN rows' = CapsuleRegistries
      /\ \A name \in CapsuleTables : SoundTable(rows'[name])
  BY <1>3 DEF WriteTable, EvidenceInv
<1>5. DOMAIN proc' = Procs /\ \A q \in Procs : SoundProc(proc'[q])
  BY AdvanceSoundly DEF WriteTable, AtStep
<1>6. QED BY <1>4, <1>5 DEF WriteTable, EvidenceInv

LEMMA KillStep ==
  ASSUME NEW p \in Procs, Kill(p), EvidenceInv
  PROVE  EvidenceInv'
<1>1. SoundProc(IdleProc)
  BY SoundNone DEF SoundProc, IdleProc, ProcFields, HoldsCapsules
<1>2. DOMAIN proc' = Procs /\ \A q \in Procs : SoundProc(proc'[q])
  BY <1>1 DEF Kill, CutShort, EvidenceInv
<1>3. QED BY <1>2 DEF Kill, files, EvidenceInv

-----------------------------------------------------------------------------
(* The workspaces the histories start from *)

SoundState(s) ==
    /\ DOMAIN s = {"rows", "artifacts", "log", "world"}
    /\ DOMAIN s.rows = CapsuleRegistries
    /\ \A name \in CapsuleTables : SoundTable(s.rows[name])
    /\ \A path \in DOMAIN s.artifacts : SoundFile(path, s.artifacts[path])

\* A row of a changed table was there before, or one of the changes gave it.
LEMMA ChangedRow ==
  ASSUME NEW table, NEW changes, NEW id \in DOMAIN Changed(table, changes)
  PROVE  \/ id \in DOMAIN table /\ Changed(table, changes)[id] = table[id]
         \/ \E i \in DOMAIN changes :
              id \in DOMAIN changes[i].put /\ Changed(table, changes)[id] = changes[i].put[id]
<1> DEFINE concerns(i, x) == x \in DOMAIN changes[i].put \cup changes[i].drop
           gives(i, x) == /\ x \in DOMAIN changes[i].put
                          /\ \A j \in DOMAIN changes : j > i => ~concerns(j, x)
           kept == {x \in DOMAIN table : \A i \in DOMAIN changes : ~concerns(i, x)}
           given == {x \in UNION {DOMAIN changes[i].put : i \in DOMAIN changes} :
                       \E i \in DOMAIN changes : gives(i, x)}
           giver(x) == CHOOSE i \in DOMAIN changes : gives(i, x)
<1>1. Changed(table, changes) =
        [x \in kept \cup given |-> IF x \in kept THEN table[x] ELSE changes[giver(x)].put[x]]
  BY DEF Changed
<1> HIDE DEF kept, given, giver
<1>2. id \in kept \cup given
  BY <1>1
<1> USE DEF kept, given, giver
<1>3. CASE id \in kept
  BY <1>1, <1>3
<1>4. CASE id \notin kept
  BY <1>2, <1>4, <1>1
<1>5. QED BY <1>3, <1>4

LEMMA SoundlyCarriedOut ==
  ASSUME NEW s, SoundState(s), NEW plan, SoundPlan(plan)
  PROVE  SoundState(CarriedOut(s, plan))
<1> DEFINE tables(name) == [i \in DOMAIN plan |-> RowChange(plan[i], name)]
           stored == [i \in DOMAIN plan |-> FileChange(plan[i])]
           after == CarriedOut(s, plan)
<1>1. /\ DOMAIN after = DOMAIN s
      /\ DOMAIN after.rows = DOMAIN s.rows
      /\ \A name \in DOMAIN s.rows : after.rows[name] = Changed(s.rows[name], tables(name))
      /\ after.artifacts = Changed(s.artifacts, stored)
  BY DEF CarriedOut, SoundState
<1>2. \A i \in DOMAIN plan : SoundStep(plan[i])
  BY DEF SoundPlan, Range
<1>3. ASSUME NEW name \in CapsuleTables
      PROVE  SoundTable(after.rows[name])
  <2>1. SUFFICES ASSUME NEW id \in DOMAIN Changed(s.rows[name], tables(name))
                 PROVE  Sound(Changed(s.rows[name], tables(name))[id])
    BY <1>1 DEF SoundTable, SoundState, CapsuleTables, CapsuleRegistries
  <2>2. \A i \in DOMAIN plan : \A x \in DOMAIN tables(name)[i].put : Sound(tables(name)[i].put[x])
    BY <1>2 DEF RowChange, NoChange, Nothing, SoundStep, SoundTable
  <2>3. \A x \in DOMAIN s.rows[name] : Sound(s.rows[name][x])
    BY DEF SoundState, SoundTable
  <2>4. QED BY <2>2, <2>3, ChangedRow
<1>4. ASSUME NEW path \in DOMAIN after.artifacts
      PROVE  SoundFile(path, after.artifacts[path])
  <2>1. \A i \in DOMAIN plan : \A x \in DOMAIN stored[i].put : SoundFile(x, stored[i].put[x])
    BY <1>2 DEF FileChange, NoChange, Nothing, SoundStep, Single
  <2>2. \A x \in DOMAIN s.artifacts : SoundFile(x, s.artifacts[x])
    BY DEF SoundState
  <2>3. QED BY <1>1, <2>1, <2>2, ChangedRow
<1>5. QED BY <1>1, <1>3, <1>4 DEF SoundState
LEMMA StartsSound == \A s \in CapsuleStarts : SoundState(s)
<1> DEFINE tools == [capsule \in {Cap} |-> [tools |-> {"write"}]]
           replays == Recorded("replay.recorded", ReplayPath("first"), "passed")
           more == Recorded("replay.recorded", ReplayPath("second"), "passed")
           plan == PublicationPlan("1", {"write"}, Nothing) \o PublicationPlan("2", {}, tools)
                   \o replays \o more
<1>1. SoundState(EmptyCapsules)
  BY DEF EmptyCapsules, SoundState, CapsuleTables, CapsuleRegistries, SoundTable, Nothing
<1>2. ASSUME NEW version, NEW required, NEW previous
      PROVE  SoundPlan(PublicationPlan(version, required, previous))
  <2> DEFINE draft == CreateDraft(version, required, "document_only", previous)
             tested == PassedDraft(version, required, previous)
             published == Published(tested)
  <2>1. Sound(draft)
    BY SoundDraft
  <2>2. Sound(tested)
    BY <2>1, SoundTested DEF PassedDraft
  <2>3. DOMAIN draft = CapsuleFields
    BY <2>1 DEF Sound
  <2>4. MayPublish(tested)
    BY <2>3 DEF PassedDraft, AttachEvidence, TrialPasses, MayPublish, CapsuleFields
  <2>5. Sound(published)
    BY <2>2, <2>4, SoundPublished
  <2>6. SoundPlan(<<Artifact(TrialPath(version), "clean")>>)
    BY SoundArtifact, SoundOne DEF SoundFile
  <2>7. SoundPlan(<<Archive(published), Upsert("capsules", Cap, published),
                    DropRow("capsule-drafts", Cap)>>)
    BY <2>5, SoundArchive, SoundUpsert, SoundDrop, SoundThree
  <2>8. QED
    BY <2>6, <2>7, SoundReplay, SoundLifecycle, SoundCard, SoundJoined DEF PublicationPlan
<1>3. SoundPlan(replays) /\ SoundPlan(more)
  BY SoundRecorded, NotATrial DEF ReplayPath
<1>4. SoundPlan(plan)
  BY <1>2, <1>3, SoundJoined
<1>5. SoundState(CarriedOut(EmptyCapsules, plan))
  BY <1>1, <1>4, SoundlyCarriedOut
<1>6. QED BY <1>1, <1>5 DEF CapsuleStarts

-----------------------------------------------------------------------------

LEMMA InitCapsuleInv == Init => CapsuleInv
<1> SUFFICES ASSUME Init, family = "capsules" PROVE EvidenceInv
  BY DEF CapsuleInv
<1>1. PICK s \in Starts(family) : rows = s.rows /\ artifacts = s.artifacts
  BY DEF Init
<1>2. SoundState(s)
  BY <1>1, StartsSound DEF Starts
<1>3. SoundProc(IdleProc)
  BY SoundNone DEF SoundProc, IdleProc, ProcFields, HoldsCapsules
<1>4. QED BY <1>1, <1>2, <1>3 DEF Init, SoundState, EvidenceInv

LEMMA StepCapsuleInv == CapsuleInv /\ [Next]_govVars => CapsuleInv'
<1> SUFFICES ASSUME CapsuleInv, [Next]_govVars, family' = "capsules" PROVE EvidenceInv'
  BY DEF CapsuleInv
<1>1. CASE UNCHANGED govVars
  BY <1>1 DEF govVars, files, CapsuleInv, EvidenceInv
<1>2. CASE Next
  <2>1. PICK p \in Procs : FamilyStep(p) \/ Write(p) \/ Kill(p)
    BY <1>2 DEF Next
  <2>2. CASE Write(p)
    BY <2>2, StoreStep, AppendStep, ReadStep, WriteTableStep
    DEF Write, StoreArtifact, AppendEvent, ReadTable, WriteTable, CapsuleInv
  <2>3. CASE Kill(p)
    BY <2>3, KillStep DEF Kill, CapsuleInv
  <2>4. CASE FamilyStep(p)
    BY <1>2, NextMoves, <2>4, CommandBegins, BeginsStep DEF Moves, FamilyStep, CapsuleInv
  <2>5. QED BY <2>1, <2>2, <2>3, <2>4
<1>3. QED BY <1>1, <1>2

\* What is published, or archived as published, has passed its replays and its
\* trial, and was approved when it asked for more tools: for every number of
\* operators whose commands interleave, of commands and of kills
\* (packages/capability-os/src/index.ts: publishCapsule, rollbackCapsule;
\* packages/surface-os/src/index.ts: createCapsuleInstallRecord).
THEOREM PublishedAlwaysHasEvidence == Spec => []PublishedHasEvidence
<1>1. CapsuleInv => PublishedHasEvidence
  BY DEF CapsuleInv, EvidenceInv, CapsuleTables, SoundTable, Sound, PublishedHasEvidence
<1>2. QED BY <1>1, InitCapsuleInv, StepCapsuleInv, PTL DEF Spec

-----------------------------------------------------------------------------
(* The context packs *)

Tombs == rows["memory-tombstones"]

\* A tombstone is kept under the id of the memory it is about.
TrueTable(table) == \A id \in DOMAIN table : table[id].target = id

\* A step of an operator adds tombstones and takes none away.
KeepingStep(s) ==
    /\ s.do \in {"artifact", "event", "edit"}
    /\ s.do = "edit" /\ s.in = "memory-tombstones" => s.drop = {} /\ TrueTable(s.put)

KeepingPlan(plan) == IsPlan(plan) /\ \A s \in Range(plan) : KeepingStep(s)

\* The next step writes the tombstones, which have been read.
HoldsTombs(r) ==
    /\ r.plan # <<>>
    /\ Head(r.plan).do = "edit"
    /\ Head(r.plan).in = "memory-tombstones"
    /\ r.held # <<>>

KeepingProc(r) == KeepingPlan(r.plan) /\ (HoldsTombs(r) => r.held[1] = Tombs)

\* What is left of a report, and what it has seen of the tombstones: they are
\* all there still, and the pack it has assembled selects none of them.
ExplainPlan == <<[do |-> "cards"], [do |-> "pack"]>>

Clean(view) ==
    /\ "deleted" \in DOMAIN view
    /\ view.deleted \subseteq DOMAIN Tombs
    /\ \A i \in DOMAIN view.pack : view.pack[i].selected \cap view.deleted = {}

ReportingProc(r) ==
    /\ r.plan \in {<<>>, <<[do |-> "pack"]>>, ExplainPlan}
    /\ r.plan # <<>> => "pack" \in DOMAIN r.view
    /\ "pack" \in DOMAIN r.view => Clean(r.view)

TombInv ==
    /\ DOMAIN rows = MemoryRegistries
    /\ TrueTable(Tombs)
    /\ Shaped
    /\ \A p \in Operators : KeepingProc(proc[p])
    /\ \A p \in Readers : ReportingProc(proc[p])

MemoryInv == family = "memory" => TombInv

LEMMA KeepingJoined ==
  ASSUME NEW s, NEW t, KeepingPlan(s), KeepingPlan(t)
  PROVE  KeepingPlan(s \o t)
BY Joined DEF KeepingPlan

LEMMA KeepingNone == KeepingPlan(<<>>)
BY None DEF KeepingPlan

LEMMA KeepingOne ==
  ASSUME NEW a, KeepingStep(a)
  PROVE  KeepingPlan(<<a>>)
BY One DEF KeepingPlan

LEMMA KeepingTwo ==
  ASSUME NEW a, NEW b, KeepingStep(a), KeepingStep(b)
  PROVE  KeepingPlan(<<a, b>>)
BY Two DEF KeepingPlan

LEMMA KeepingArtifact ==
  ASSUME NEW at, NEW value
  PROVE  KeepingStep(Artifact(at, value))
BY DEF KeepingStep, Artifact

LEMMA KeepingEvent ==
  ASSUME NEW type, NEW path
  PROVE  KeepingStep(Event(type, path))
BY DEF KeepingStep, Event, RunEvent

LEMMA KeepingEdit ==
  ASSUME NEW name, NEW items, NEW id, NEW row, name # "memory-tombstones"
  PROVE  /\ KeepingStep(UpsertAll(name, items))
         /\ KeepingStep(Upsert(name, id, row))
         /\ KeepingStep(DropRow(name, id))
BY DEF KeepingStep, Upsert, UpsertAll, DropRow

LEMMA KeepingRecorded ==
  ASSUME NEW type, NEW path, NEW value
  PROVE  KeepingPlan(Recorded(type, path, value))
BY KeepingArtifact, KeepingEvent, KeepingTwo DEF Recorded

LEMMA KeepingPrint ==
  ASSUME NEW path, NEW name, NEW id, NEW value, name # "memory-tombstones"
  PROVE  KeepingPlan(PrintJson(path, name, id, value))
BY KeepingArtifact, KeepingEdit, KeepingTwo DEF PrintJson

LEMMA KeepingDerived == KeepingPlan(DerivePlan)
BY KeepingRecorded, KeepingNone, KeepingEdit, KeepingOne, KeepingJoined DEF CandidateRecord, DerivePlan

LEMMA KeepingAccepted ==
  ASSUME NEW id, NEW candidate
  PROVE  KeepingPlan(AcceptCandidatePlan(id, candidate))
<1> DEFINE card == CardOf(id, candidate)
<1>1. KeepingPlan(<<Upsert("memory-candidates", id, ReviewedCandidate(candidate)),
                    Upsert("memory-cards", id, card)>>)
  BY KeepingEdit, KeepingTwo
<1>2. QED BY <1>1, KeepingRecorded, KeepingJoined DEF AcceptCandidatePlan

LEMMA KeepingDeleted ==
  ASSUME NEW id, NEW card
  PROVE  KeepingPlan(DeletePlan(id, Tombstone(id, card)))
<1> DEFINE tombstone == Tombstone(id, card)
<1>1. KeepingStep(Upsert("memory-tombstones", id, tombstone))
  BY DEF KeepingStep, Upsert, UpsertAll, Single, TrueTable, Tombstone
<1>2. KeepingPlan(<<DropRow("memory-cards", id), Upsert("memory-tombstones", id, tombstone)>>)
  BY <1>1, KeepingEdit, KeepingTwo
<1>3. QED BY <1>2, KeepingRecorded, KeepingJoined DEF DeletePlan

LEMMA MemoryCommandBegins ==
  ASSUME NEW p, MemoryCommand(p)
  PROVE  p \in Operators /\ \E plan : KeepingPlan(plan) /\ Begin(p, plan)
<1> SUFFICES \E plan : KeepingPlan(plan) /\ Begin(p, plan)
  BY DEF Begin, BeginWith
<1>1. CASE DeriveCandidates(p)
  BY <1>1, KeepingDerived DEF DeriveCandidates
<1>2. CASE EnsureEpisode(p)
  BY <1>2, KeepingDerived, KeepingAccepted, KeepingJoined DEF EnsureEpisode
<1>3. ASSUME NEW content, ProposeCandidate(p, content)
      PROVE  \E plan : KeepingPlan(plan) /\ Begin(p, plan)
  BY <1>3, KeepingRecorded, KeepingEdit, KeepingOne, KeepingJoined DEF ProposeCandidate
<1>4. ASSUME NEW id, AcceptMemory(p, id)
      PROVE  \E plan : KeepingPlan(plan) /\ Begin(p, plan)
  BY <1>4, KeepingAccepted DEF AcceptMemory
<1>5. ASSUME NEW id, RejectMemory(p, id)
      PROVE  \E plan : KeepingPlan(plan) /\ Begin(p, plan)
  BY <1>5, KeepingRecorded, KeepingEdit, KeepingOne, KeepingJoined DEF RejectMemory
<1>6. ASSUME NEW id, DeleteMemory(p, id)
      PROVE  \E plan : KeepingPlan(plan) /\ Begin(p, plan)
  BY <1>6, KeepingDeleted DEF DeleteMemory
<1>7. ASSUME NEW id, NEW context, BlockMemory(p, id, context)
      PROVE  \E plan : KeepingPlan(plan) /\ Begin(p, plan)
  BY <1>7, KeepingRecorded, KeepingEdit, KeepingOne, KeepingJoined DEF BlockMemory
<1>8. CASE DreamRun(p)
  BY <1>8, KeepingEvent, KeepingOne, KeepingPrint, KeepingJoined DEF DreamRun
<1>9. ASSUME NEW id, NEW yes, DreamAccept(p, id, yes)
      PROVE  \E plan : KeepingPlan(plan) /\ Begin(p, plan)
  <2> DEFINE fold == rows["memory-folds"][id]
             path == <<"dream", "accept", id>>
  <2>1. KeepingPlan(<<Event("memory.fold.accepted", path), Upsert("memory-cards", id, fold.memory)>>)
    BY KeepingEvent, KeepingEdit, KeepingTwo
  <2>2. QED BY <1>9, <2>1, KeepingPrint, KeepingJoined DEF DreamAccept
<1>10. ASSUME NEW id, DreamReject(p, id)
       PROVE  \E plan : KeepingPlan(plan) /\ Begin(p, plan)
  BY <1>10, KeepingEvent, KeepingOne, KeepingPrint, KeepingJoined DEF DreamReject
<1>11. QED
  BY <1>1, <1>2, <1>3, <1>4, <1>5, <1>6, <1>7, <1>8, <1>9, <1>10 DEF MemoryCommand
\* With several operators an upsert may write a table back that it read before
\* another one added a tombstone to it.
OneOperator == \A p, q \in Operators : p = q

LEMMA TrueDeleted ==
  ASSUME NEW table, TrueTable(table)
  PROVE  Deleted(table) = DOMAIN table
BY DEF TrueTable, Deleted

\* The tombstones are what they were, or more.
Kept ==
    /\ DOMAIN rows' = MemoryRegistries
    /\ TrueTable(Tombs')
    /\ DOMAIN Tombs \subseteq DOMAIN Tombs'

LEMMA SameTombs ==
  ASSUME TombInv, DOMAIN rows' = DOMAIN rows, Tombs' = Tombs
  PROVE  Kept
BY DEF TombInv, Kept

LEMMA ReadersWait ==
  ASSUME TombInv, Kept, NEW p \in Readers, proc'[p] = proc[p]
  PROVE  ReportingProc(proc[p])'
BY DEF TombInv, Kept, ReportingProc, Clean

\* A step of the operator.
LEMMA OperatorKeeps ==
  ASSUME TombInv, OneOperator, NEW p \in Operators, Shaped', Kept,
         \A q \in Procs : q # p => proc'[q] = proc[q],
         KeepingProc(proc[p])'
  PROVE  TombInv'
BY ReadersReport, ReadersWait DEF OneOperator, TombInv, Kept

\* A step of a reader.
LEMMA ReaderKeeps ==
  ASSUME TombInv, NEW p \in Readers, Shaped', DOMAIN rows' = DOMAIN rows, Tombs' = Tombs,
         \A q \in Procs : q # p => proc'[q] = proc[q],
         ReportingProc(proc[p])'
  PROVE  TombInv'
BY ReadersReport, SameTombs, ReadersWait DEF TombInv, KeepingProc, Procs

LEMMA CommandKeeps ==
  ASSUME TombInv, OneOperator, NEW p, MemoryCommand(p), Shaped'
  PROVE  TombInv'
<1>1. PICK plan : p \in Operators /\ KeepingPlan(plan) /\ Begin(p, plan)
  BY MemoryCommandBegins
<1>2. DOMAIN proc = Procs /\ p \in Procs
  BY <1>1 DEF TombInv, Shaped, Procs
<1>3. /\ proc'[p].plan = plan
      /\ proc'[p].held = <<>>
      /\ \A q \in Procs : q # p => proc'[q] = proc[q]
  BY <1>1, <1>2 DEF Begin, BeginWith, StartPlan
<1>4. KeepingProc(proc[p])'
  BY <1>1, <1>3 DEF KeepingProc, HoldsTombs
<1>5. Kept
  BY <1>1, SameTombs DEF Begin, BeginWith, files, Tombs
<1>6. QED BY <1>1, <1>3, <1>4, <1>5, OperatorKeeps

LEMMA AdvanceKeeps ==
  ASSUME TombInv, NEW p \in Operators, ~Idle(p), Advance(p)
  PROVE  /\ KeepingProc(proc[p])'
         /\ \A q \in Procs : q # p => proc'[q] = proc[q]
<1>1. p \in Procs /\ DOMAIN proc = Procs /\ DOMAIN proc[p] = ProcFields
  BY DEF TombInv, Shaped, Procs
<1>2. KeepingPlan(Tail(proc[p].plan))
  BY Left DEF TombInv, KeepingProc, KeepingPlan, Idle
<1>3. proc'[p].plan = Tail(proc[p].plan) /\ proc'[p].held = <<>>
  BY <1>1 DEF Advance, ProcFields
<1>4. \A q \in Procs : q # p => proc'[q] = proc[q]
  BY <1>1 DEF Advance
<1>5. QED BY <1>2, <1>3, <1>4 DEF KeepingProc, HoldsTombs

\* A reader writes its report in steps of its own.
LEMMA ReadersWriteNothing ==
  ASSUME TombInv, NEW p \in Readers
  PROVE  ~Write(p)
<1>1. proc[p].plan = <<>> \/ Head(proc[p].plan).do \in {"cards", "pack"}
  BY DEF TombInv, ReportingProc, ExplainPlan
<1>2. QED BY <1>1 DEF Write, StoreArtifact, AppendEvent, ReadTable, WriteTable, AtStep, Idle

LEMMA WriteKeeps ==
  ASSUME TombInv, OneOperator, NEW p \in Operators, Write(p), Shaped'
  PROVE  TombInv'
<1> DEFINE s == Head(proc[p].plan)
<1>1. p \in Procs /\ DOMAIN proc = Procs /\ DOMAIN proc[p] = ProcFields
  BY DEF TombInv, Shaped, Procs
<1>2. CASE StoreArtifact(p) \/ AppendEvent(p)
  BY <1>2, SameTombs, AdvanceKeeps, OperatorKeeps DEF StoreArtifact, AppendEvent, Tombs, AtStep
<1>3. CASE ReadTable(p)
  <2>1. Kept
    BY <1>3, SameTombs DEF ReadTable, files, Tombs
  <2>2. /\ proc'[p].plan = proc[p].plan
        /\ proc'[p].held = <<rows[s.in]>>
        /\ \A q \in Procs : q # p => proc'[q] = proc[q]
    BY <1>1, <1>3 DEF ReadTable, ProcFields
  <2>3. rows' = rows
    BY <1>3 DEF ReadTable, files
  <2>4. KeepingProc(proc[p])'
    BY <2>2, <2>3 DEF TombInv, KeepingProc, HoldsTombs, Tombs
  <2>5. QED BY <2>1, <2>2, <2>4, OperatorKeeps
<1>4. CASE WriteTable(p)
  <2>1. KeepingStep(s) /\ proc[p].plan # <<>>
    BY <1>4, Left DEF WriteTable, AtStep, Idle, TombInv, KeepingProc, KeepingPlan
  <2>2. CASE s.in = "memory-tombstones"
    <3>1. s.drop = {} /\ TrueTable(s.put) /\ proc[p].held[1] = Tombs
      BY <1>4, <2>1, <2>2 DEF WriteTable, AtStep, KeepingStep, TombInv, KeepingProc, HoldsTombs
    <3>2. Tombs' = Edited(Tombs, s) /\ DOMAIN rows' = DOMAIN rows
      BY SMTT(30), <1>4, <2>2, <3>1 DEF WriteTable, TombInv, Tombs, MemoryRegistries
    <3>3. Kept
      BY <3>1, <3>2 DEF Edited, Over, Without, TrueTable, TombInv, Kept
    <3>4. QED BY <1>4, <3>3, AdvanceKeeps, OperatorKeeps DEF WriteTable, AtStep
  <2>3. CASE s.in # "memory-tombstones"
    <3>1. Kept
      BY <1>4, <2>3, SameTombs DEF WriteTable, Tombs, TombInv, MemoryRegistries
    <3>2. QED BY <1>4, <3>1, AdvanceKeeps, OperatorKeeps DEF WriteTable, AtStep
  <2>4. QED BY <2>2, <2>3
<1>5. QED BY <1>2, <1>3, <1>4 DEF Write

LEMMA KillKeeps ==
  ASSUME TombInv, OneOperator, NEW p, Kill(p), Shaped'
  PROVE  TombInv'
<1>1. p \in Operators /\ p \in Procs /\ DOMAIN proc = Procs
  BY DEF Kill, TombInv, Shaped, Procs
<1>2. proc'[p] = IdleProc /\ \A q \in Procs : q # p => proc'[q] = proc[q]
  BY <1>1 DEF Kill, CutShort
<1>3. KeepingProc(proc[p])'
  BY <1>2, KeepingNone DEF KeepingProc, HoldsTombs, IdleProc
<1>4. Kept
  BY SameTombs DEF Kill, files, Tombs
<1>5. QED BY <1>1, <1>2, <1>3, <1>4, OperatorKeeps

LEMMA ExplainKeeps ==
  ASSUME TombInv, NEW p, ExplainContext(p), Shaped'
  PROVE  TombInv'
<1>1. p \in Readers /\ p \in Procs /\ DOMAIN proc = Procs
  BY DEF ExplainContext, BeginReport, TombInv, Shaped, Procs
<1>2. /\ proc'[p].plan = ExplainPlan
      /\ proc'[p].view = [deleted |-> Deleted(Tombs), pack |-> <<>>]
      /\ \A q \in Procs : q # p => proc'[q] = proc[q]
  BY <1>1 DEF ExplainContext, BeginReport, StartPlan, ExplainPlan, Tombs
<1>3. rows' = rows
  BY DEF ExplainContext, BeginReport, files
<1>4. Deleted(Tombs) = DOMAIN Tombs
  BY TrueDeleted DEF TombInv
<1>5. ReportingProc(proc[p])'
  BY <1>2, <1>3, <1>4 DEF ReportingProc, Clean, Tombs
<1>6. QED BY <1>1, <1>2, <1>3, <1>5, ReaderKeeps DEF Tombs

\* The steps of a report are steps of a reader.
LEMMA ReaderSteps ==
  ASSUME TombInv, NEW p \in Procs, NEW kind \in {"cards", "pack"}, AtStep(p, kind)
  PROVE  /\ p \in Readers
         /\ proc[p].plan # <<>>
         /\ kind = "cards" => Tail(proc[p].plan) = <<[do |-> "pack"]>>
<1>1. ASSUME p \in Operators
      PROVE  Head(proc[p].plan).do \in {"artifact", "event", "edit"}
  BY <1>1, Left DEF AtStep, Idle, TombInv, KeepingProc, KeepingPlan, KeepingStep
<1>2. p \in Readers /\ proc[p].plan # <<>>
  BY <1>1 DEF AtStep, Procs, Idle
<1>3. proc[p].plan \in {<<[do |-> "pack"]>>, ExplainPlan}
  BY <1>2 DEF TombInv, ReportingProc
<1>4. kind = "cards" => proc[p].plan = ExplainPlan
  BY <1>3 DEF AtStep
<1>5. Tail(ExplainPlan) = <<[do |-> "pack"]>>
  BY DEF ExplainPlan
<1>6. QED BY <1>2, <1>4, <1>5

LEMMA LookKeeps ==
  ASSUME TombInv, NEW p \in Procs, LookAtCards(p), Shaped'
  PROVE  TombInv'
<1>1. p \in Readers /\ proc[p].plan # <<>> /\ Tail(proc[p].plan) = <<[do |-> "pack"]>>
  BY ReaderSteps DEF LookAtCards
<1>2. DOMAIN proc = Procs /\ DOMAIN proc[p] = ProcFields
  BY DEF TombInv, Shaped
<1>3. /\ proc'[p].plan = <<[do |-> "pack"]>>
      /\ proc'[p].view = proc[p].view
      /\ \A q \in Procs : q # p => proc'[q] = proc[q]
  BY <1>1, <1>2 DEF LookAtCards, ProcFields
<1>4. rows' = rows
  BY DEF LookAtCards, files
<1>5. ReportingProc(proc[p])'
  BY <1>1, <1>3, <1>4 DEF TombInv, ReportingProc, Clean, Tombs
<1>6. QED BY <1>1, <1>3, <1>4, <1>5, ReaderKeeps DEF Tombs

LEMMA PackKeeps ==
  ASSUME TombInv, NEW p \in Procs, PackContext(p), Shaped'
  PROVE  TombInv'
<1> DEFINE cards == proc[p].held[1]
           pack == Assemble(cards, "planning", Tombs)
<1>1. p \in Readers /\ proc[p].plan # <<>>
  BY ReaderSteps DEF PackContext
<1>2. DOMAIN proc = Procs /\ DOMAIN proc[p] = ProcFields
  BY DEF TombInv, Shaped
<1>3. "pack" \in DOMAIN proc[p].view /\ Clean(proc[p].view)
  BY <1>1 DEF TombInv, ReportingProc
<1>4. /\ proc'[p].plan = <<>>
      /\ proc'[p].view = [proc[p].view EXCEPT !.pack = <<pack>>]
      /\ \A q \in Procs : q # p => proc'[q] = proc[q]
  BY <1>2 DEF PackContext, ProcFields, Tombs
<1>5. DOMAIN rows' = DOMAIN rows /\ Tombs' = Tombs
  BY DEF PackContext, WritesReport, Tombs, TombInv, MemoryRegistries
<1>6. pack.selected \cap DOMAIN Tombs = {}
  BY TrueDeleted DEF Assemble, Excluded, TombInv
<1>7. /\ proc'[p].view.pack = <<pack>>
      /\ proc'[p].view.deleted = proc[p].view.deleted
      /\ "deleted" \in DOMAIN proc'[p].view
  BY <1>3, <1>4 DEF Clean
<1>8. Clean(proc[p].view)'
  BY <1>3, <1>5, <1>6, <1>7 DEF Clean
<1>9. ReportingProc(proc[p])'
  BY <1>4, <1>8 DEF ReportingProc
<1>10. QED BY <1>1, <1>4, <1>5, <1>9, ReaderKeeps

LEMMA ReportKeeps ==
  ASSUME TombInv, NEW p, NEW path, NEW name, NEW id, NEW value, Report(p, path, name, id, value),
         name # "memory-tombstones", Shaped'
  PROVE  TombInv'
<1>1. p \in Readers /\ proc' = proc
  BY DEF Report
<1>2. DOMAIN rows' = DOMAIN rows /\ Tombs' = Tombs
  BY DEF Report, WritesReport, Tombs, TombInv, MemoryRegistries
<1>3. ReportingProc(proc[p])'
  BY <1>1, <1>2 DEF TombInv, ReportingProc, Clean
<1>4. QED BY <1>1, <1>2, <1>3, ReaderKeeps

-----------------------------------------------------------------------------

LEMMA StartsTrue ==
  \A s \in MemoryStarts : /\ DOMAIN s.rows = MemoryRegistries
                          /\ TrueTable(s.rows["memory-tombstones"])
<1> DEFINE Fine(s) == /\ DOMAIN s = {"rows", "artifacts", "log", "world"}
                      /\ DOMAIN s.rows = MemoryRegistries
                      /\ TrueTable(s.rows["memory-tombstones"])
<1>1. \A types, sensitivity : Fine(FreshMemory(types, sensitivity))
  BY DEF FreshMemory, TrueTable, Nothing, MemoryRegistries
<1>2. ASSUME NEW s, Fine(s), NEW plan, KeepingPlan(plan)
      PROVE  Fine(CarriedOut(s, plan))
  <2> DEFINE table == s.rows["memory-tombstones"]
             changes == [i \in DOMAIN plan |-> RowChange(plan[i], "memory-tombstones")]
  <2>1. /\ DOMAIN CarriedOut(s, plan) = DOMAIN s
        /\ DOMAIN CarriedOut(s, plan).rows = MemoryRegistries
        /\ CarriedOut(s, plan).rows["memory-tombstones"] = Changed(table, changes)
    BY <1>2 DEF CarriedOut, MemoryRegistries
  <2>2. \A i \in DOMAIN plan : KeepingStep(plan[i])
    BY <1>2 DEF KeepingPlan, Range
  <2>3. \A i \in DOMAIN changes : TrueTable(changes[i].put)
    BY <2>2 DEF RowChange, NoChange, Nothing, KeepingStep, TrueTable
  <2>4. TrueTable(Changed(table, changes))
    BY <1>2, <2>3, ChangedRow DEF TrueTable
  <2>5. QED BY <1>2, <2>1, <2>4
<1>3. ASSUME NEW id, NEW candidate
      PROVE  KeepingPlan(AcceptancePlan(id, candidate))
  BY KeepingEdit, KeepingTwo, KeepingRecorded, KeepingJoined DEF AcceptancePlan
<1>4. \A sensitivity : Fine(Accepted(sensitivity))
  BY <1>1, <1>2, <1>3, KeepingJoined DEF Accepted
<1>5. Fine(DeletedAndProposed)
  <2> DEFINE accepted == Accepted("private")
             candidate == Candidate("verified", {2}, "private", {"external_send"})
             card == accepted.rows["memory-cards"]["verification"]
             plan == DeletePlan("verification", Tombstone("verification", card))
                     \o Recorded("memory.candidate.created",
                                 MemoryPath("candidates", "verification"), candidate)
                     \o <<Upsert("memory-candidates", "verification", candidate)>>
  <2>1. KeepingPlan(plan)
    BY KeepingDeleted, KeepingRecorded, KeepingEdit, KeepingOne, KeepingJoined
  <2>2. DeletedAndProposed = CarriedOut(accepted, plan)
    BY DEF DeletedAndProposed
  <2>3. QED BY <1>2, <1>4, <2>1, <2>2
<1>6. QED BY <1>1, <1>4, <1>5 DEF MemoryStarts

LEMMA InitMemoryInv == Init => MemoryInv
<1> SUFFICES ASSUME Init, family = "memory" PROVE TombInv
  BY DEF MemoryInv
<1>1. PICK s \in MemoryStarts : rows = s.rows
  BY DEF Init, Starts
<1>2. DOMAIN rows = MemoryRegistries /\ TrueTable(Tombs)
  BY <1>1, StartsTrue DEF Tombs
<1>3. \A p \in Procs : proc[p] = IdleProc
  BY DEF Init
<1>4. KeepingProc(IdleProc) /\ ReportingProc(IdleProc)
  BY KeepingNone DEF KeepingProc, HoldsTombs, ReportingProc, IdleProc, Nothing
<1>5. QED BY <1>2, <1>3, <1>4, InitShaped DEF TombInv, Procs

LEMMA StepMemoryInv == OneOperator /\ MemoryInv /\ [Next]_govVars => MemoryInv'
<1> SUFFICES ASSUME OneOperator, MemoryInv, [Next]_govVars, family' = "memory" PROVE TombInv'
  BY DEF MemoryInv
<1>1. family = "memory" /\ TombInv /\ Shaped'
  BY NextMoves DEF Moves, MemoryInv, TombInv
<1>2. CASE UNCHANGED govVars
  BY <1>1, <1>2
  DEF govVars, files, TombInv, Tombs, Shaped, KeepingProc, ReportingProc, Clean
<1>3. CASE Next
  <2>1. PICK p \in Procs : FamilyStep(p) \/ Write(p) \/ Kill(p)
    BY <1>3 DEF Next
  <2>2. CASE Write(p)
    BY <1>1, <2>1, <2>2, WriteKeeps, ReadersWriteNothing DEF Procs
  <2>3. CASE Kill(p)
    BY <1>1, <2>3, KillKeeps
  <2>4. CASE FamilyStep(p)
    <3>1. MemoryStep(p)
      BY <1>1, <2>4 DEF FamilyStep
    <3>2. CASE MemoryCommand(p)
      BY <1>1, <3>2, CommandKeeps
    <3>3. CASE ExplainContext(p) \/ LookAtCards(p) \/ PackContext(p)
      BY <1>1, <2>1, <3>3, ExplainKeeps, LookKeeps, PackKeeps
    <3>4. CASE UserModel(p) \/ Timeline(p)
      BY <1>1, <3>4, ReportKeeps DEF UserModel, Timeline
    <3>5. QED BY <3>1, <3>2, <3>3, <3>4 DEF MemoryStep
  <2>5. QED BY <2>1, <2>2, <2>3, <2>4
<1>4. QED BY <1>2, <1>3

\* With one operator, a context pack that is assembled while he deletes
\* memories selects none whose tombstone was there when the report began: for
\* every number of readers, of commands and of kills (assembleContextPack in
\* packages/memory-os/src/index.ts, context explain in packages/tui/src/cli.ts).
THEOREM PacksAlwaysClean ==
  ASSUME OneOperator
  PROVE  Spec => []PacksAreClean
<1>1. MemoryInv /\ Shaped => PacksAreClean
  BY DEF MemoryInv, TombInv, ReportingProc, Clean, Shaped, PacksAreClean
<1>2. Shaped /\ [Next]_govVars => Shaped'
  BY NextMoves DEF Moves
<1>3. MemoryInv /\ [Next]_govVars => MemoryInv'
  BY StepMemoryInv
<1>4. QED BY <1>1, <1>2, <1>3, InitMemoryInv, InitShaped, PTL DEF Spec
-----------------------------------------------------------------------------
(* Promotions *)

CommitStep == [do |-> "commit"]
Commits(plan) == \E s \in Range(plan) : s.do = "commit"

\* The step k of a plan is its commit, the only one, and a step follows it.
CommitsAt(plan, k) ==
    /\ k \in 1..(Len(plan) - 1)
    /\ \A i \in 1..Len(plan) : plan[i].do = "commit" <=> i = k

RehearsalOf(view) == rows["rehearsals"][view.promoting]

\* What is to be committed is what was rehearsed, and the file is what it was
\* rehearsed against unless somebody has edited it.
AsRehearsed(view) ==
    /\ world.sandbox[view.promoting] = RehearsalOf(view).proposed
    /\ world.target = RehearsalOf(view).original \/ view.edited

\* Until the commit nothing is rehearsed, and the sandbox is read again.
Promoting(r, k) ==
    /\ CommitsAt(r.plan, k)
    /\ DOMAIN r.view = {"promoting", "contents", "edited"}
    /\ AsRehearsed(r.view)
    /\ \A s \in Range(r.plan) :
         /\ s.do # "copy"
         /\ s.do = "edit" => s.in # "rehearsals"
         /\ s.do = "reread" => s.branch = r.view.promoting
    /\ \/ \E i \in 1..(k - 1) : r.plan[i].do = "reread"
       \/ r.view.contents = <<RehearsalOf(r.view).proposed>>

PromotingProc(r) ==
    /\ IsPlan(r.plan)
    /\ Commits(r.plan) => \E k \in Nat : Promoting(r, k)

PromotionInv ==
    /\ DOMAIN rows = SandboxRegistries
    /\ DOMAIN world = {"target", "sandbox"}
    /\ Shaped
    /\ \A p \in Operators : PromotingProc(proc[p])
    /\ \A p \in Readers : Idle(p)

SandboxInv == family = "sandbox" => PromotionInv

LEMMA PlanLength ==
  ASSUME NEW s, IsPlan(s)
  PROVE  /\ Len(s) \in Nat /\ DOMAIN s = 1..Len(s)
         /\ \A i \in 1..Len(s) : s[i] \in Range(s)
         /\ s # <<>> => Len(s) \in Nat \ {0} /\ Head(s) = s[1]
BY EmptySeq, LenProperties, HeadTailProperties DEF IsPlan, Range

LEMMA JoinedAt ==
  ASSUME NEW s, NEW t, IsPlan(s), IsPlan(t)
  PROVE  /\ Len(s \o t) = Len(s) + Len(t)
         /\ \A i \in 1..Len(s) : (s \o t)[i] = s[i]
         /\ \A i \in 1..Len(t) : (s \o t)[Len(s) + i] = t[i]
BY PlanLength, ConcatProperties DEF IsPlan

LEMMA TailAt ==
  ASSUME NEW s, IsPlan(s), s # <<>>
  PROVE  /\ Len(Tail(s)) = Len(s) - 1
         /\ \A i \in 1..(Len(s) - 1) : Tail(s)[i] = s[i + 1]
BY HeadTailProperties DEF IsPlan

\* A plan whose commit has something before it and something after it.
LEMMA CommitsOnce ==
  ASSUME NEW a, NEW c, IsPlan(a), IsPlan(c), ~Commits(a), ~Commits(c), c # <<>>
  PROVE  CommitsAt(a \o <<CommitStep>> \o c, Len(a) + 1)
<1> DEFINE b == a \o <<CommitStep>>
           plan == b \o c
           k == Len(a) + 1
<1>1. IsPlan(<<CommitStep>>) /\ Len(<<CommitStep>>) = 1 /\ <<CommitStep>>[1] = CommitStep
  BY One
<1>2. IsPlan(b) /\ IsPlan(plan)
  BY <1>1, Joined
<1>3. /\ Len(a) \in Nat /\ Len(c) \in Nat \ {0}
      /\ \A i \in 1..Len(a) : a[i].do # "commit"
      /\ \A i \in 1..Len(c) : c[i].do # "commit"
  BY PlanLength DEF Commits
<1>4. Len(b) = k /\ b[k] = CommitStep /\ \A i \in 1..Len(a) : b[i] = a[i]
  BY <1>1, <1>3, JoinedAt
<1>5. Len(plan) = k + Len(c)
  BY <1>2, <1>4, JoinedAt
<1>6. ASSUME NEW i \in 1..Len(plan)
      PROVE  plan[i].do = "commit" <=> i = k
  <2>1. CASE i \in 1..Len(a)
    BY <1>2, <1>3, <1>4, <2>1, JoinedAt
  <2>2. CASE i = k
    BY <1>2, <1>3, <1>4, <2>2, JoinedAt DEF CommitStep
  <2>3. CASE i \in (k + 1)..Len(plan)
    BY <1>3, <1>5, <2>3, <1>2, <1>4, JoinedAt
  <2>4. QED BY <1>3, <1>5, <2>1, <2>2, <2>3
<1>7. QED BY <1>3, <1>5, <1>6 DEF CommitsAt

LEMMA OneLess == \A m \in Nat : \A n : n = m - 1 => n # m /\ (m >= 2 => n # 0)
OBVIOUS

\* The rest of a plan that commits.
LEMMA CommitsLater ==
  ASSUME NEW s, IsPlan(s), NEW k \in Nat, CommitsAt(s, k)
  PROVE  /\ s # <<>> /\ Tail(s) # <<>>
         /\ Head(s).do = "commit" <=> k = 1
         /\ k = 1 => ~Commits(Tail(s))
         /\ k > 1 => CommitsAt(Tail(s), k - 1)
<1>1. Len(s) \in Nat /\ Len(s) >= 2
  BY PlanLength DEF CommitsAt
<1>2. s # <<>> /\ IsPlan(Tail(s))
  BY <1>1, EmptySeq, Left
<1>3. Len(Tail(s)) = Len(s) - 1 /\ \A i \in 1..(Len(s) - 1) : Tail(s)[i] = s[i + 1]
  BY <1>2, TailAt
<1>4. Tail(s) # <<>>
  <2>1. Len(Tail(s)) # 0
    BY Zenon, <1>1, <1>3, OneLess
  <2>2. QED BY <1>2, <2>1, EmptySeq DEF IsPlan
<1>5. Head(s).do = "commit" <=> k = 1
  BY <1>1, <1>2, PlanLength DEF CommitsAt
<1>6. \A i \in 1..Len(Tail(s)) : Tail(s)[i].do = "commit" <=> i + 1 = k
  BY <1>1, <1>3 DEF CommitsAt
<1>7. ASSUME k = 1
      PROVE  ~Commits(Tail(s))
  BY <1>2, <1>6, <1>7, PlanLength DEF Commits, Range
<1>8. k > 1 => CommitsAt(Tail(s), k - 1)
  BY <1>1, <1>3, <1>6 DEF CommitsAt
<1>9. QED BY <1>2, <1>4, <1>5, <1>7, <1>8

\* The sandbox is read again before the commit.
Ordered(plan, k) == CommitsAt(plan, k) /\ \E i \in 1..(k - 1) : plan[i].do = "reread"

LEMMA OrderedOnce ==
  ASSUME NEW a, NEW c, IsPlan(a), IsPlan(c), ~Commits(a), ~Commits(c), c # <<>>,
         \E s \in Range(a) : s.do = "reread"
  PROVE  Ordered(a \o <<CommitStep>> \o c, Len(a) + 1)
<1> DEFINE b == a \o <<CommitStep>>
           plan == b \o c
<1>1. CommitsAt(plan, Len(a) + 1)
  BY CommitsOnce
<1>2. Len(a) \in Nat /\ DOMAIN a = 1..Len(a)
  BY PlanLength
<1>3. PICK i \in 1..Len(a) : a[i].do = "reread"
  BY <1>2 DEF Range
<1>4. IsPlan(<<CommitStep>>) /\ IsPlan(b)
  BY One, Joined
<1>5. Len(<<CommitStep>>) = 1
  OBVIOUS
<1>6. Len(b) = Len(a) + 1 /\ b[i] = a[i]
  BY <1>4, <1>5, JoinedAt
<1>7. plan[i] = a[i]
  BY <1>2, <1>4, <1>6, JoinedAt
<1>8. QED BY <1>1, <1>2, <1>3, <1>7 DEF Ordered

LEMMA OrderedMore ==
  ASSUME NEW s, NEW t, IsPlan(s), IsPlan(t), NEW k \in Nat, Ordered(s, k), ~Commits(t)
  PROVE  Ordered(s \o t, k)
<1>1. Len(s) \in Nat /\ Len(t) \in Nat
  BY PlanLength
<1>2. /\ Len(s \o t) = Len(s) + Len(t)
      /\ \A i \in 1..Len(s) : (s \o t)[i] = s[i]
      /\ \A i \in 1..Len(t) : (s \o t)[Len(s) + i] = t[i]
  BY JoinedAt
<1>3. \A i \in 1..Len(t) : t[i].do # "commit"
  BY PlanLength DEF Commits
<1>4. k \in 1..(Len(s) - 1) /\ \A i \in 1..Len(s) : s[i].do = "commit" <=> i = k
  BY DEF Ordered, CommitsAt
<1>5. ASSUME NEW i \in 1..Len(s \o t)
      PROVE  (s \o t)[i].do = "commit" <=> i = k
  <2>1. CASE i \in 1..Len(s)
    BY <1>2, <1>4, <2>1
  <2>2. CASE i > Len(s)
    BY <1>1, <1>2, <2>2, <1>3, <1>4
  <2>3. QED BY <1>1, <1>2, <2>1, <2>2
<1>6. \E i \in 1..(k - 1) : (s \o t)[i].do = "reread"
  BY <1>1, <1>2, <1>4 DEF Ordered
<1>7. QED BY <1>1, <1>2, <1>4, <1>5, <1>6 DEF Ordered, CommitsAt

\* Steps that neither rehearse nor commit.
PlainStep(s) ==
    /\ s.do \in {"artifact", "event", "edit", "verify"}
    /\ s.do = "edit" => s.in # "rehearsals"

PlainPlan(plan) == IsPlan(plan) /\ \A s \in Range(plan) : PlainStep(s)

LEMMA PlainJoined ==
  ASSUME NEW s, NEW t, PlainPlan(s), PlainPlan(t)
  PROVE  PlainPlan(s \o t)
BY Joined DEF PlainPlan

LEMMA PlainSteps ==
  ASSUME NEW run, NEW type, NEW path, NEW value, NEW status, NEW events
  PROVE  /\ PlainStep(RunEvent(run, type, path))
         /\ PlainStep(Artifact(path, value))
         /\ PlainStep(Manifest(run, status, events))
         /\ PlainStep([do |-> "verify"])
BY DEF PlainStep, RunEvent, Artifact, Manifest

LEMMA PlainUpsert ==
  ASSUME NEW name, NEW id, NEW row, name # "rehearsals"
  PROVE  PlainStep(Upsert(name, id, row))
BY DEF PlainStep, Upsert, UpsertAll

LEMMA PlainPrint ==
  ASSUME NEW path, NEW name, NEW id, NEW value, name # "rehearsals"
  PROVE  PlainPlan(PrintJson(path, name, id, value))
BY PlainSteps, PlainUpsert, Two DEF PrintJson, PlainPlan

LEMMA PlainManaged ==
  ASSUME NEW run, NEW type, NEW path, NEW before
  PROVE  PlainPlan(Managed(run, type, path, before)) /\ Managed(run, type, path, before) # <<>>
BY PlainSteps, Two DEF Managed, PlainPlan

LEMMA PlainCommitsNot ==
  ASSUME NEW plan, PlainPlan(plan)
  PROVE  IsPlan(plan) /\ ~Commits(plan)
BY DEF PlainPlan, PlainStep, Commits

\* The plan of approve-rehearsal.
LEMMA PromotePlan ==
  ASSUME NEW p, NEW id, Promote(p, id)
  PROVE  \E plan :
           /\ BeginWith(p, plan, [promoting |-> id, contents |-> <<>>, edited |-> FALSE])
           /\ IsPlan(plan)
           /\ \E k \in Nat : Ordered(plan, k)
           /\ \A s \in Range(plan) :
                PlainStep(s) \/ s = CommitStep \/ s = [do |-> "reread", branch |-> id]
<1> DEFINE run == NewRun
           approval == [branch |-> id, run |-> run]
           approved == [rows["branches"][id] EXCEPT !.status = "approved"]
           reread == [do |-> "reread", branch |-> id]
           created == <<Manifest(run, "running", <<>>)>> \o Managed(run, "run.started", <<>>, <<>>)
           decided == Managed(run, "policy.decided", <<>>, <<"run.started">>)
           before == created \o <<reread>> \o decided
           acted == Managed(run, "action.recorded", <<>>, PrepareEvents)
           verify == <<[do |-> "verify"]>>
           completed == Managed(run, "run.completed", <<>>, PromotionEvents)
           closed == <<Manifest(run, "completed", Append(PromotionEvents, "run.completed")),
                       Upsert("branches", id, approved)>>
           printed == PrintJson(<<"approve-rehearsal", id, id>>, "sandbox-approvals", id, approval)
           committed == before \o <<CommitStep>> \o acted
           plan == committed \o verify \o completed \o closed \o printed
<1>1. BeginWith(p, plan, [promoting |-> id, contents |-> <<>>, edited |-> FALSE])
  BY DEF Promote, CommitStep
<1>2. /\ PlainPlan(created) /\ PlainPlan(decided) /\ PlainPlan(acted) /\ PlainPlan(verify)
      /\ PlainPlan(completed) /\ PlainPlan(closed) /\ PlainPlan(printed) /\ acted # <<>>
  <2>1. PlainPlan(<<Manifest(run, "running", <<>>)>>) /\ PlainPlan(verify)
    BY PlainSteps, One DEF PlainPlan
  <2>2. PlainPlan(closed)
    BY PlainSteps, PlainUpsert, Two DEF PlainPlan
  <2>3. QED BY <2>1, <2>2, PlainManaged, PlainPrint, PlainJoined
<1>3. IsPlan(<<reread>>) /\ Range(<<reread>>) = {reread}
  BY One
<1>4. IsPlan(before) /\ Range(before) = Range(created) \cup {reread} \cup Range(decided)
  BY <1>2, <1>3, Joined DEF PlainPlan
<1>5. ~Commits(before) /\ \E s \in Range(before) : s.do = "reread"
  BY <1>2, <1>4, PlainCommitsNot DEF Commits
<1>6. Ordered(committed, Len(before) + 1) /\ Len(before) + 1 \in Nat
  <2>1. IsPlan(acted) /\ ~Commits(acted)
    BY <1>2, PlainCommitsNot
  <2>2. Ordered(committed, Len(before) + 1)
    BY <1>2, <1>4, <1>5, <2>1, OrderedOnce
  <2>3. Len(before) \in Nat
    BY <1>4, PlanLength
  <2>4. QED BY <2>2, <2>3
<1>7. IsPlan(<<CommitStep>>) /\ Range(<<CommitStep>>) = {CommitStep}
  BY One
<1>8. /\ IsPlan(committed)
      /\ Range(committed) = Range(before) \cup {CommitStep} \cup Range(acted)
  BY <1>2, <1>4, <1>7, Joined DEF PlainPlan
<1>9. /\ IsPlan(committed \o verify)
      /\ IsPlan(committed \o verify \o completed)
      /\ IsPlan(committed \o verify \o completed \o closed)
      /\ IsPlan(plan)
      /\ Range(plan) = Range(committed) \cup Range(verify) \cup Range(completed)
                       \cup Range(closed) \cup Range(printed)
  BY <1>2, <1>8, Joined DEF PlainPlan
<1>10. Ordered(plan, Len(before) + 1)
  BY <1>2, <1>6, <1>8, OrderedMore, PlainCommitsNot, <1>9
<1>11. \A s \in Range(plan) : PlainStep(s) \/ s = CommitStep \/ s = reread
  BY <1>2, <1>4, <1>8, <1>9 DEF PlainPlan
<1>12. QED BY <1>1, <1>6, <1>9, <1>10, <1>11

-----------------------------------------------------------------------------

\* What a promotion depends on.
SameFiles == UNCHANGED <<rows, world>>

LEMMA OnlyPromoter ==
  ASSUME OneOperator, PromotionInv, NEW p \in Operators, Shaped',
         DOMAIN rows' = DOMAIN rows, DOMAIN world' = DOMAIN world,
         PromotingProc(proc[p])', \A q \in Procs : q # p => proc'[q] = proc[q]
  PROVE  PromotionInv'
BY ReadersReport DEF OneOperator, PromotionInv, Idle

LEMMA BeginsPlain ==
  ASSUME OneOperator, PromotionInv, NEW p, NEW plan, NEW view, BeginWith(p, plan, view),
         IsPlan(plan), ~Commits(plan), Shaped'
  PROVE  PromotionInv'
<1>1. p \in Operators /\ SameFiles /\ DOMAIN proc = Procs
  BY DEF BeginWith, files, SameFiles, PromotionInv, Shaped
<1>2. proc'[p].plan = plan /\ \A q \in Procs : q # p => proc'[q] = proc[q]
  BY <1>1 DEF BeginWith, StartPlan, Procs
<1>3. PromotingProc(proc[p])'
  BY <1>2 DEF PromotingProc
<1>4. QED BY <1>1, <1>2, <1>3, OnlyPromoter DEF SameFiles

LEMMA PlainCommands ==
  ASSUME OneOperator, PromotionInv, NEW p, NEW id, TakeCheckpoint(p, id) \/ OpenBranch(p, id),
         Shaped'
  PROVE  PromotionInv'
BY BeginsPlain, PlainPrint, PlainCommitsNot DEF TakeCheckpoint, OpenBranch, Begin

LEMMA RehearseKeeps ==
  ASSUME OneOperator, PromotionInv, NEW p, NEW id, NEW proposed, Rehearse(p, id, proposed), Shaped'
  PROVE  PromotionInv'
<1> DEFINE copy == [do |-> "copy", branch |-> id, content |-> proposed]
           row == Rehearsal(id, world.target, proposed)
           printed == PrintJson(<<"rehearse", id, id>>, "rehearsals", id, row)
<1>1. IsPlan(<<copy>>) /\ Range(<<copy>>) = {copy}
  BY One
<1>2. IsPlan(printed) /\ \A s \in Range(printed) : s.do # "commit"
  BY Two DEF PrintJson, Artifact, Upsert, UpsertAll
<1>3. IsPlan(<<copy>> \o printed) /\ ~Commits(<<copy>> \o printed)
  BY <1>1, <1>2, Joined DEF Commits
<1>4. BeginWith(p, <<copy>> \o printed, Nothing)
  BY DEF Rehearse, Begin
<1>5. QED BY <1>3, <1>4, BeginsPlain

LEMMA PromoteKeeps ==
  ASSUME OneOperator, PromotionInv, NEW p, NEW id, Promote(p, id), Shaped'
  PROVE  PromotionInv'
<1> DEFINE view == [promoting |-> id, contents |-> <<>>, edited |-> FALSE]
<1>1. PICK plan :
        /\ BeginWith(p, plan, view)
        /\ IsPlan(plan)
        /\ \E k \in Nat : Ordered(plan, k)
        /\ \A s \in Range(plan) :
             PlainStep(s) \/ s = CommitStep \/ s = [do |-> "reread", branch |-> id]
  BY PromotePlan
<1>2. PICK k \in Nat : Ordered(plan, k)
  BY <1>1
<1>3. p \in Operators /\ SameFiles /\ DOMAIN proc = Procs
  BY <1>1 DEF BeginWith, files, SameFiles, PromotionInv, Shaped
<1>4. /\ proc'[p].plan = plan /\ proc'[p].view = view
      /\ \A q \in Procs : q # p => proc'[q] = proc[q]
  BY <1>1, <1>3 DEF BeginWith, StartPlan, Procs
<1>5. AsRehearsed(view)'
  BY <1>3 DEF Promote, MayPromote, AsRehearsed, RehearsalOf, SameFiles
<1>6. \A s \in Range(plan) :
        /\ s.do # "copy"
        /\ s.do = "edit" => s.in # "rehearsals"
        /\ s.do = "reread" => s.branch = id
  BY <1>1 DEF PlainStep, CommitStep
<1>7. Promoting(proc[p], k)'
  BY <1>2, <1>4, <1>5, <1>6 DEF Promoting, Ordered
<1>8. PromotingProc(proc[p])'
  BY <1>1, <1>4, <1>7 DEF PromotingProc
<1>9. QED BY <1>3, <1>4, <1>8, OnlyPromoter DEF SameFiles

\* A step that neither reads the sandbox again nor commits.
LEMMA TailPromotes ==
  ASSUME NEW p, PromotingProc(proc[p]), proc[p].plan # <<>>,
         Head(proc[p].plan).do \notin {"commit", "reread"},
         proc'[p].plan = Tail(proc[p].plan), proc'[p].view = proc[p].view,
         Commits(proc[p].plan) =>
           world' = world /\ rows'["rehearsals"] = rows["rehearsals"]
  PROVE  PromotingProc(proc[p])'
<1> DEFINE plan == proc[p].plan
           left == Tail(plan)
<1>1. IsPlan(plan) /\ IsPlan(left) /\ Range(left) \subseteq Range(plan)
  BY Left DEF PromotingProc
<1>2. SUFFICES ASSUME Commits(left)
               PROVE  \E k \in Nat : Promoting(proc[p], k)'
  BY <1>1 DEF PromotingProc
<1>3. Commits(plan)
  BY <1>1, <1>2 DEF Commits
<1>4. PICK k \in Nat : Promoting(proc[p], k)
  BY <1>3 DEF PromotingProc
<1>5. CommitsAt(plan, k) /\ k # 1
  <2>1. CommitsAt(plan, k)
    BY <1>4 DEF Promoting
  <2>2. QED BY <1>1, <2>1, CommitsLater
<1>6. k > 1 /\ k - 1 \in Nat /\ k - 1 \in 1..(Len(plan) - 1)
  BY <1>1, <1>5, PlanLength DEF CommitsAt
<1>7. CommitsAt(left, k - 1)
  BY <1>1, <1>5, <1>6, CommitsLater
<1>8. ASSUME NEW i \in 1..(k - 1), plan[i].do = "reread"
      PROVE  \E j \in 1..((k - 1) - 1) : left[j].do = "reread"
  <2>1. i # 1
    BY <1>1, <1>8, PlanLength
  <2>2. i - 1 \in 1..((k - 1) - 1) /\ i - 1 \in 1..(Len(plan) - 1)
    BY <1>1, <1>6, <2>1, PlanLength
  <2>3. left[i - 1] = plan[i]
    BY <1>1, <2>2, TailAt
  <2>4. QED BY <1>8, <2>2, <2>3
<1>9. rows'["rehearsals"] = rows["rehearsals"] /\ world' = world
  BY <1>3
<1>10. AsRehearsed(proc[p].view)' /\ RehearsalOf(proc[p].view)' = RehearsalOf(proc[p].view)
  BY <1>4, <1>9 DEF Promoting, AsRehearsed, RehearsalOf
<1>11. Promoting(proc[p], k - 1)'
  BY <1>1, <1>4, <1>7, <1>8, <1>10 DEF Promoting
<1>12. QED BY <1>6, <1>11

LEMMA AdvanceProc ==
  ASSUME PromotionInv, NEW p \in Procs, Advance(p)
  PROVE  /\ proc'[p].plan = Tail(proc[p].plan) /\ proc'[p].view = proc[p].view
         /\ \A q \in Procs : q # p => proc'[q] = proc[q]
BY DEF PromotionInv, Shaped, Advance, ProcFields

LEMMA BusyPromoter ==
  ASSUME PromotionInv, NEW p \in Procs, ~Idle(p)
  PROVE  /\ p \in Operators /\ PromotingProc(proc[p])
         /\ proc[p].plan # <<>> /\ Head(proc[p].plan) \in Range(proc[p].plan)
BY Left DEF PromotionInv, Procs, Idle, PromotingProc

LEMMA WritePromotes ==
  ASSUME OneOperator, PromotionInv, NEW p \in Procs, Write(p), Shaped'
  PROVE  PromotionInv'
<1> DEFINE s == Head(proc[p].plan)
<1>1. ~Idle(p) /\ s.do \in {"artifact", "event", "edit"} /\ world' = world
  BY DEF Write, StoreArtifact, AppendEvent, ReadTable, WriteTable, AtStep, files
<1>2. p \in Operators /\ PromotingProc(proc[p]) /\ proc[p].plan # <<>> /\ s \in Range(proc[p].plan)
  BY <1>1, BusyPromoter
<1>3. DOMAIN rows' = DOMAIN rows
  BY DEF Write, StoreArtifact, AppendEvent, ReadTable, WriteTable, files
<1>4. Commits(proc[p].plan) /\ s.do = "edit" => s.in # "rehearsals"
  BY <1>2 DEF PromotingProc, Promoting
<1>5. Commits(proc[p].plan) => rows'["rehearsals"] = rows["rehearsals"]
  <2>1. CASE StoreArtifact(p) \/ AppendEvent(p) \/ ReadTable(p)
    BY <2>1 DEF StoreArtifact, AppendEvent, ReadTable, files
  <2>2. CASE WriteTable(p)
    BY <1>4, <2>2 DEF WriteTable, AtStep, PromotionInv, SandboxRegistries
  <2>3. QED BY <2>1, <2>2 DEF Write
<1>6. CASE StoreArtifact(p) \/ AppendEvent(p) \/ WriteTable(p)
  <2>1. Advance(p)
    BY <1>6 DEF StoreArtifact, AppendEvent, WriteTable
  <2>2. PromotingProc(proc[p])'
    BY <1>1, <1>2, <1>5, <2>1, AdvanceProc, TailPromotes
  <2>3. QED BY <1>1, <1>2, <1>3, <2>1, <2>2, AdvanceProc, OnlyPromoter
<1>7. CASE ReadTable(p)
  <2>1. DOMAIN proc = Procs /\ DOMAIN proc[p] = ProcFields
    BY DEF PromotionInv, Shaped
  <2>2. /\ proc'[p].plan = proc[p].plan /\ proc'[p].view = proc[p].view /\ rows' = rows
        /\ \A q \in Procs : q # p => proc'[q] = proc[q]
    BY <1>7, <2>1 DEF ReadTable, ProcFields, files
  <2>3. PromotingProc(proc[p])'
    BY <1>1, <1>2, <2>2 DEF PromotingProc, Promoting, AsRehearsed, RehearsalOf
  <2>4. QED BY <1>1, <1>2, <1>3, <2>2, <2>3, OnlyPromoter
<1>8. QED BY <1>6, <1>7 DEF Write

LEMMA CutPromotes ==
  ASSUME OneOperator, PromotionInv, NEW p \in Procs, ~Idle(p), CutShort(p), SameFiles, Shaped'
  PROVE  PromotionInv'
<1>1. p \in Operators /\ DOMAIN proc = Procs
  BY BusyPromoter DEF PromotionInv, Shaped
<1>2. proc'[p].plan = <<>> /\ \A q \in Procs : q # p => proc'[q] = proc[q]
  BY <1>1 DEF CutShort, IdleProc
<1>3. PromotingProc(proc[p])'
  BY <1>2, None DEF PromotingProc, Commits
<1>4. QED BY <1>1, <1>2, <1>3, OnlyPromoter DEF SameFiles

LEMMA CopyKeeps ==
  ASSUME OneOperator, PromotionInv, NEW p \in Procs, CopyToSandbox(p), Shaped'
  PROVE  PromotionInv'
<1> DEFINE s == Head(proc[p].plan)
<1>1. ~Idle(p) /\ s.do = "copy" /\ Advance(p) /\ rows' = rows
  BY DEF CopyToSandbox, AtStep
<1>2. DOMAIN world' = DOMAIN world
  BY DEF CopyToSandbox
<1>3. p \in Operators /\ PromotingProc(proc[p]) /\ proc[p].plan # <<>> /\ s \in Range(proc[p].plan)
  BY <1>1, BusyPromoter
<1>4. ~Commits(proc[p].plan)
  BY <1>1, <1>3 DEF PromotingProc, Promoting
<1>5. PromotingProc(proc[p])'
  BY <1>1, <1>3, <1>4, AdvanceProc, TailPromotes
<1>6. QED BY <1>1, <1>2, <1>3, <1>5, AdvanceProc, OnlyPromoter

LEMMA RereadKeeps ==
  ASSUME OneOperator, PromotionInv, NEW p \in Procs, RereadSandbox(p), Shaped'
  PROVE  PromotionInv'
<1> DEFINE plan == proc[p].plan
           left == Tail(plan)
           s == Head(plan)
<1>1. ~Idle(p) /\ s.do = "reread" /\ SameFiles
  BY DEF RereadSandbox, AtStep, files, SameFiles
<1>2. /\ p \in Operators /\ PromotingProc(proc[p]) /\ plan # <<>> /\ s \in Range(plan)
      /\ DOMAIN proc = Procs /\ DOMAIN proc[p] = ProcFields
  BY <1>1, BusyPromoter DEF PromotionInv, Shaped
<1>3. /\ proc'[p].plan = left
      /\ proc'[p].view = [proc[p].view EXCEPT !.contents = <<world.sandbox[s.branch]>>]
      /\ \A q \in Procs : q # p => proc'[q] = proc[q]
  BY <1>2 DEF RereadSandbox, ProcFields
<1>4. IsPlan(plan) /\ IsPlan(left) /\ Range(left) \subseteq Range(plan)
  BY <1>2, Left DEF PromotingProc
<1>5. ASSUME Commits(left)
      PROVE  \E k \in Nat : Promoting(proc[p], k)'
  <2>1. PICK k \in Nat : Promoting(proc[p], k)
    BY <1>2, <1>4, <1>5 DEF PromotingProc, Commits
  <2>2. CommitsAt(plan, k) /\ k # 1
    <3>1. CommitsAt(plan, k)
      BY <2>1 DEF Promoting
    <3>2. QED BY <1>1, <1>4, <3>1, CommitsLater
  <2>3. k > 1 /\ k - 1 \in Nat
    BY <2>2 DEF CommitsAt
  <2>4. CommitsAt(left, k - 1)
    BY <1>4, <2>2, <2>3, CommitsLater
  <2>5. s.branch = proc[p].view.promoting /\ DOMAIN proc[p].view = {"promoting", "contents", "edited"}
    BY <1>1, <1>2, <2>1 DEF Promoting
  <2>6. /\ proc'[p].view.promoting = proc[p].view.promoting
        /\ proc'[p].view.edited = proc[p].view.edited
        /\ proc'[p].view.contents = <<world.sandbox[s.branch]>>
        /\ DOMAIN proc'[p].view = {"promoting", "contents", "edited"}
    BY <1>3, <2>5
  <2>7. AsRehearsed(proc[p].view)' /\ AsRehearsed(proc[p].view)
    BY <1>1, <2>1, <2>6 DEF Promoting, AsRehearsed, RehearsalOf, SameFiles
  <2>8. (proc[p].view.contents = <<RehearsalOf(proc[p].view).proposed>>)'
    BY <1>1, <2>5, <2>6, <2>7 DEF AsRehearsed, RehearsalOf, SameFiles
  <2>9. \A step \in Range(plan) :
          /\ step.do # "copy"
          /\ step.do = "edit" => step.in # "rehearsals"
          /\ step.do = "reread" => step.branch = proc[p].view.promoting
    BY <2>1 DEF Promoting
  <2>10. ASSUME NEW step \in Range(left)
         PROVE  /\ step.do # "copy"
                /\ step.do = "edit" => step.in # "rehearsals"
                /\ step.do = "reread" => step.branch = proc'[p].view.promoting
    <3>1. step \in Range(plan)
      BY <1>4
    <3>2. proc'[p].view.promoting = proc[p].view.promoting
      BY Zenon, <2>6
    <3>3. QED BY <2>9, <3>1, <3>2
  <2>11. Promoting(proc[p], k - 1)'
    BY <1>3, <2>4, <2>6, <2>7, <2>8, <2>10 DEF Promoting
  <2>12. QED BY <2>3, <2>11
<1>6. PromotingProc(proc[p])'
  BY <1>3, <1>4, <1>5 DEF PromotingProc
<1>7. QED BY <1>1, <1>2, <1>3, <1>6, OnlyPromoter DEF SameFiles

LEMMA CommitKeeps ==
  ASSUME OneOperator, PromotionInv, NEW p \in Procs, CommitPromotion(p), Shaped'
  PROVE  PromotionInv'
<1> DEFINE plan == proc[p].plan
<1>1. ~Idle(p) /\ Head(plan).do = "commit" /\ Advance(p) /\ rows' = rows
  BY DEF CommitPromotion, AtStep
<1>2. DOMAIN world' = DOMAIN world
  BY DEF CommitPromotion
<1>3. p \in Operators /\ PromotingProc(proc[p]) /\ plan # <<>> /\ Head(plan) \in Range(plan)
  BY <1>1, BusyPromoter
<1>4. PICK k \in Nat : Promoting(proc[p], k)
  BY <1>1, <1>3 DEF PromotingProc, Commits
<1>5. IsPlan(plan) /\ CommitsAt(plan, k)
  BY <1>3, <1>4 DEF PromotingProc, Promoting
<1>6. ~Commits(Tail(plan)) /\ IsPlan(Tail(plan))
  BY <1>1, <1>3, <1>5, CommitsLater, Left
<1>7. PromotingProc(proc[p])'
  BY <1>1, <1>6, AdvanceProc DEF PromotingProc
<1>8. QED BY <1>1, <1>2, <1>3, <1>7, AdvanceProc, OnlyPromoter

LEMMA VerifyKeeps ==
  ASSUME OneOperator, PromotionInv, NEW p \in Procs, VerifyPromotion(p), Shaped'
  PROVE  PromotionInv'
<1>1. ~Idle(p) /\ Head(proc[p].plan).do = "verify" /\ SameFiles
  BY DEF VerifyPromotion, AtStep, files, SameFiles
<1>2. CASE CutShort(p)
  BY <1>1, <1>2, CutPromotes
<1>3. CASE Advance(p)
  BY <1>1, <1>3, BusyPromoter, AdvanceProc, TailPromotes, OnlyPromoter DEF SameFiles
<1>4. QED BY <1>2, <1>3 DEF VerifyPromotion

LEMMA EditKeeps ==
  ASSUME PromotionInv, NEW p, NEW content, EditTarget(p, content), Shaped'
  PROVE  PromotionInv'
<1>1. world' = [world EXCEPT !.target = content] /\ rows' = rows
  BY DEF EditTarget, Outside
<1>2. world'.sandbox = world.sandbox /\ DOMAIN world' = DOMAIN world
  BY <1>1 DEF PromotionInv
<1>3. \A q \in Procs : proc'[q].plan = proc[q].plan
  BY DEF EditTarget, PromotionInv, Shaped, ProcFields
<1>4. ASSUME NEW q \in Operators
      PROVE  PromotingProc(proc[q])'
  <2>1. PromotingProc(proc[q]) /\ q \in Procs
    BY DEF PromotionInv, Procs
  <2>2. SUFFICES ASSUME Commits(proc[q].plan) PROVE \E k \in Nat : Promoting(proc[q], k)'
    BY <1>3, <2>1 DEF PromotingProc
  <2>3. PICK k \in Nat : Promoting(proc[q], k)
    BY <2>1, <2>2 DEF PromotingProc
  <2>4. DOMAIN proc[q].view = {"promoting", "contents", "edited"}
    BY <2>3 DEF Promoting
  <2>5. proc'[q].view = [proc[q].view EXCEPT !.edited = TRUE]
    BY <2>1, <2>4 DEF EditTarget, PromotionInv, Shaped, ProcFields
  <2>6. /\ proc'[q].view.promoting = proc[q].view.promoting
        /\ proc'[q].view.contents = proc[q].view.contents
        /\ proc'[q].view.edited
        /\ DOMAIN proc'[q].view = {"promoting", "contents", "edited"}
    BY <2>4, <2>5
  <2>7. AsRehearsed(proc[q].view)'
    BY <1>1, <1>2, <2>3, <2>6 DEF Promoting, AsRehearsed, RehearsalOf
  <2>8. Promoting(proc[q], k)'
    BY <1>1, <1>3, <2>1, <2>3, <2>6, <2>7 DEF Promoting, RehearsalOf
  <2>9. QED BY <2>8
<1>5. \A q \in Readers : Idle(q)'
  BY <1>3, ReadersReport DEF PromotionInv, Idle
<1>6. QED BY <1>1, <1>2, <1>4, <1>5 DEF PromotionInv

LEMMA InitSandboxInv == Init => SandboxInv
<1> SUFFICES ASSUME Init, family = "sandbox" PROVE PromotionInv
  BY DEF SandboxInv
<1>1. PICK s \in SandboxStarts : rows = s.rows /\ world = s.world
  BY DEF Init, Starts
<1> DEFINE Fine(t) == /\ DOMAIN t = {"rows", "artifacts", "log", "world"}
                      /\ DOMAIN t.rows = SandboxRegistries
                      /\ DOMAIN t.world = {"target", "sandbox"}
<1>2. Fine(EmptySandbox)
  BY DEF EmptySandbox
<1>3. \A table : Fine([OpenedSandbox EXCEPT !.world.sandbox = table])
  BY DEF OpenedSandbox, EmptySandbox
<1>4. \A t, plan : Fine(t) => Fine(CarriedOut(t, plan))
  BY DEF CarriedOut
<1> HIDE DEF Fine
<1>5. Fine(s)
  BY <1>1, <1>2, <1>3, <1>4 DEF SandboxStarts
<1>6. \A p \in Procs : proc[p] = IdleProc
  BY DEF Init
<1>7. PromotingProc(IdleProc)
  BY None DEF PromotingProc, IdleProc, Commits
<1>8. \A p \in Procs : Idle(p)
  BY <1>6 DEF Idle, IdleProc
<1>9. QED BY <1>1, <1>5, <1>6, <1>7, <1>8, InitShaped DEF PromotionInv, Procs, Fine

LEMMA StepSandboxInv == OneOperator /\ SandboxInv /\ [Next]_govVars => SandboxInv'
<1> SUFFICES ASSUME OneOperator, SandboxInv, [Next]_govVars, family' = "sandbox"
             PROVE  PromotionInv'
  BY DEF SandboxInv
<1>1. family = "sandbox" /\ PromotionInv /\ Shaped'
  BY NextMoves DEF Moves, SandboxInv, PromotionInv
<1>2. CASE UNCHANGED govVars
  BY <1>1, <1>2
  DEF govVars, files, PromotionInv, Shaped, PromotingProc, Promoting, AsRehearsed, RehearsalOf, Idle
<1>3. CASE Next
  <2>1. PICK p \in Procs : FamilyStep(p) \/ Write(p) \/ Kill(p)
    BY <1>3 DEF Next
  <2>2. CASE Write(p)
    BY <1>1, <2>1, <2>2, WritePromotes
  <2>3. CASE Kill(p)
    BY <1>1, <2>1, <2>3, CutPromotes DEF Kill, files, SameFiles
  <2>4. CASE FamilyStep(p)
    <3>1. SandboxStep(p)
      BY <1>1, <2>4 DEF FamilyStep
    <3>2. ASSUME NEW id, TakeCheckpoint(p, id) \/ OpenBranch(p, id) \/ Promote(p, id)
          PROVE  PromotionInv'
      BY <1>1, <3>2, PlainCommands, PromoteKeeps
    <3>3. ASSUME NEW id, NEW content, Rehearse(p, id, content)
          PROVE  PromotionInv'
      BY <1>1, <3>3, RehearseKeeps
    <3>4. ASSUME NEW content, EditTarget(p, content)
          PROVE  PromotionInv'
      BY <1>1, <3>4, EditKeeps
    <3>5. CASE CopyToSandbox(p) \/ RereadSandbox(p) \/ CommitPromotion(p) \/ VerifyPromotion(p)
      BY <1>1, <2>1, <3>5, CopyKeeps, RereadKeeps, CommitKeeps, VerifyKeeps
    <3>6. QED BY <3>1, <3>2, <3>3, <3>4, <3>5 DEF SandboxStep
  <2>5. QED BY <2>1, <2>2, <2>3, <2>4
<1>4. QED BY <1>2, <1>3

-----------------------------------------------------------------------------

LEMMA CommitOnly ==
  ASSUME OneOperator, PromotionInv, family = "sandbox", [Next]_govVars,
         NEW p \in Operators, AtStep(p, "commit"), proc'[p].plan = Tail(proc[p].plan)
  PROVE  CommitPromotion(p)
<1> DEFINE plan == proc[p].plan
<1>1. PromotingProc(proc[p]) /\ plan # <<>> /\ Head(plan) \in Range(plan) /\ p \in Procs
      /\ Head(plan).do = "commit"
  BY BusyPromoter DEF AtStep, Procs
<1>2. PICK k \in Nat : CommitsAt(plan, k)
  BY <1>1 DEF PromotingProc, Promoting, Commits
<1>3. Tail(plan) # <<>> /\ Tail(plan) # plan
  <2>1. IsPlan(plan)
    BY <1>1 DEF PromotingProc
  <2>2. Len(Tail(plan)) = Len(plan) - 1 /\ Len(plan) \in Nat
    BY <1>1, <2>1, TailAt, PlanLength
  <2>3. Tail(plan) # plan
    BY Zenon, <2>2, OneLess
  <2>4. QED BY <1>2, <2>1, <2>3, CommitsLater
<1>4. proc'[p].plan # proc[p].plan /\ ~Idle(p) /\ proc'[p].plan # <<>>
  BY <1>3 DEF AtStep
<1>5. Next
  BY <1>4 DEF govVars
<1>6. PICK q \in Procs : FamilyStep(q) \/ Write(q) \/ Kill(q)
  BY <1>5 DEF Next
<1>7. DOMAIN proc = Procs /\ DOMAIN proc[p] = ProcFields
  BY <1>1 DEF PromotionInv, Shaped
<1>8. ASSUME NEW content, EditTarget(q, content)
      PROVE  FALSE
  <2>1. proc'[p].plan = proc[p].plan
    BY <1>1, <1>7, <1>8 DEF EditTarget, ProcFields
  <2>2. QED BY <1>4, <2>1
<1>9. q \in Operators => q = p
  BY DEF OneOperator
<1>10. ~Write(q)
  <2>1. SUFFICES ASSUME Write(q) PROVE FALSE
    OBVIOUS
  <2>2. ~Idle(q) /\ Head(proc[q].plan).do \in {"artifact", "event", "edit"}
    BY <2>1 DEF Write, StoreArtifact, AppendEvent, ReadTable, WriteTable, AtStep
  <2>3. q = p
    BY <1>9, <2>2, BusyPromoter
  <2>4. QED BY <1>1, <2>2, <2>3
<1>11. ~Kill(q)
  <2>1. SUFFICES ASSUME Kill(q) PROVE FALSE
    OBVIOUS
  <2>2. q = p /\ DOMAIN proc = Procs
    BY <1>9, <2>1 DEF Kill, PromotionInv, Shaped
  <2>3. proc'[p].plan = <<>>
    BY <1>1, <2>1, <2>2 DEF Kill, CutShort, IdleProc
  <2>4. QED BY <1>4, <2>3
<1>12. \A a, view : ~BeginWith(q, a, view)
  BY <1>4, <1>9 DEF BeginWith
<1>13. SandboxStep(q)
  BY <1>6, <1>10, <1>11 DEF FamilyStep
<1>14. CopyToSandbox(q) \/ RereadSandbox(q) \/ CommitPromotion(q) \/ VerifyPromotion(q)
  BY <1>8, <1>12, <1>13
  DEF SandboxStep, TakeCheckpoint, OpenBranch, Promote, Rehearse, Begin
<1>15. q = p
  BY <1>9, <1>14, BusyPromoter
  DEF CopyToSandbox, RereadSandbox, CommitPromotion, VerifyPromotion, AtStep
<1>16. QED
  BY <1>1, <1>14, <1>15 DEF CopyToSandbox, RereadSandbox, VerifyPromotion, AtStep

LEMMA CommitAsRehearsed ==
  ASSUME PromotionInv, NEW p \in Operators, CommitPromotion(p)
  PROVE  /\ world'.target = RehearsalOf(proc[p].view).proposed
         /\ world.target = RehearsalOf(proc[p].view).original \/ proc[p].view.edited
<1> DEFINE plan == proc[p].plan
<1>1. ~Idle(p) /\ Head(plan).do = "commit" /\ world'.target = proc[p].view.contents[1]
  BY DEF CommitPromotion, AtStep, PromotionInv
<1>2. PromotingProc(proc[p]) /\ plan # <<>> /\ Head(plan) \in Range(plan)
  BY <1>1, BusyPromoter DEF Procs
<1>3. PICK k \in Nat : Promoting(proc[p], k)
  BY <1>1, <1>2 DEF PromotingProc, Commits
<1>4. k = 1
  BY <1>2, <1>3, <1>1, CommitsLater DEF PromotingProc, Promoting
<1>5. proc[p].view.contents = <<RehearsalOf(proc[p].view).proposed>>
  BY <1>3, <1>4 DEF Promoting
<1>6. QED BY <1>1, <1>3, <1>5 DEF Promoting, AsRehearsed

\* With one operator a promotion commits the content that was rehearsed, and
\* replaces the content it was rehearsed against unless the file is edited
\* meanwhile: for every number of checkpoints, contents, edits and kills
\* (assertSandboxPromotionEvidence and runApproveRehearsal in
\* packages/tui/src/cli.ts).  Only histories of this family have a commit step.
THEOREM PromotionsAsRehearsed ==
  ASSUME OneOperator
  PROVE  Spec /\ family = "sandbox" => PromotionAsRehearsed
<1> DEFINE Here == family = "sandbox"
<1>1. Here /\ [Next]_govVars => Here'
  BY NextMoves DEF Moves
<1>2. SandboxInv /\ [Next]_govVars => SandboxInv'
  BY StepSandboxInv
<1>3. ASSUME Here, SandboxInv, [Next]_govVars
      PROVE  [\A p \in Operators : AtStep(p, "commit") /\ proc'[p].plan = Tail(proc[p].plan) =>
                LET rehearsal == rows["rehearsals"][proc[p].view.promoting]
                IN /\ world'.target = rehearsal.proposed
                   /\ world.target = rehearsal.original \/ proc[p].view.edited]_govVars
  BY <1>3, CommitOnly, CommitAsRehearsed DEF SandboxInv, RehearsalOf
<1>4. QED
  BY <1>1, <1>2, <1>3, InitSandboxInv, PTL DEF Spec, PromotionAsRehearsed

-----------------------------------------------------------------------------
(* Prompts: requests and their answers *)

RequestPath(id) == AgentPath("model-request", id)
ResponsePath(id) == AgentPath("model-response", id)
AuditPath(id) == AgentPath("response-audit", id)

\* Steps that write an artifact of a kind, and steps that tell an event of a type.
Files(s, kind) == s.do = "artifact" /\ s.at[1] = "agent" /\ s.at[2] = kind
Tells(s, type) == s.do = "event" /\ s.entry.type = type
Answering(s) == Tells(s, "agent.model.responded")
Audits(s) == Tells(s, "agent.response.audit.recorded")

\* A request is written before its answer, the answer is told before its audit is.
Stage(s) ==
    IF Files(s, "model-request") THEN 1
    ELSE IF Files(s, "model-response") THEN 2
    ELSE IF Answering(s) THEN 3
    ELSE IF Audits(s) THEN 4
    ELSE 0
Goes(s, t) == Stage(s) = 0 \/ Stage(t) = 0 \/ Stage(s) < Stage(t)
InOrder(plan) == \A i, j \in 1..Len(plan) : i < j => Goes(plan[i], plan[j])

\* The requests on record, with their prompts.
Requests ==
    {<<path, artifacts[path]>> :
       path \in {q \in DOMAIN artifacts : q[1] = "agent" /\ q[2] = "model-request"}}

\* An artifact and an event, while n commands have begun.
FileOk(path, value, n) ==
    path[1] = "agent" =>
      /\ path = AgentPath(path[2], path[3])
      /\ path[2] = "model-request" => path[3][2] \in 0..n
      /\ path[2] = "response-audit" => value.status = Verdict(value.answer)
EventOk(e, n) == e.type = "agent.model.responded" => e.ref[3][2] \in 0..n

\* An answer is to a request on record or in the plan, and its audit is told later.
StepOk(plan, ids, s, n, asked) ==
    /\ s.do = "artifact" => FileOk(s.at, s.value, n)
    /\ s.do = "event" => EventOk(s.entry, n)
    /\ Files(s, "model-response") =>
         /\ \E t \in Range(plan) : Audits(t) /\ t.entry.ref = AuditPath(s.at[3])
         /\ \/ <<RequestPath(s.at[3]), s.value.prompt>> \in asked
            \/ Artifact(RequestPath(s.at[3]), s.value.prompt) \in Range(plan)
    /\ Audits(s) => ResponsePath(s.entry.ref[3]) \in ids

PlanOk(plan, ids, n, asked) ==
    /\ IsPlan(plan)
    /\ InOrder(plan)
    /\ \A s \in Range(plan) : StepOk(plan, ids, s, n, asked)

\* An operator asks what is not asked yet, and answers what no operator has.
OperatorOk(s) ==
    /\ Files(s, "model-request") => s.at \notin DOMAIN artifacts
    /\ Answering(s) =>
         \A i \in EventsFor("agent.model.responded", s.entry.ref) : log[i].run[1] = "elsewhere"

\* The second terminal only answers.
ReaderOk(s) ==
    /\ s.do # "assemble"
    /\ ~Files(s, "model-request")
    /\ ~Files(s, "tool-request-proposal")
    /\ Answering(s) => s.entry.run[1] = "elsewhere"

AnsweredOnce ==
    \A i, j \in DOMAIN log :
      /\ i < j
      /\ log[i].type = "agent.model.responded"
      /\ log[j].type = "agent.model.responded"
      /\ log[i].ref = log[j].ref
      => "elsewhere" \in {log[i].run[1], log[j].run[1]}

PlansOk ==
    /\ \A q \in Procs : PlanOk(proc[q].plan, proc[q].ids, begun, Requests)
    /\ \A q \in Operators : \A s \in Range(proc[q].plan) : OperatorOk(s)
    /\ \A q \in Readers : \A s \in Range(proc[q].plan) : ReaderOk(s)

FilesOk ==
    /\ \A path \in DOMAIN artifacts : FileOk(path, artifacts[path], begun)
    /\ \A path \in DOMAIN artifacts :
         path[1] = "agent" /\ path[2] = "model-response" =>
           <<RequestPath(path[3]), artifacts[path].prompt>> \in Requests

LogOk ==
    /\ IsPlan(log)
    /\ \A i \in DOMAIN log : EventOk(log[i], begun)
    /\ AnsweredOnce

AnswerInv == begun \in Nat /\ Shaped /\ PlansOk /\ FilesOk /\ LogOk
PromptInv == family \in PromptFamilies => AnswerInv

LEMMA KindsOfPaths ==
  ASSUME NEW kind, NEW id
  PROVE  /\ AgentPath(kind, id)[1] = "agent"
         /\ AgentPath(kind, id)[2] = kind
         /\ AgentPath(kind, id)[3] = id
BY DEF AgentPath

LEMMA StagesOfSteps ==
  ASSUME NEW kind, NEW id, NEW value, NEW run, NEW type, NEW path, NEW status, NEW events
  PROVE  /\ Stage(Artifact(AgentPath(kind, id), value)) =
              IF kind = "model-request" THEN 1 ELSE IF kind = "model-response" THEN 2 ELSE 0
         /\ Stage(RunEvent(run, type, path)) =
              IF type = "agent.model.responded" THEN 3
              ELSE IF type = "agent.response.audit.recorded" THEN 4 ELSE 0
         /\ Stage(Manifest(run, status, events)) = 0
BY DEF AgentPath, Artifact, RunEvent, Manifest, Stage, Files, Tells, Answering, Audits

LEMMA UnstagedInOrder ==
  ASSUME NEW plan, IsPlan(plan), \A s \in Range(plan) : Stage(s) = 0
  PROVE  InOrder(plan)
BY PlanLength DEF InOrder, Goes

LEMMA OneInOrder ==
  ASSUME NEW s
  PROVE  InOrder(<<s>>)
<1>1. Len(<<s>>) = 1
  OBVIOUS
<1>2. QED BY <1>1 DEF InOrder

LEMMA JoinedInOrder ==
  ASSUME NEW a, NEW b, IsPlan(a), IsPlan(b), InOrder(a), InOrder(b),
         \A s \in Range(a), t \in Range(b) : Goes(s, t)
  PROVE  InOrder(a \o b)
<1>1. Len(a) \in Nat /\ Len(b) \in Nat
  BY PlanLength
<1>2. /\ Len(a \o b) = Len(a) + Len(b)
      /\ \A i \in 1..Len(a) : (a \o b)[i] = a[i]
      /\ \A i \in 1..Len(b) : (a \o b)[Len(a) + i] = b[i]
  BY JoinedAt
<1> SUFFICES ASSUME NEW i \in 1..Len(a \o b), NEW j \in 1..Len(a \o b), i < j
             PROVE  Goes((a \o b)[i], (a \o b)[j])
  BY DEF InOrder
<1>3. ASSUME j <= Len(a)
      PROVE  Goes((a \o b)[i], (a \o b)[j])
  BY <1>1, <1>3, <1>2 DEF InOrder
<1>4. ASSUME NEW k \in Nat, k > Len(a), k <= Len(a \o b)
      PROVE  k - Len(a) \in 1..Len(b) /\ (a \o b)[k] = b[k - Len(a)]
  BY <1>1, <1>2, <1>4
<1>5. ASSUME i <= Len(a), j > Len(a)
      PROVE  Goes((a \o b)[i], (a \o b)[j])
  BY <1>1, <1>2, <1>5, PlanLength, <1>4
<1>6. ASSUME i > Len(a)
      PROVE  Goes((a \o b)[i], (a \o b)[j])
  BY <1>1, <1>2, <1>6, <1>4 DEF InOrder
<1>7. QED BY <1>1, <1>2, <1>3, <1>5, <1>6

LEMMA TailInOrder ==
  ASSUME NEW s, IsPlan(s), s # <<>>, InOrder(s)
  PROVE  /\ InOrder(Tail(s))
         /\ \A t \in Range(Tail(s)) : Goes(Head(s), t)
<1> DEFINE n == Len(s)
           left == Tail(s)
<1>1. n \in Nat /\ n >= 1 /\ Head(s) = s[1] /\ IsPlan(left)
  BY PlanLength, Left
<1>2. Len(left) = n - 1 /\ \A i \in 1..(n - 1) : left[i] = s[i + 1]
  BY TailAt
<1>3. \A i, j \in 1..n : i < j => Goes(s[i], s[j])
  BY DEF InOrder
<1> HIDE DEF n, left
<1>4. ASSUME NEW i \in 1..(n - 1)
      PROVE  i + 1 \in 1..n /\ left[i] = s[i + 1] /\ i \in Nat
  BY <1>1, <1>2
<1>5. InOrder(left)
  BY <1>1, <1>2, <1>3, <1>4 DEF InOrder
<1>6. ASSUME NEW t \in Range(left)
      PROVE  Goes(Head(s), t)
  <2>1. DOMAIN left = 1..(n - 1)
    BY <1>1, <1>2, PlanLength
  <2>2. PICK i \in 1..(n - 1) : t = left[i]
    BY <2>1 DEF Range
  <2>3. t = s[i + 1] /\ i + 1 \in 1..n /\ 1 \in 1..n /\ 1 < i + 1
    BY <1>1, <1>4, <2>2
  <2>4. QED BY <1>1, <1>3, <2>3
<1>7. QED BY <1>5, <1>6 DEF left

\* A step of a plan is the first or one of the rest.
LEMMA FirstOrLater ==
  ASSUME NEW s, IsPlan(s), s # <<>>, NEW t \in Range(s)
  PROVE  t = Head(s) \/ t \in Range(Tail(s))
<1>1. Len(s) \in Nat \ {0} /\ Head(s) = s[1] /\ DOMAIN s = 1..Len(s) /\ IsPlan(Tail(s))
  BY PlanLength, Left
<1>2. PICK i \in 1..Len(s) : t = s[i]
  BY <1>1 DEF Range
<1>3. Len(Tail(s)) = Len(s) - 1 /\ \A k \in 1..(Len(s) - 1) : Tail(s)[k] = s[k + 1]
  BY TailAt
<1>4. ASSUME i # 1
      PROVE  t \in Range(Tail(s))
  <2>1. i - 1 \in 1..(Len(s) - 1) /\ (i - 1) + 1 = i
    BY <1>1, <1>4
  <2>2. Tail(s)[i - 1] = t /\ i - 1 \in 1..Len(Tail(s))
    BY <1>2, <1>3, <2>1
  <2>3. QED BY <1>1, <2>2, PlanLength
<1>5. QED BY <1>1, <1>2, <1>4

-----------------------------------------------------------------------------
(* The plans of the prompt commands *)

\* Steps that have no part in requests and answers.
Aside(s) ==
    /\ Stage(s) = 0
    /\ s.do = "artifact" /\ s.at[1] = "agent" =>
         s.at = AgentPath(s.at[2], s.at[3]) /\ s.at[2] \notin {"model-request", "response-audit"}

LEMMA AsideOk ==
  ASSUME NEW s, Aside(s), NEW plan, NEW ids, NEW n, NEW asked
  PROVE  StepOk(plan, ids, s, n, asked)
BY DEF Aside, Stage, StepOk, FileOk, EventOk, Files, Tells, Answering, Audits

LEMMA AsideSteps ==
  ASSUME NEW run, NEW status, NEW events, NEW type, NEW path, NEW kind, NEW id, NEW value
  PROVE  /\ Aside(Manifest(run, status, events))
         /\ type \notin {"agent.model.responded", "agent.response.audit.recorded"} =>
              Aside(RunEvent(run, type, path))
         /\ kind \notin {"model-request", "model-response", "response-audit"} =>
              Aside(Artifact(AgentPath(kind, id), value))
BY StagesOfSteps DEF Aside, Manifest, Artifact, RunEvent, AgentPath

\* Steps that write an artifact of no agent: the manifests.
Apart(s) == s.do = "artifact" /\ s.at[1] # "agent"

LEMMA ManifestsApart ==
  ASSUME NEW run, NEW status, NEW events
  PROVE  Apart(Manifest(run, status, events))
BY DEF Apart, Manifest, Artifact

LEMMA ApartAside == \A s : Apart(s) => Aside(s) /\ Stage(s) = 0
BY DEF Apart, Aside, Stage, Files, Tells, Answering, Audits

\* A run of its own: the artifact, the event, and manifests.
LEMMA OwnRunPlan ==
  ASSUME NEW run, NEW type, NEW path, NEW value
  PROVE  LET plan == OwnRun(run, type, path, value)
         IN /\ IsPlan(plan)
            /\ Artifact(path, value) \in Range(plan) /\ RunEvent(run, type, path) \in Range(plan)
            /\ \A s \in Range(plan) :
                 s \in {Artifact(path, value), RunEvent(run, type, path)} \/ Apart(s)
            /\ Goes(Artifact(path, value), RunEvent(run, type, path)) => InOrder(plan)
<1> DEFINE opened == <<Manifest(run, "running", <<>>)>>
           told == RunEvent(run, type, path)
           kept == Manifest(run, "running", Append(<<>>, type))
           closed == <<Manifest(run, "completed", <<type>>)>>
           stored == <<Artifact(path, value)>>
           plan == stored \o ((opened \o <<told, kept>>) \o closed)
<1>1. OwnRun(run, type, path, value) = plan
  BY DEF OwnRun, Governed, Managed
<1>2. /\ IsPlan(opened) /\ Range(opened) = {Manifest(run, "running", <<>>)}
      /\ IsPlan(closed) /\ Range(closed) = {Manifest(run, "completed", <<type>>)}
      /\ IsPlan(stored) /\ Range(stored) = {Artifact(path, value)}
      /\ IsPlan(<<told, kept>>) /\ Range(<<told, kept>>) = {told, kept}
      /\ IsPlan(<<told>>) /\ Range(<<told>>) = {told}
      /\ IsPlan(<<kept>>) /\ Range(<<kept>>) = {kept}
  BY One, Two
<1>3. /\ Apart(Manifest(run, "running", <<>>))
      /\ Apart(kept)
      /\ Apart(Manifest(run, "completed", <<type>>))
  BY ManifestsApart
<1> HIDE DEF opened, told, kept, closed, stored
<1>4. IsPlan(opened \o <<told, kept>>) /\ Range(opened \o <<told, kept>>) = Range(opened) \cup {told, kept}
  BY <1>2, Joined
<1>5. /\ IsPlan((opened \o <<told, kept>>) \o closed)
      /\ Range((opened \o <<told, kept>>) \o closed) = (Range(opened) \cup {told, kept}) \cup Range(closed)
  BY <1>2, <1>4, Joined
<1>6. /\ IsPlan(plan)
      /\ Range(plan) = Range(stored) \cup ((Range(opened) \cup {told, kept}) \cup Range(closed))
  BY <1>2, <1>5, Joined
<1>7. ASSUME Goes(Artifact(path, value), told)
      PROVE  InOrder(plan)
  <2>1. \A s \in Range(opened) \cup Range(closed) \cup {kept} : \A t : Goes(s, t) /\ Goes(t, s)
    BY <1>2, <1>3, ApartAside DEF Goes
  <2>2. InOrder(<<told, kept>>)
    BY <2>1 DEF InOrder
  <2>3. InOrder(opened) /\ InOrder(closed) /\ InOrder(stored)
    BY OneInOrder DEF opened, closed, stored
  <2>4. InOrder(opened \o <<told, kept>>)
    BY <1>2, <2>1, <2>2, <2>3, JoinedInOrder
  <2>5. InOrder((opened \o <<told, kept>>) \o closed)
    BY <1>2, <1>4, <2>1, <2>3, <2>4, JoinedInOrder
  <2>6. \A s \in Range(stored), t \in Range((opened \o <<told, kept>>) \o closed) : Goes(s, t)
    BY <1>2, <1>5, <1>7, <2>1
  <2>7. QED BY <1>2, <1>5, <2>3, <2>5, <2>6, JoinedInOrder
<1> HIDE DEF plan
<1>8. \A s \in Range(plan) : s \in {Artifact(path, value), told} \/ Apart(s)
  BY <1>2, <1>3, <1>6
<1>9. Artifact(path, value) \in Range(plan) /\ told \in Range(plan)
  BY <1>2, <1>6
<1>10. QED BY <1>1, <1>6, <1>7, <1>8, <1>9 DEF told

AsidePlan(plan) == IsPlan(plan) /\ \A s \in Range(plan) : Aside(s)
Proposes(plan) == \E s \in Range(plan) : Files(s, "tool-request-proposal")

\* What is no proposal proposes nothing.
LEMMA OwnRunProposes ==
  ASSUME NEW run, NEW type, NEW kind, NEW id, NEW value, kind # "tool-request-proposal"
  PROVE  ~Proposes(OwnRun(run, type, AgentPath(kind, id), value))
<1>1. /\ ~Files(Artifact(AgentPath(kind, id), value), "tool-request-proposal")
      /\ ~Files(RunEvent(run, type, AgentPath(kind, id)), "tool-request-proposal")
      /\ \A s : Apart(s) => ~Files(s, "tool-request-proposal")
  BY DEF Artifact, RunEvent, AgentPath, Files, Apart
<1>2. QED BY <1>1, OwnRunPlan DEF Proposes

\* Bindings, proposals and executions.
LEMMA BindAside ==
  ASSUME NEW run, NEW prompt
  PROVE  AsidePlan(BindPlan(run, prompt)) /\ ~Proposes(BindPlan(run, prompt))
BY AsideSteps, OwnRunPlan, ApartAside, OwnRunProposes DEF AsidePlan, BindPlan

LEMMA ProposeAside ==
  ASSUME NEW run, NEW id, NEW proposal
  PROVE  AsidePlan(ProposePlan(run, id, proposal))
BY AsideSteps, OwnRunPlan, ApartAside DEF AsidePlan, ProposePlan

LEMMA FourOrFive ==
  ASSUME NEW a, NEW b, NEW c, NEW d, NEW e
  PROVE  /\ <<a, b, c, d>> \in Seq({a, b, c, d, e}) /\ <<a, b, c, d, e>> \in Seq({a, b, c, d, e})
         /\ \A i \in DOMAIN <<a, b, c, d>> : <<a, b, c, d>>[i] \in {a, b, c, d}
         /\ \A i \in DOMAIN <<a, b, c, d, e>> : <<a, b, c, d, e>>[i] \in {a, b, c, d, e}
OBVIOUS

ExecutePlan(run, types, decision) ==
    (<<Manifest(run, "running", <<>>)>> \o [i \in DOMAIN types |-> RunEvent(run, types[i], <<>>)])
    \o <<Manifest(run, "running", types),
         Manifest(run, IF decision = "allow" THEN "completed" ELSE "blocked", types)>>

ToolTypes == {"tool.requested", "risk.composed", "policy.decided", "lease.issued", "tool.result"}

LEMMA EventsOfTools ==
  ASSUME NEW decision
  PROVE  /\ ToolEvents(decision) \in Seq(ToolTypes)
         /\ \A i \in DOMAIN ToolEvents(decision) : ToolEvents(decision)[i] \in ToolTypes
<1> DEFINE types == ToolEvents(decision)
<1>1. CASE decision = "allow"
  BY <1>1, FourOrFive DEF ToolEvents, ToolTypes
<1>2. CASE decision # "allow"
  <2>1. /\ ToolTypes = {"tool.requested", "risk.composed", "policy.decided", "tool.result", "lease.issued"}
        /\ {"tool.requested", "risk.composed", "policy.decided", "tool.result"} \subseteq ToolTypes
    BY DEF ToolTypes
  <2>2. types = <<"tool.requested", "risk.composed", "policy.decided", "tool.result">>
    BY <1>2 DEF ToolEvents
  <2> HIDE DEF types
  <2>3. QED BY <2>1, <2>2, FourOrFive DEF types
<1>3. QED BY <1>1, <1>2

LEMMA ExecuteAside ==
  ASSUME NEW run, NEW decision
  PROVE  LET plan == ExecutePlan(run, ToolEvents(decision), decision)
         IN AsidePlan(plan) /\ ~Proposes(plan)
<1> DEFINE types == ToolEvents(decision)
           told == [i \in DOMAIN types |-> RunEvent(run, types[i], <<>>)]
           status == IF decision = "allow" THEN "completed" ELSE "blocked"
           opened == <<Manifest(run, "running", <<>>)>>
           closed == <<Manifest(run, "running", types), Manifest(run, status, types)>>
           names == ToolTypes
<1>1. types \in Seq(names) /\ \A i \in DOMAIN types : types[i] \in names
  BY EventsOfTools DEF ToolTypes
<1> HIDE DEF types
<1>2. Len(types) \in Nat /\ DOMAIN types = 1..Len(types)
  BY <1>1, LenProperties
<1>3. told \in [1..Len(types) -> Range(told)]
  BY <1>2 DEF Range
<1>4. IsPlan(told)
  <2>1. \A S : [1..Len(types) -> S] \subseteq Seq(S)
    BY <1>2
  <2>2. QED BY <1>3, <2>1, Zenon DEF IsPlan
<1>5. \A s \in Range(told) : Aside(s) /\ ~Files(s, "tool-request-proposal")
  <2>1. \A type, path : ~Files(RunEvent(run, type, path), "tool-request-proposal")
    BY DEF RunEvent, Files
  <2>2. \A type \in names : \A path : Aside(RunEvent(run, type, path))
    BY AsideSteps DEF ToolTypes
  <2>3. QED BY <1>1, <2>1, <2>2 DEF Range
<1>6. /\ IsPlan(opened) /\ IsPlan(closed)
      /\ \A s \in Range(opened) \cup Range(closed) : Aside(s) /\ ~Files(s, "tool-request-proposal")
  BY One, Two, ManifestsApart, ApartAside DEF Apart, Files
<1> HIDE DEF told, opened, closed
<1>7. IsPlan(opened \o told) /\ Range(opened \o told) = Range(opened) \cup Range(told)
  BY <1>4, <1>6, Joined
<1>8. /\ IsPlan((opened \o told) \o closed)
      /\ Range((opened \o told) \o closed) = (Range(opened) \cup Range(told)) \cup Range(closed)
  BY <1>6, <1>7, Joined
<1>9. ExecutePlan(run, types, decision) = (opened \o told) \o closed
  BY DEF ExecutePlan, opened, told, closed
<1>10. QED BY <1>5, <1>6, <1>8, <1>9 DEF AsidePlan, Proposes, types

\* A request.
LEMMA PreparedPlan ==
  ASSUME NEW run, NEW id, NEW prompt
  PROVE  LET plan == PreparePlan(run, id, prompt)
         IN /\ IsPlan(plan) /\ InOrder(plan)
            /\ Artifact(RequestPath(id), prompt) \in Range(plan)
            /\ \A s \in Range(plan) : s = Artifact(RequestPath(id), prompt) \/ Aside(s)
<1> DEFINE stored == Artifact(RequestPath(id), prompt)
           told == RunEvent(run, "agent.model.requested", RequestPath(id))
<1>1. Aside(told)
  BY AsideSteps
<1>2. Goes(stored, told)
  BY <1>1 DEF Aside, Goes
<1>3. PreparePlan(run, id, prompt) = OwnRun(run, "agent.model.requested", RequestPath(id), prompt)
  BY DEF PreparePlan, RequestPath
<1>4. QED BY <1>1, <1>2, <1>3, OwnRunPlan, ApartAside

\* An answer and its audit.
LEMMA AnsweredPlan ==
  ASSUME NEW run, NEW id, NEW prompt, NEW answer
  PROVE  LET plan == AnswerPlan(run, id, prompt, answer)
             response == Artifact(ResponsePath(id), [prompt |-> prompt, answer |-> answer])
             told == RunEvent(run, "agent.model.responded", ResponsePath(id))
             audit == Artifact(AuditPath(id), [answer |-> answer, status |-> Verdict(answer)])
             audited == RunEvent(AuditRun(run), "agent.response.audit.recorded", AuditPath(id))
         IN /\ IsPlan(plan) /\ InOrder(plan)
            /\ {response, told, audit, audited} \subseteq Range(plan)
            /\ \A s \in Range(plan) : s \in {response, told, audit, audited} \/ Apart(s)
            /\ Stage(response) = 2 /\ Stage(told) = 3 /\ Stage(audit) = 0 /\ Stage(audited) = 4
<1> DEFINE response == Artifact(ResponsePath(id), [prompt |-> prompt, answer |-> answer])
           told == RunEvent(run, "agent.model.responded", ResponsePath(id))
           audit == Artifact(AuditPath(id), [answer |-> answer, status |-> Verdict(answer)])
           audited == RunEvent(AuditRun(run), "agent.response.audit.recorded", AuditPath(id))
           first == OwnRun(run, "agent.model.responded", ResponsePath(id),
                           [prompt |-> prompt, answer |-> answer])
           second == OwnRun(AuditRun(run), "agent.response.audit.recorded", AuditPath(id),
                            [answer |-> answer, status |-> Verdict(answer)])
<1>1. Stage(response) = 2 /\ Stage(told) = 3 /\ Stage(audit) = 0 /\ Stage(audited) = 4
  BY StagesOfSteps DEF ResponsePath, AuditPath
<1>2. AnswerPlan(run, id, prompt, answer) = first \o second
  BY DEF AnswerPlan, ResponsePath, AuditPath
<1>3. Goes(response, told) /\ Goes(audit, audited)
  BY <1>1 DEF Goes
<1>4. /\ IsPlan(first) /\ InOrder(first) /\ response \in Range(first) /\ told \in Range(first)
      /\ \A s \in Range(first) : s \in {response, told} \/ Apart(s)
  BY <1>3, OwnRunPlan
<1>5. /\ IsPlan(second) /\ InOrder(second) /\ audit \in Range(second) /\ audited \in Range(second)
      /\ \A s \in Range(second) : s \in {audit, audited} \/ Apart(s)
  BY <1>3, OwnRunPlan
<1> HIDE DEF response, told, audit, audited, first, second
<1>6. \A s \in Range(first), t \in Range(second) : Goes(s, t)
  BY <1>1, <1>4, <1>5, ApartAside DEF Goes
<1>7. /\ IsPlan(first \o second) /\ InOrder(first \o second)
      /\ Range(first \o second) = Range(first) \cup Range(second)
  BY <1>4, <1>5, <1>6, Joined, JoinedInOrder
<1>8. {response, told, audit, audited} \subseteq Range(first \o second)
  BY <1>4, <1>5, <1>7
<1>9. \A s \in Range(first \o second) : s \in {response, told, audit, audited} \/ Apart(s)
  BY <1>4, <1>5, <1>7
<1>10. QED BY <1>1, <1>2, <1>7, <1>8, <1>9 DEF response, told, audit, audited

LEMMA AsideTaken ==
  ASSUME NEW plan, AsidePlan(plan), NEW ids, NEW n, NEW asked
  PROVE  /\ PlanOk(plan, ids, n, asked)
         /\ \A s \in Range(plan) : ~Files(s, "model-request") /\ ~Answering(s)
BY UnstagedInOrder, AsideOk DEF AsidePlan, Aside, PlanOk, Stage

\* The prompt of a request and of its answer, in the plan that has them.
LEMMA PreparedOk ==
  ASSUME NEW run, NEW id, NEW prompt, NEW n, id[2] \in 0..n, NEW plan, NEW ids, NEW asked
  PROVE  \A s \in Range(PreparePlan(run, id, prompt)) :
           /\ StepOk(plan, ids, s, n, asked)
           /\ ~Answering(s)
           /\ ~Files(s, "model-response")
           /\ Files(s, "model-request") => s.at = RequestPath(id)
<1> DEFINE stored == Artifact(RequestPath(id), prompt)
<1>1. /\ StepOk(plan, ids, stored, n, asked)
      /\ ~Answering(stored)
      /\ ~Files(stored, "model-response")
      /\ stored.at = RequestPath(id)
  BY DEF Artifact, RequestPath, AgentPath, StepOk, FileOk, Files, Tells, Answering, Audits
<1>2. ASSUME NEW s, Aside(s)
      PROVE  /\ StepOk(plan, ids, s, n, asked) /\ ~Answering(s)
             /\ ~Files(s, "model-response") /\ ~Files(s, "model-request")
  BY <1>2, AsideOk DEF Aside, Stage
<1>3. \A s \in Range(PreparePlan(run, id, prompt)) : s = stored \/ Aside(s)
  BY PreparedPlan
<1> HIDE DEF stored
<1>4. QED BY <1>1, <1>2, <1>3

\* A step of the answer to a request.
OfAnswer(s, id, run) ==
    /\ ~Files(s, "model-request")
    /\ ~Files(s, "tool-request-proposal")
    /\ s.do # "assemble"
    /\ Answering(s) => s.entry.ref = ResponsePath(id) /\ s.entry.run = run
    /\ Stage(s) \in {0, 2, 3, 4}

LEMMA AnsweredOk ==
  ASSUME NEW run, NEW id, NEW prompt, NEW answer, NEW n, id[2] \in 0..n, NEW plan, NEW ids, NEW asked,
         Range(AnswerPlan(run, id, prompt, answer)) \subseteq Range(plan),
         ResponsePath(id) \in ids,
         <<RequestPath(id), prompt>> \in asked \/ Artifact(RequestPath(id), prompt) \in Range(plan)
  PROVE  \A s \in Range(AnswerPlan(run, id, prompt, answer)) :
           StepOk(plan, ids, s, n, asked) /\ OfAnswer(s, id, run)
<1> DEFINE response == Artifact(ResponsePath(id), [prompt |-> prompt, answer |-> answer])
           told == RunEvent(run, "agent.model.responded", ResponsePath(id))
           audit == Artifact(AuditPath(id), [answer |-> answer, status |-> Verdict(answer)])
           audited == RunEvent(AuditRun(run), "agent.response.audit.recorded", AuditPath(id))
           Good(s) == StepOk(plan, ids, s, n, asked) /\ OfAnswer(s, id, run)
<1>1. /\ {response, told, audit, audited} \subseteq Range(AnswerPlan(run, id, prompt, answer))
      /\ \A s \in Range(AnswerPlan(run, id, prompt, answer)) :
           s \in {response, told, audit, audited} \/ Apart(s)
      /\ Stage(response) = 2 /\ Stage(told) = 3 /\ Stage(audit) = 0 /\ Stage(audited) = 4
  BY AnsweredPlan
<1>2. Good(response)
  <2>1. /\ response.do = "artifact" /\ response.at = ResponsePath(id)
        /\ response.value.prompt = prompt /\ Files(response, "model-response")
        /\ ~Files(response, "model-request") /\ ~Files(response, "tool-request-proposal")
        /\ ~Audits(response) /\ ~Answering(response)
        /\ response.at[1] = "agent" /\ response.at[2] = "model-response" /\ response.at[3] = id
    BY DEF Artifact, ResponsePath, AgentPath, Files, Tells, Answering, Audits
  <2>2. Audits(audited) /\ audited.entry.ref = AuditPath(id)
    BY DEF RunEvent, Audits, Tells
  <2>3. response.at = AgentPath(response.at[2], response.at[3])
    BY DEF Artifact, ResponsePath, AgentPath
  <2> HIDE DEF response, audited
  <2>4. StepOk(plan, ids, response, n, asked)
    BY <1>1, <2>1, <2>2, <2>3 DEF StepOk, FileOk
  <2>5. QED BY <1>1, <2>1, <2>4 DEF OfAnswer
<1>3. Good(told)
  <2>1. /\ told.do = "event" /\ told.entry.ref = ResponsePath(id) /\ told.entry.run = run
        /\ ~Files(told, "model-response") /\ ~Audits(told)
        /\ ~Files(told, "model-request") /\ ~Files(told, "tool-request-proposal")
        /\ told.entry.ref[3] = id
    BY DEF RunEvent, ResponsePath, AgentPath, Files, Tells, Answering, Audits
  <2> HIDE DEF told
  <2>2. QED BY <1>1, <2>1 DEF StepOk, EventOk, OfAnswer
<1>4. Good(audit)
  <2>1. /\ audit.do = "artifact" /\ audit.at = AgentPath("response-audit", id)
        /\ audit.at[2] = "response-audit" /\ audit.at[3] = id /\ audit.do # "assemble"
        /\ audit.value.status = Verdict(audit.value.answer)
        /\ ~Files(audit, "model-response") /\ ~Audits(audit) /\ ~Answering(audit)
        /\ ~Files(audit, "model-request") /\ ~Files(audit, "tool-request-proposal")
    BY DEF Artifact, AuditPath, AgentPath, Files, Tells, Answering, Audits
  <2> HIDE DEF audit
  <2>2. QED BY <1>1, <2>1 DEF StepOk, FileOk, OfAnswer
<1>5. Good(audited)
  <2>1. /\ audited.do = "event" /\ audited.entry.type # "agent.model.responded"
        /\ ~Files(audited, "model-response") /\ ~Answering(audited)
        /\ ~Files(audited, "model-request") /\ ~Files(audited, "tool-request-proposal")
        /\ audited.entry.ref[3] = id
    BY DEF RunEvent, AuditPath, AgentPath, Files, Tells, Answering
  <2> HIDE DEF audited
  <2>2. QED BY <1>1, <2>1 DEF StepOk, EventOk, OfAnswer
<1>6. ASSUME NEW s, Apart(s)
      PROVE  Good(s)
  BY <1>6, ApartAside, AsideOk DEF Apart, Answering, Tells, Files, OfAnswer
<1> HIDE DEF response, told, audit, audited, Good
<1>7. \A s \in Range(AnswerPlan(run, id, prompt, answer)) : Good(s)
  BY <1>1, <1>2, <1>3, <1>4, <1>5, <1>6
<1>8. QED BY <1>7 DEF Good

-----------------------------------------------------------------------------
(* The steps of the prompt commands *)

LEMMA PlanGrows ==
  ASSUME NEW plan, NEW ids, NEW n \in Nat, NEW m \in Nat, n <= m, NEW asked, NEW more,
         asked \subseteq more, PlanOk(plan, ids, n, asked)
  PROVE  PlanOk(plan, ids, m, more)
BY DEF PlanOk, StepOk, FileOk, EventOk

\* What is left of a plan when its first step is done.
LEMMA TailOk ==
  ASSUME NEW plan, NEW ids, NEW n, NEW asked, NEW more, asked \subseteq more,
         PlanOk(plan, ids, n, asked), plan # <<>>,
         \A id, prompt : Head(plan) = Artifact(RequestPath(id), prompt) =>
                           <<RequestPath(id), prompt>> \in more
  PROVE  PlanOk(Tail(plan), IF Tail(plan) = <<>> THEN {} ELSE ids, n, more)
<1> DEFINE left == Tail(plan)
           rest == IF left = <<>> THEN {} ELSE ids
<1>1. /\ IsPlan(plan) /\ IsPlan(left) /\ Range(left) \subseteq Range(plan)
      /\ InOrder(left) /\ \A t \in Range(left) : Goes(Head(plan), t)
  BY Left, TailInOrder DEF PlanOk
<1>2. \A t \in Range(plan) : t = Head(plan) \/ t \in Range(left)
  BY <1>1, FirstOrLater
<1>3. left = <<>> => Range(left) = {}
  BY None
<1> HIDE DEF left
<1>4. ASSUME NEW s \in Range(left)
      PROVE  StepOk(left, rest, s, n, more)
  <2>1. StepOk(plan, ids, s, n, asked) /\ rest = ids /\ Goes(Head(plan), s)
    BY <1>1, <1>3 DEF PlanOk
  <2>2. ASSUME Files(s, "model-response")
        PROVE  \E t \in Range(left) : Audits(t) /\ t.entry.ref = AuditPath(s.at[3])
    <3>1. PICK t \in Range(plan) : Audits(t) /\ t.entry.ref = AuditPath(s.at[3])
      BY <2>1, <2>2 DEF StepOk
    <3>2. Stage(t) = 4 /\ Stage(s) = 2
      BY <2>2, <3>1 DEF Stage, Files, Tells, Audits, Answering
    <3>3. t # Head(plan)
      BY <2>1, <3>2 DEF Goes
    <3>4. QED BY <1>2, <3>1, <3>3
  <2>3. ASSUME Files(s, "model-response")
        PROVE  \/ <<RequestPath(s.at[3]), s.value.prompt>> \in more
               \/ Artifact(RequestPath(s.at[3]), s.value.prompt) \in Range(left)
    BY <1>2, <2>1, <2>3 DEF StepOk
  <2>4. QED BY <2>1, <2>2, <2>3 DEF StepOk
<1>5. QED BY <1>1, <1>4 DEF PlanOk, left

\* Only the plan of p has changed.
OnlyPlanOf(p) == \A q \in Procs : q # p => proc'[q] = proc[q]

LEMMA OthersOk ==
  ASSUME PlansOk, NEW p, OnlyPlanOf(p), begun \in Nat, begun' \in Nat, begun <= begun',
         Requests \subseteq Requests',
         PlanOk(proc'[p].plan, proc'[p].ids, begun', Requests')
  PROVE  \A q \in Procs : PlanOk(proc'[q].plan, proc'[q].ids, begun', Requests')
<1>1. ASSUME NEW q \in Procs, q # p
      PROVE  PlanOk(proc'[q].plan, proc'[q].ids, begun', Requests')
  BY <1>1, PlanGrows DEF PlansOk, OnlyPlanOf
<1>2. QED BY <1>1

\* Nothing is written.
LEMMA SameRecords ==
  ASSUME UNCHANGED <<artifacts, log>>, begun \in Nat, begun' \in Nat, begun <= begun',
         FilesOk, LogOk
  PROVE  FilesOk' /\ LogOk' /\ Requests' = Requests
<1>1. Requests' = Requests
  BY DEF Requests
<1>2. 0..begun \subseteq 0..begun'
  OBVIOUS
<1>3. FilesOk'
  BY <1>1, <1>2 DEF FilesOk, FileOk
<1>4. LogOk'
  BY <1>2 DEF LogOk, EventOk, AnsweredOnce
<1>5. QED BY <1>1, <1>3, <1>4

\* An operator begins.
LEMMA OperatorBegins ==
  ASSUME OneOperator, AnswerInv, Shaped', NEW p, NEW plan, NEW view, BeginWith(p, plan, view),
         PlanOk(plan, Touched(plan), begun + 1, Requests),
         \A s \in Range(plan) : OperatorOk(s)
  PROVE  AnswerInv'
<1>1. /\ p \in Operators /\ p \in Procs /\ begun' = begun + 1 /\ begun \in Nat
      /\ UNCHANGED <<artifacts, log>> /\ DOMAIN proc = Procs
  BY DEF BeginWith, files, Procs, AnswerInv, Shaped
<1>2. /\ proc'[p].plan = plan /\ proc'[p].ids = Touched(plan) /\ OnlyPlanOf(p)
  BY <1>1 DEF BeginWith, StartPlan, OnlyPlanOf
<1>3. begun' \in Nat /\ begun <= begun'
  BY <1>1
<1>4. FilesOk' /\ LogOk' /\ Requests' = Requests
  BY <1>1, <1>3, SameRecords DEF AnswerInv
<1>5. \A q \in Procs : PlanOk(proc'[q].plan, proc'[q].ids, begun', Requests')
  BY <1>1, <1>2, <1>4, <1>3, OthersOk DEF AnswerInv
<1>6. \A q \in Operators : \A s \in Range(proc'[q].plan) : OperatorOk(s)'
  BY <1>1, <1>2 DEF OneOperator, OperatorOk, EventsFor
<1>7. \A q \in Readers : \A s \in Range(proc'[q].plan) : ReaderOk(s)
  BY <1>1, <1>2, ReadersReport DEF OnlyPlanOf, AnswerInv, PlansOk
<1>8. PlansOk'
  BY <1>5, <1>6, <1>7 DEF PlansOk
<1>9. QED BY <1>3, <1>4, <1>8 DEF AnswerInv

\* A second terminal begins.
LEMMA ReaderBegins ==
  ASSUME AnswerInv, Shaped', NEW p, NEW plan, NEW view, BeginReport(p, plan, view),
         PlanOk(plan, Touched(plan), begun, Requests),
         \A s \in Range(plan) : ReaderOk(s)
  PROVE  AnswerInv'
<1>1. /\ p \in Readers /\ p \in Procs /\ begun' = begun /\ begun \in Nat
      /\ UNCHANGED <<artifacts, log>> /\ DOMAIN proc = Procs
  BY DEF BeginReport, files, Procs, AnswerInv, Shaped
<1>2. /\ proc'[p].plan = plan /\ proc'[p].ids = Touched(plan) /\ OnlyPlanOf(p)
  BY <1>1 DEF BeginReport, StartPlan, OnlyPlanOf
<1>3. begun' \in Nat /\ begun <= begun'
  BY <1>1
<1>4. FilesOk' /\ LogOk' /\ Requests' = Requests
  BY <1>1, <1>3, SameRecords DEF AnswerInv
<1>5. \A q \in Procs : PlanOk(proc'[q].plan, proc'[q].ids, begun', Requests')
  BY <1>1, <1>2, <1>4, <1>3, OthersOk DEF AnswerInv
<1>6. \A q \in Operators : \A s \in Range(proc'[q].plan) : OperatorOk(s)'
  BY <1>1, ReadersReport, <1>2 DEF Procs, OnlyPlanOf, AnswerInv, PlansOk, OperatorOk, EventsFor
<1>7. \A q \in Readers : \A s \in Range(proc'[q].plan) : ReaderOk(s)
  BY <1>1, <1>2, ReadersReport DEF OnlyPlanOf, AnswerInv, PlansOk
<1>8. PlansOk'
  BY <1>5, <1>6, <1>7 DEF PlansOk
<1>9. QED BY <1>3, <1>4, <1>8 DEF AnswerInv

\* A process has done the first step of its plan.
LEMMA Advanced ==
  ASSUME AnswerInv, NEW p \in Procs, Advance(p), ~Idle(p)
  PROVE  LET plan == proc[p].plan
         IN /\ plan # <<>> /\ IsPlan(plan) /\ Head(plan) \in Range(plan)
            /\ OnlyPlanOf(p)
            /\ proc'[p].plan = Tail(plan)
            /\ proc'[p].ids = IF Tail(plan) = <<>> THEN {} ELSE proc[p].ids
            /\ \A q \in Procs : Range(proc'[q].plan) \subseteq Range(proc[q].plan)
            /\ \A t \in Range(Tail(plan)) : Goes(Head(plan), t)
            /\ PlanOk(plan, proc[p].ids, begun, Requests)
<1>1. DOMAIN proc = Procs /\ DOMAIN proc[p] = ProcFields
  BY DEF AnswerInv, Shaped
<1>2. PlanOk(proc[p].plan, proc[p].ids, begun, Requests) /\ proc[p].plan # <<>>
  BY DEF AnswerInv, PlansOk, Idle
<1>3. OnlyPlanOf(p)
  BY <1>1 DEF Advance, OnlyPlanOf
<1>4. /\ proc'[p].plan = Tail(proc[p].plan)
      /\ proc'[p].ids = IF Tail(proc[p].plan) = <<>> THEN {} ELSE proc[p].ids
  BY <1>1 DEF Advance, ProcFields
<1>5. /\ IsPlan(proc[p].plan) /\ Head(proc[p].plan) \in Range(proc[p].plan)
      /\ Range(Tail(proc[p].plan)) \subseteq Range(proc[p].plan)
      /\ \A t \in Range(Tail(proc[p].plan)) : Goes(Head(proc[p].plan), t)
  BY <1>2, Left, TailInOrder DEF PlanOk
<1>6. \A q \in Procs : Range(proc'[q].plan) \subseteq Range(proc[q].plan)
  BY <1>3, <1>4, <1>5 DEF OnlyPlanOf
<1>7. QED BY <1>2, <1>3, <1>4, <1>5, <1>6

LEMMA AdvancedOk ==
  ASSUME AnswerInv, NEW p \in Procs, Advance(p), ~Idle(p), begun' = begun,
         Requests \subseteq Requests',
         \A id, prompt : Head(proc[p].plan) = Artifact(RequestPath(id), prompt) =>
                           <<RequestPath(id), prompt>> \in Requests',
         \A q \in Operators : \A s \in Range(proc'[q].plan) : OperatorOk(s) => OperatorOk(s)'
  PROVE  PlansOk'
<1> DEFINE plan == proc[p].plan
<1>1. /\ plan # <<>> /\ OnlyPlanOf(p)
      /\ proc'[p].plan = Tail(plan)
      /\ proc'[p].ids = IF Tail(plan) = <<>> THEN {} ELSE proc[p].ids
      /\ \A q \in Procs : Range(proc'[q].plan) \subseteq Range(proc[q].plan)
      /\ PlanOk(plan, proc[p].ids, begun, Requests)
  BY Advanced
<1>2. PlanOk(Tail(plan), IF Tail(plan) = <<>> THEN {} ELSE proc[p].ids, begun, Requests')
  BY <1>1, TailOk
<1>3. PlanOk(proc'[p].plan, proc'[p].ids, begun', Requests')
  BY <1>1, <1>2
<1>4. PlansOk /\ begun \in Nat /\ begun' \in Nat /\ begun <= begun'
  BY DEF AnswerInv
<1>5. \A q \in Procs : PlanOk(proc'[q].plan, proc'[q].ids, begun', Requests')
  BY <1>1, <1>3, <1>4, OthersOk
<1>6. \A q \in Operators : \A s \in Range(proc'[q].plan) : OperatorOk(s)'
  BY <1>1, <1>4 DEF PlansOk, Procs
<1>7. \A q \in Readers : \A s \in Range(proc'[q].plan) : ReaderOk(s)
  BY <1>1, <1>4 DEF PlansOk, Procs
<1>8. QED BY <1>5, <1>6, <1>7 DEF PlansOk

\* An artifact is written.
LEMMA StoreAnswers ==
  ASSUME OneOperator, AnswerInv, Shaped', NEW p \in Procs, StoreArtifact(p)
  PROVE  AnswerInv'
<1> DEFINE plan == proc[p].plan
           s == Head(plan)
<1>1. /\ Advance(p) /\ ~Idle(p) /\ s.do = "artifact" /\ UNCHANGED <<log, begun>>
      /\ artifacts' = Over(Single(s.at, s.value), artifacts)
  BY DEF StoreArtifact, AtStep
<1>2. /\ plan # <<>> /\ IsPlan(plan) /\ s \in Range(plan) /\ OnlyPlanOf(p)
      /\ proc'[p].plan = Tail(plan)
      /\ \A q \in Procs : Range(proc'[q].plan) \subseteq Range(proc[q].plan)
      /\ \A t \in Range(Tail(plan)) : Goes(s, t)
      /\ PlanOk(plan, proc[p].ids, begun, Requests)
  BY <1>1, Advanced
<1>3. StepOk(plan, proc[p].ids, s, begun, Requests) /\ FileOk(s.at, s.value, begun)
  BY <1>1, <1>2 DEF PlanOk, StepOk
<1>4. /\ PlansOk /\ FilesOk /\ LogOk /\ begun \in Nat
  BY DEF AnswerInv
<1> HIDE DEF s
<1>5. /\ DOMAIN artifacts' = DOMAIN artifacts \cup {s.at}
      /\ artifacts'[s.at] = s.value
      /\ \A path \in DOMAIN artifacts : path # s.at => artifacts'[path] = artifacts[path]
  BY <1>1 DEF Over, Single
<1>6. Files(s, "model-request") => p \in Operators /\ s.at \notin DOMAIN artifacts
  BY <1>2, <1>4 DEF PlansOk, ReaderOk, OperatorOk, Procs
<1>7. Requests \subseteq Requests'
  <2>1. SUFFICES ASSUME NEW path \in DOMAIN artifacts, path[1] = "agent", path[2] = "model-request"
                 PROVE  path \in DOMAIN artifacts' /\ artifacts'[path] = artifacts[path]
    BY DEF Requests
  <2>2. path # s.at
    BY <1>1, <1>6, <2>1 DEF Files
  <2>3. QED BY <1>5, <2>1, <2>2
<1>8. ASSUME NEW id, NEW prompt, s = Artifact(RequestPath(id), prompt)
      PROVE  <<RequestPath(id), prompt>> \in Requests'
  BY <1>8, <1>5 DEF Artifact, RequestPath, AgentPath, Requests
<1>9. ASSUME NEW q \in Operators, NEW t \in Range(proc'[q].plan), OperatorOk(t)
      PROVE  OperatorOk(t)'
  <2>1. t.at # s.at \/ ~Files(t, "model-request")
    <3>1. ASSUME t.at = s.at, Files(t, "model-request")
          PROVE  FALSE
      <4>1. Files(s, "model-request")
        BY <1>1, <3>1 DEF Files
      <4>2. p = q
        BY <1>6, <4>1 DEF OneOperator
      <4>3. Goes(s, t)
        BY <1>2, <4>2
      <4>4. Stage(s) = 1 /\ Stage(t) = 1
        BY <3>1, <4>1 DEF Stage
      <4>5. QED BY <4>3, <4>4 DEF Goes
    <3>2. QED BY <3>1
  <2>2. Files(t, "model-request") => t.at \notin DOMAIN artifacts'
    BY <1>5, <1>9, <2>1 DEF OperatorOk
  <2>3. \A i \in EventsFor("agent.model.responded", t.entry.ref)' : i \in EventsFor("agent.model.responded", t.entry.ref)
    BY <1>1 DEF EventsFor
  <2>4. QED BY <1>1, <1>9, <2>2, <2>3 DEF OperatorOk
<1>10. PlansOk'
  BY <1>1, <1>7, <1>8, <1>9, AdvancedOk DEF s
<1>11. \A path \in DOMAIN artifacts' : FileOk(path, artifacts'[path], begun')
  BY <1>1, <1>3, <1>4, <1>5 DEF FilesOk
<1>12. ASSUME NEW path \in DOMAIN artifacts', path[1] = "agent", path[2] = "model-response"
       PROVE  <<RequestPath(path[3]), artifacts'[path].prompt>> \in Requests'
  <2>1. CASE path = s.at
    <3>1. Files(s, "model-response")
      BY <1>1, <1>12, <2>1 DEF Files
    <3>2. CASE <<RequestPath(s.at[3]), s.value.prompt>> \in Requests
      BY <1>5, <1>7, <2>1, <3>2
    <3>3. CASE Artifact(RequestPath(s.at[3]), s.value.prompt) \in Range(plan)
      <4> DEFINE t == Artifact(RequestPath(s.at[3]), s.value.prompt)
      <4>1. Stage(t) = 1
        BY StagesOfSteps DEF RequestPath
      <4>2. Stage(s) = 2
        BY <3>1 DEF Stage, Files
      <4>3. t = s \/ t \in Range(Tail(plan))
        BY <1>2, <3>3, FirstOrLater DEF s
      <4> HIDE DEF t
      <4>4. QED BY <1>2, <4>1, <4>2, <4>3 DEF Goes
    <3>4. QED BY <1>3, <3>1, <3>2, <3>3 DEF StepOk
  <2>2. CASE path # s.at
    BY <1>4, <1>5, <1>7, <1>12, <2>2 DEF FilesOk
  <2>3. QED BY <2>1, <2>2
<1>13. FilesOk'
  BY <1>11, <1>12 DEF FilesOk
<1>14. LogOk'
  BY <1>1, <1>4 DEF LogOk, AnsweredOnce
<1>15. QED BY <1>1, <1>4, <1>10, <1>13, <1>14 DEF AnswerInv

LEMMA AppendedLog ==
  ASSUME NEW s, IsPlan(s), NEW e
  PROVE  /\ IsPlan(Append(s, e))
         /\ DOMAIN Append(s, e) = DOMAIN s \cup {Len(s) + 1}
         /\ Append(s, e)[Len(s) + 1] = e
         /\ \A i \in DOMAIN s : Append(s, e)[i] = s[i] /\ i < Len(s) + 1 /\ i \in Nat
<1> DEFINE S == Range(s) \cup {e}
<1>1. s \in Seq(S) /\ e \in S
  BY DEF IsPlan
<1>2. /\ Append(s, e) \in Seq(S)
      /\ Len(Append(s, e)) = Len(s) + 1
      /\ \A i \in 1..Len(s) : Append(s, e)[i] = s[i]
      /\ Append(s, e)[Len(s) + 1] = e
  BY <1>1, AppendProperties
<1>3. IsPlan(Append(s, e))
  BY <1>2, SeqOfRange DEF IsPlan
<1>4. Len(s) \in Nat /\ DOMAIN s = 1..Len(s) /\ DOMAIN Append(s, e) = 1..(Len(s) + 1)
  BY <1>2, <1>3, PlanLength
<1>5. QED BY <1>2, <1>3, <1>4

\* An event is told.
LEMMA AppendAnswers ==
  ASSUME OneOperator, AnswerInv, Shaped', NEW p \in Procs, AppendEvent(p)
  PROVE  AnswerInv'
<1> DEFINE plan == proc[p].plan
           s == Head(plan)
           e == s.entry
           n == Len(log) + 1
<1>1. /\ Advance(p) /\ ~Idle(p) /\ s.do = "event" /\ UNCHANGED <<artifacts, begun>>
      /\ log' = Append(log, e)
  BY DEF AppendEvent, AtStep
<1>2. /\ plan # <<>> /\ IsPlan(plan) /\ s \in Range(plan) /\ OnlyPlanOf(p)
      /\ proc'[p].plan = Tail(plan)
      /\ \A q \in Procs : Range(proc'[q].plan) \subseteq Range(proc[q].plan)
      /\ \A t \in Range(Tail(plan)) : Goes(s, t)
      /\ PlanOk(plan, proc[p].ids, begun, Requests)
  BY <1>1, Advanced
<1>3. EventOk(e, begun)
  BY <1>1, <1>2 DEF PlanOk, StepOk
<1>4. /\ PlansOk /\ FilesOk /\ LogOk /\ begun \in Nat /\ IsPlan(log)
  BY DEF AnswerInv, LogOk
<1> HIDE DEF s, n
<1>5. /\ IsPlan(log') /\ DOMAIN log' = DOMAIN log \cup {n} /\ log'[n] = e
      /\ \A i \in DOMAIN log : log'[i] = log[i] /\ i < n /\ i \in Nat
  BY <1>1, <1>4, AppendedLog DEF n
<1>6. Requests' = Requests
  BY <1>1 DEF Requests
<1>7. ASSUME NEW id, NEW prompt, s = Artifact(RequestPath(id), prompt)
      PROVE  FALSE
  BY <1>1, <1>7 DEF Artifact
<1>8. Answering(s) <=> e.type = "agent.model.responded"
  BY <1>1 DEF Answering, Tells
<1>9. ASSUME NEW q \in Operators, NEW t \in Range(proc'[q].plan), OperatorOk(t)
      PROVE  OperatorOk(t)'
  <2>1. SUFFICES ASSUME Answering(t), NEW i \in DOMAIN log',
                        log'[i].type = "agent.model.responded", log'[i].ref = t.entry.ref
                 PROVE  log'[i].run[1] = "elsewhere"
    BY <1>1, <1>9 DEF OperatorOk, EventsFor
  <2>2. CASE i \in DOMAIN log
    BY <1>5, <1>9, <2>1, <2>2 DEF OperatorOk, EventsFor
  <2>3. CASE i = n
    <3>1. Answering(s)
      BY <1>5, <1>8, <2>1, <2>3
    <3>2. Stage(s) = 3 /\ Stage(t) = 3
      BY <2>1, <3>1 DEF Stage, Files, Tells, Answering
    <3>3. ~Goes(s, t)
      BY <3>2 DEF Goes
    <3>4. p # q
      BY <1>2, <1>9, <3>3
    <3>5. p \in Readers
      BY <3>4 DEF OneOperator, Procs
    <3>6. e.run[1] = "elsewhere"
      BY <1>2, <1>4, <3>1, <3>5 DEF PlansOk, ReaderOk
    <3>7. QED BY <1>5, <2>3, <3>6
  <2>4. QED BY <1>5, <2>1, <2>2, <2>3
<1>10. PlansOk'
  BY <1>1, <1>6, <1>7, <1>9, AdvancedOk DEF s
<1>11. FilesOk'
  BY <1>1, <1>4, <1>6 DEF FilesOk
<1>12. \A i \in DOMAIN log' : EventOk(log'[i], begun')
  BY <1>1, <1>3, <1>4, <1>5 DEF LogOk
<1>13. AnsweredOnce'
  <2>1. SUFFICES ASSUME NEW i \in DOMAIN log', NEW j \in DOMAIN log', i < j,
                        log'[i].type = "agent.model.responded",
                        log'[j].type = "agent.model.responded",
                        log'[i].ref = log'[j].ref
                 PROVE  "elsewhere" \in {log'[i].run[1], log'[j].run[1]}
    BY DEF AnsweredOnce
  <2>2. i \in DOMAIN log
    <3>1. n \in Nat
      BY <1>4, PlanLength DEF n
    <3>2. QED BY <1>5, <2>1, <3>1
  <2>3. CASE j \in DOMAIN log
    BY <1>4, <1>5, <2>1, <2>2, <2>3 DEF LogOk, AnsweredOnce
  <2>4. CASE j = n
    <3>1. Answering(s) /\ log[i].type = "agent.model.responded" /\ log[i].ref = e.ref
      BY <1>5, <1>8, <2>1, <2>2, <2>4
    <3>2. CASE p \in Operators
      BY <1>2, <1>4, <3>2, <2>2, <3>1, <1>5 DEF PlansOk, OperatorOk, EventsFor
    <3>3. CASE p \in Readers
      BY <1>2, <1>4, <3>1, <3>3, <1>5, <2>4 DEF PlansOk, ReaderOk
    <3>4. QED BY <3>2, <3>3 DEF Procs
  <2>5. QED BY <1>5, <2>1, <2>3, <2>4
<1>14. LogOk'
  BY <1>5, <1>12, <1>13 DEF LogOk
<1>15. QED BY <1>1, <1>4, <1>10, <1>11, <1>14 DEF AnswerInv

\* A step that writes neither artifact nor event.
LEMMA OtherAnswers ==
  ASSUME AnswerInv, Shaped', NEW p \in Procs, ~Idle(p), Head(proc[p].plan).do # "artifact",
         Advance(p), UNCHANGED <<artifacts, log, begun>>
  PROVE  AnswerInv'
<1>1. /\ FilesOk' /\ LogOk' /\ Requests' = Requests
  BY SameRecords DEF AnswerInv
<1>2. \A id, prompt : Head(proc[p].plan) # Artifact(RequestPath(id), prompt)
  BY DEF Artifact
<1>3. \A q \in Operators : \A s \in Range(proc'[q].plan) : OperatorOk(s) => OperatorOk(s)'
  BY DEF OperatorOk, EventsFor
<1>4. PlansOk'
  BY <1>1, <1>2, <1>3, AdvancedOk
<1>5. QED BY <1>1, <1>4 DEF AnswerInv

\* The plans are shorter, or as they were, and nothing is written.
LEMMA FewerAnswers ==
  ASSUME AnswerInv, Shaped', NEW p, OnlyPlanOf(p), UNCHANGED <<artifacts, log, begun>>,
         \/ proc'[p].plan = <<>>
         \/ p \in Procs /\ proc'[p].plan = proc[p].plan /\ proc'[p].ids = proc[p].ids
  PROVE  AnswerInv'
<1>1. /\ FilesOk' /\ LogOk' /\ Requests' = Requests /\ PlansOk /\ begun \in Nat /\ begun <= begun'
  BY SameRecords DEF AnswerInv
<1>2. PlanOk(proc'[p].plan, proc'[p].ids, begun', Requests')
  BY None, UnstagedInOrder, <1>1 DEF PlanOk, PlansOk
<1>3. \A q \in Procs : PlanOk(proc'[q].plan, proc'[q].ids, begun', Requests')
  BY <1>1, <1>2, OthersOk
<1>4. \A q \in Procs : Range(proc'[q].plan) \subseteq Range(proc[q].plan)
  BY None DEF OnlyPlanOf
<1>5. \A q \in Operators : \A s \in Range(proc'[q].plan) : OperatorOk(s)'
  BY <1>1, <1>4 DEF PlansOk, OperatorOk, EventsFor, Procs
<1>6. \A q \in Readers : \A s \in Range(proc'[q].plan) : ReaderOk(s)
  BY <1>1, <1>4 DEF PlansOk, Procs
<1>7. PlansOk'
  BY <1>3, <1>5, <1>6 DEF PlansOk
<1>8. QED BY <1>1, <1>7 DEF AnswerInv

LEMMA CutAnswers ==
  ASSUME AnswerInv, Shaped', NEW p \in Procs, CutShort(p), UNCHANGED <<artifacts, log, begun>>
  PROVE  AnswerInv'
BY FewerAnswers DEF AnswerInv, Shaped, CutShort, OnlyPlanOf, IdleProc

LEMMA WriteAnswers ==
  ASSUME OneOperator, AnswerInv, Shaped', NEW p \in Procs, Write(p) \/ Kill(p)
  PROVE  AnswerInv'
<1>1. ASSUME WriteTable(p)
      PROVE  AnswerInv'
  BY <1>1, OtherAnswers DEF WriteTable, AtStep
<1>2. ASSUME ReadTable(p)
      PROVE  AnswerInv'
  BY <1>2, FewerAnswers DEF AnswerInv, Shaped, ReadTable, OnlyPlanOf, ProcFields, files
<1>3. ASSUME Kill(p)
      PROVE  AnswerInv'
  BY <1>3, CutAnswers DEF Kill, files
<1>4. QED BY <1>1, <1>2, <1>3, StoreAnswers, AppendAnswers DEF Write

-----------------------------------------------------------------------------
(* The prompt commands *)

LEMMA TouchedFile ==
  ASSUME NEW plan, NEW path, NEW value, Artifact(path, value) \in Range(plan)
  PROVE  path \in Touched(plan)
<1>1. PICK i \in DOMAIN plan : plan[i] = Artifact(path, value)
  BY DEF Range
<1>2. plan[i].do = "artifact" /\ plan[i].at = path
  BY <1>1 DEF Artifact
<1>3. QED BY <1>2 DEF Touched

LEMMA AsideBegins ==
  ASSUME OneOperator, AnswerInv, Shaped', NEW p, NEW plan, NEW view, BeginWith(p, plan, view),
         AsidePlan(plan)
  PROVE  AnswerInv'
BY AsideTaken, OperatorBegins DEF OperatorOk

LEMMA ToolsAnswer ==
  ASSUME OneOperator, AnswerInv, Shaped', NEW p, Tools(p)
  PROVE  AnswerInv'
<1>1. ASSUME NEW id, ProposeTool(p, id)
      PROVE  AnswerInv'
  <2>1. PICK run, new, proposal, view : BeginWith(p, ProposePlan(run, new, proposal), view)
    BY <1>1, Zenon DEF ProposeTool
  <2>2. QED BY <2>1, ProposeAside, AsideBegins
<1>2. ASSUME NEW id, NEW decision, ExecuteTool(p, id, decision)
      PROVE  AnswerInv'
  <2>1. \E view : BeginWith(p, ExecutePlan(NewRun, ToolEvents(decision), decision), view)
    BY <1>2, Zenon DEF ExecuteTool, ExecutePlan
  <2>2. QED BY <2>1, ExecuteAside, AsideBegins
<1>3. QED BY <1>1, <1>2 DEF Tools

LEMMA NewRequest ==
  ASSUME AnswerInv
  PROVE  LET id == NewId("request")
         IN /\ id[2] \in 0..(begun + 1)
            /\ RequestPath(id) \notin DOMAIN artifacts
            /\ EventsFor("agent.model.responded", ResponsePath(id)) = {}
<1> DEFINE id == NewId("request")
<1>1. id[2] = begun + 1 /\ begun \in Nat /\ FilesOk /\ LogOk
  BY DEF NewId, AnswerInv
<1> HIDE DEF id
<1>2. id[2] \in 0..(begun + 1) /\ id[2] \notin 0..begun
  BY <1>1
<1>3. RequestPath(id) \notin DOMAIN artifacts
  BY KindsOfPaths, <1>1, <1>2 DEF RequestPath, FilesOk, FileOk
<1>4. EventsFor("agent.model.responded", ResponsePath(id)) = {}
  <2>1. ResponsePath(id)[3] = id
    BY KindsOfPaths DEF ResponsePath
  <2>2. QED BY <1>1, <1>2, <2>1 DEF EventsFor, LogOk, EventOk
<1>5. QED BY <1>2, <1>3, <1>4 DEF id

LEMMA PrepareAnswers ==
  ASSUME OneOperator, AnswerInv, Shaped', NEW p, NEW prompt, PrepareRequest(p, prompt)
  PROVE  AnswerInv'
<1> DEFINE id == NewId("request")
           plan == PreparePlan(NewRun, id, prompt)
<1>1. BeginWith(p, plan, Nothing)
  BY DEF PrepareRequest, Begin
<1>2. id[2] \in 0..(begun + 1) /\ RequestPath(id) \notin DOMAIN artifacts
  BY NewRequest
<1>3. IsPlan(plan) /\ InOrder(plan)
  BY PreparedPlan
<1> HIDE DEF id
<1>4. \A s \in Range(plan) :
        /\ StepOk(plan, Touched(plan), s, begun + 1, Requests)
        /\ ~Answering(s)
        /\ Files(s, "model-request") => s.at = RequestPath(id)
  BY <1>2, PreparedOk
<1> HIDE DEF plan
<1>5. PlanOk(plan, Touched(plan), begun + 1, Requests) /\ \A s \in Range(plan) : OperatorOk(s)
  BY <1>2, <1>3, <1>4 DEF PlanOk, OperatorOk
<1>6. QED BY <1>1, <1>5, OperatorBegins

\* A request that is on record.
LEMMA RequestOf ==
  ASSUME AnswerInv, NEW id \in IdsOf("model-request")
  PROVE  /\ id[2] \in 0..begun
         /\ RequestPath(id) \in DOMAIN artifacts
         /\ <<RequestPath(id), Requested(id)>> \in Requests
<1>1. PICK path \in DOMAIN artifacts : path[1] = "agent" /\ path[2] = "model-request" /\ path[3] = id
  BY DEF IdsOf
<1>2. path = AgentPath("model-request", id) /\ id[2] \in 0..begun
  BY <1>1 DEF AnswerInv, FilesOk, FileOk
<1>3. QED BY <1>1, <1>2 DEF Requests, RequestPath, Requested

\* The plan of an answer to a request on record.
LEMMA AnswerTaken ==
  ASSUME AnswerInv, NEW run, NEW id \in IdsOf("model-request"), NEW answer, NEW n \in Nat, begun <= n
  PROVE  LET plan == AnswerPlan(run, id, Requested(id), answer)
         IN /\ PlanOk(plan, Touched(plan), n, Requests)
            /\ \A s \in Range(plan) : OfAnswer(s, id, run)
<1> DEFINE plan == AnswerPlan(run, id, Requested(id), answer)
           ids == Touched(plan)
<1>1. id[2] \in 0..n /\ <<RequestPath(id), Requested(id)>> \in Requests
  BY RequestOf DEF AnswerInv
<1>2. /\ IsPlan(plan) /\ InOrder(plan)
      /\ Artifact(ResponsePath(id), [prompt |-> Requested(id), answer |-> answer]) \in Range(plan)
  BY AnsweredPlan
<1>3. ResponsePath(id) \in ids
  BY <1>2, TouchedFile
<1> HIDE DEF ids
<1>4. \A s \in Range(plan) :
        StepOk(plan, ids, s, n, Requests) /\ OfAnswer(s, id, run)
  BY <1>1, <1>3, AnsweredOk
<1> HIDE DEF plan
<1>5. PlanOk(plan, ids, n, Requests)
  BY <1>2, <1>4 DEF PlanOk
<1>6. QED BY <1>4, <1>5 DEF plan, ids

LEMMA InvokeAnswers ==
  ASSUME OneOperator, AnswerInv, Shaped', NEW p, NEW id \in IdsOf("model-request"), NEW task,
         NEW answer, InvokeModel(p, id, task, answer)
  PROVE  AnswerInv'
<1> DEFINE plan == AnswerPlan(NewRun, id, Requested(id), answer)
<1>1. /\ PromptOf(task) = Requested(id)
      /\ EventsFor("agent.model.responded", ResponsePath(id)) = {}
      /\ BeginWith(p, plan, Nothing)
  BY DEF InvokeModel, MayAnswer, ToldOf, Begin, ResponsePath
<1>2. begun + 1 \in Nat /\ begun <= begun + 1
  BY DEF AnswerInv
<1>3. /\ PlanOk(plan, Touched(plan), begun + 1, Requests)
      /\ \A s \in Range(plan) : OfAnswer(s, id, NewRun)
  BY <1>2, AnswerTaken
<1> HIDE DEF plan
<1>4. \A s \in Range(plan) : OperatorOk(s)
  BY <1>1, <1>3 DEF OperatorOk, OfAnswer
<1>5. QED BY <1>1, <1>3, <1>4, OperatorBegins

LEMMA ElsewhereAnswers ==
  ASSUME AnswerInv, Shaped', NEW p, NEW id \in IdsOf("model-request"), NEW task, NEW answer,
         InvokeElsewhere(p, id, task, answer)
  PROVE  AnswerInv'
<1> DEFINE run == <<"elsewhere", reports + 1>>
           plan == AnswerPlan(run, id, Requested(id), answer)
<1>1. BeginReport(p, plan, Nothing) /\ run[1] = "elsewhere"
  BY DEF InvokeElsewhere, MayAnswer
<1>2. begun \in Nat /\ begun <= begun
  BY DEF AnswerInv
<1> HIDE DEF run
<1>3. /\ PlanOk(plan, Touched(plan), begun, Requests)
      /\ \A s \in Range(plan) : OfAnswer(s, id, run)
  BY <1>2, AnswerTaken
<1> HIDE DEF plan
<1>4. \A s \in Range(plan) : ReaderOk(s)
  BY <1>1, <1>3 DEF ReaderOk, OfAnswer
<1>5. QED BY <1>1, <1>3, <1>4, ReaderBegins

\* Bindings and requests, and what follows them in the plan of a chat.
LEMMA AskedPlan ==
  ASSUME NEW bound, NEW run, NEW id, NEW prompt
  PROVE  LET plan == BindPlan(bound, prompt) \o PreparePlan(run, id, prompt)
         IN /\ IsPlan(plan) /\ InOrder(plan)
            /\ Artifact(RequestPath(id), prompt) \in Range(plan)
            /\ \A s \in Range(plan) : s = Artifact(RequestPath(id), prompt) \/ Aside(s)
            /\ \A s \in Range(plan) : Stage(s) \in {0, 1}
<1> DEFINE a == BindPlan(bound, prompt)
           b == PreparePlan(run, id, prompt)
<1>1. IsPlan(a) /\ InOrder(a) /\ \A s \in Range(a) : Aside(s) /\ Stage(s) = 0
  BY BindAside, UnstagedInOrder DEF AsidePlan, Aside
<1>2. /\ IsPlan(b) /\ InOrder(b)
      /\ Artifact(RequestPath(id), prompt) \in Range(b)
      /\ \A s \in Range(b) : s = Artifact(RequestPath(id), prompt) \/ Aside(s)
  BY PreparedPlan
<1>3. Stage(Artifact(RequestPath(id), prompt)) = 1
  BY StagesOfSteps DEF RequestPath
<1> HIDE DEF a, b
<1>4. \A s \in Range(a), t \in Range(b) : Goes(s, t)
  BY <1>1 DEF Goes
<1>5. IsPlan(a \o b) /\ InOrder(a \o b) /\ Range(a \o b) = Range(a) \cup Range(b)
  BY <1>1, <1>2, <1>4, Joined, JoinedInOrder
<1>6. \A s \in Range(a \o b) : s = Artifact(RequestPath(id), prompt) \/ Aside(s)
  BY <1>1, <1>2, <1>5
<1>7. \A s \in Range(a \o b) : Stage(s) \in {0, 1}
  BY <1>3, <1>6 DEF Aside
<1>8. QED BY <1>2, <1>5, <1>6, <1>7 DEF a, b

LEMMA ChatAnswers ==
  ASSUME OneOperator, AnswerInv, Shaped', NEW p, NEW task, NEW answer, Chat(p, task, answer)
  PROVE  AnswerInv'
<1> DEFINE prompt == PromptOf(task)
           id == NewId("request")
           ask == BindPlan(NewId("bind"), prompt) \o PreparePlan(NewId("ask"), id, prompt)
           assemble == [do |-> "assemble", task |-> task, bound |-> prompt]
           tell == AnswerPlan(NewRun, id, prompt, answer)
           plan == (ask \o <<assemble>>) \o tell
           ids == Touched(plan)
<1>1. BeginWith(p, plan, Nothing)
  BY DEF Chat, Begin
<1>2. /\ id[2] \in 0..(begun + 1) /\ RequestPath(id) \notin DOMAIN artifacts
      /\ EventsFor("agent.model.responded", ResponsePath(id)) = {}
  BY NewRequest
<1> HIDE DEF prompt, id
<1>3. /\ IsPlan(ask) /\ InOrder(ask)
      /\ Artifact(RequestPath(id), prompt) \in Range(ask)
      /\ \A s \in Range(ask) : s = Artifact(RequestPath(id), prompt) \/ Aside(s)
      /\ \A s \in Range(ask) : Stage(s) \in {0, 1}
  BY AskedPlan
<1>4. Aside(assemble) /\ Stage(assemble) = 0
  BY DEF Aside, Stage, Files, Tells, Answering, Audits
<1>5. /\ IsPlan(<<assemble>>) /\ InOrder(<<assemble>>) /\ Range(<<assemble>>) = {assemble}
  BY One, OneInOrder
<1>6. /\ IsPlan(tell) /\ InOrder(tell)
      /\ Artifact(ResponsePath(id), [prompt |-> prompt, answer |-> answer]) \in Range(tell)
      /\ \A s \in Range(tell) : Stage(s) \in {0, 2, 3, 4}
  <2>1. \A s \in Range(tell) : Stage(s) \in {0, 2, 3, 4}
    <3> DEFINE response == Artifact(ResponsePath(id), [prompt |-> prompt, answer |-> answer])
               told == RunEvent(NewRun, "agent.model.responded", ResponsePath(id))
               audit == Artifact(AuditPath(id), [answer |-> answer, status |-> Verdict(answer)])
               audited == RunEvent(AuditRun(NewRun), "agent.response.audit.recorded", AuditPath(id))
    <3>1. /\ \A s \in Range(tell) : s \in {response, told, audit, audited} \/ Apart(s)
          /\ Stage(response) = 2 /\ Stage(told) = 3 /\ Stage(audit) = 0 /\ Stage(audited) = 4
      BY AnsweredPlan
    <3> HIDE DEF response, told, audit, audited, tell
    <3>2. QED BY <3>1, ApartAside
  <2>2. QED BY <2>1, AnsweredPlan
<1> HIDE DEF ask, assemble
<1>7. \A s \in Range(ask), t \in Range(<<assemble>>) : Goes(s, t)
  BY <1>4, <1>5 DEF Goes
<1>8. /\ IsPlan(ask \o <<assemble>>) /\ InOrder(ask \o <<assemble>>)
      /\ Range(ask \o <<assemble>>) = Range(ask) \cup {assemble}
  BY <1>3, <1>5, <1>7, Joined, JoinedInOrder
<1>9. \A s \in Range(ask \o <<assemble>>), t \in Range(tell) : Goes(s, t)
  BY <1>3, <1>4, <1>8, <1>6 DEF Goes
<1>10. /\ IsPlan(plan) /\ InOrder(plan)
       /\ Range(plan) = Range(ask \o <<assemble>>) \cup Range(tell)
  BY <1>6, <1>8, <1>9, Joined, JoinedInOrder
<1>11. ResponsePath(id) \in ids
  BY <1>6, <1>10, TouchedFile
<1>12. Artifact(RequestPath(id), prompt) \in Range(plan) /\ Range(tell) \subseteq Range(plan)
  BY <1>3, <1>8, <1>10
<1> HIDE DEF plan, ids
<1>13. \A s \in Range(tell) :
         /\ StepOk(plan, ids, s, begun + 1, Requests)
         /\ ~Files(s, "model-request")
         /\ Answering(s) => s.entry.ref = ResponsePath(id)
  <2>1. \A s \in Range(tell) :
          StepOk(plan, ids, s, begun + 1, Requests) /\ OfAnswer(s, id, NewRun)
    BY <1>2, <1>11, <1>12, AnsweredOk, Zenon
  <2> HIDE DEF tell
  <2>2. QED BY <2>1 DEF OfAnswer
<1>14. \A s \in Range(ask) \cup {assemble} :
         /\ StepOk(plan, ids, s, begun + 1, Requests)
         /\ Files(s, "model-request") => s.at = RequestPath(id)
         /\ ~Answering(s)
  <2> DEFINE stored == Artifact(RequestPath(id), prompt)
  <2>1. StepOk(plan, ids, stored, begun + 1, Requests) /\ stored.at = RequestPath(id) /\ ~Answering(stored)
    <3>1. /\ stored \in Range(PreparePlan(NewRun, id, prompt))
          /\ StepOk(plan, ids, stored, begun + 1, Requests) /\ ~Answering(stored)
      BY <1>2, PreparedOk, PreparedPlan
    <3>2. QED BY <3>1 DEF Artifact
  <2>2. ASSUME NEW s, Aside(s)
        PROVE  StepOk(plan, ids, s, begun + 1, Requests) /\ ~Files(s, "model-request") /\ ~Answering(s)
    BY <2>2, AsideOk DEF Aside, Stage
  <2> HIDE DEF stored
  <2>3. \A s \in Range(ask) \cup {assemble} : s = stored \/ Aside(s)
    BY <1>3, <1>4 DEF stored
  <2>4. QED BY <2>1, <2>2, <2>3
<1> HIDE DEF tell
<1>15. PlanOk(plan, ids, begun + 1, Requests)
  BY <1>8, <1>10, <1>13, <1>14 DEF PlanOk
<1>16. \A s \in Range(plan) : OperatorOk(s)
  BY <1>2, <1>8, <1>10, <1>13, <1>14 DEF OperatorOk
<1>17. QED BY <1>1, <1>15, <1>16, OperatorBegins DEF ids

LEMMA AssembleAnswers ==
  ASSUME OneOperator, AnswerInv, Shaped', NEW p \in Procs, AssembleAgain(p)
  PROVE  AnswerInv'
BY OtherAnswers, CutAnswers DEF AssembleAgain, AtStep, files

LEMMA PromptStepAnswers ==
  ASSUME OneOperator, AnswerInv, Shaped', NEW p \in Procs, PromptStep(p) \/ ChatStep(p)
  PROVE  AnswerInv'
<1>1. ASSUME MemoryChanges(p)
      PROVE  AnswerInv'
  BY <1>1, FewerAnswers DEF MemoryChanges, Outside, OnlyPlanOf
<1>2. ASSUME NEW task, BindRuntime(p, task)
      PROVE  AnswerInv'
  BY <1>2, BindAside, AsideBegins DEF BindRuntime, Begin
<1>3. Staged(p) => AnswerInv'
  BY <1>2, PrepareAnswers, InvokeAnswers, ElsewhereAnswers DEF Staged
<1>4. PromptStep(p) => AnswerInv'
  BY <1>1, <1>3, ToolsAnswer DEF PromptStep
<1>5. ChatStep(p) => AnswerInv'
  BY <1>1, ToolsAnswer, ChatAnswers, InvokeAnswers, AssembleAnswers DEF ChatStep
<1>6. QED BY <1>4, <1>5

-----------------------------------------------------------------------------
(* The workspaces the prompts start from *)

Indexes == {S \in SUBSET Nat : IsFiniteSet(S)}
Below(S, i) == {j \in S : j < i}

\* What is below an index grows with the index, strictly.
LEMMA BelowGrows ==
  ASSUME NEW S \in Indexes, NEW i \in S, NEW j \in S, i < j
  PROVE  /\ Cardinality(Below(S, i)) \in Nat /\ Cardinality(Below(S, j)) \in Nat
         /\ Cardinality(Below(S, i)) < Cardinality(Below(S, j))
<1>1. /\ IsFiniteSet(Below(S, i)) /\ Cardinality(Below(S, i)) \in Nat
      /\ IsFiniteSet(Below(S, j)) /\ Cardinality(Below(S, j)) \in Nat
  BY FS_Subset, FS_CardinalityType DEF Below, Indexes
<1>2. Below(S, i) \in SUBSET Below(S, j) /\ i \in Below(S, j) /\ i \notin Below(S, i)
  <2>1. \A h \in S : h < i => h < j
    BY DEF Indexes
  <2>2. ~(i < i)
    BY DEF Indexes
  <2>3. QED BY <2>1, <2>2, Zenon DEF Below
<1>3. /\ Cardinality(Below(S, i)) <= Cardinality(Below(S, j))
      /\ Cardinality(Below(S, i)) # Cardinality(Below(S, j))
  BY <1>1, <1>2, FS_Subset, Zenon
<1>4. QED BY <1>1, <1>3

LEMMA RanksDiffer ==
  ASSUME NEW S \in Indexes, NEW i \in S, NEW j \in S,
         Cardinality(Below(S, i)) = Cardinality(Below(S, j))
  PROVE  i = j
BY BelowGrows DEF Indexes

\* There is an index of every rank.
LEMMA RankTaken ==
  ASSUME NEW S \in Indexes, NEW k \in 1..Cardinality(S)
  PROVE  \E i \in S : Cardinality(Below(S, i)) = k - 1
<1> DEFINE n == Cardinality(S)
           place == [i \in S |-> Cardinality(Below(S, i)) + 1]
<1>1. IsFiniteSet(S) /\ n \in Nat
  BY FS_CardinalityType DEF Indexes
<1>2. IsFiniteSet(1..n) /\ Cardinality(1..n) = n
  BY <1>1, FS_Interval
<1>3. ASSUME NEW i \in S
      PROVE  place[i] \in 1..n
  BY <1>1, FS_Subset, FS_CardinalityType DEF Below, Indexes
<1>4. place \in Injection(S, 1..n)
  <2>1. place \in [S -> 1..n]
    BY <1>3
  <2>2. ASSUME NEW i \in S, NEW j \in S, place[i] = place[j]
        PROVE  i = j
    BY FS_Subset, FS_CardinalityType, <2>2, RanksDiffer DEF Below, Indexes
  <2>3. QED BY <2>1, <2>2, Zenon DEF Injection, IsInjective
<1> HIDE DEF place
<1>5. place \in Surjection(S, 1..n)
  BY <1>1, <1>2, <1>4, FS_Injection, Zenon
<1>6. PICK i \in S : place[i] = k
  BY <1>5 DEF Surjection
<1>7. Cardinality(Below(S, i)) \in Nat
  BY FS_Subset, FS_CardinalityType DEF Below, Indexes
<1>8. Cardinality(Below(S, i)) + 1 = k
  BY <1>6 DEF place
<1>9. QED BY <1>7, <1>8

\* Sets of indexes of a sequence.
LEMMA IndexesOf ==
  ASSUME NEW plan, IsPlan(plan), NEW S \in SUBSET DOMAIN plan
  PROVE  S \in Indexes
<1>1. Len(plan) \in Nat /\ DOMAIN plan = 1..Len(plan)
  BY PlanLength
<1>2. IsFiniteSet(1..Len(plan))
  BY <1>1, FS_Interval
<1>3. QED BY <1>1, <1>2, FS_Subset DEF Indexes

\* Each entry is of one event of the plan, and no two are of the same.
LEMMA EntriesOfEvents ==
  ASSUME NEW plan, IsPlan(plan)
  PROVE  LET n == Cardinality(EventSteps(plan))
         IN /\ n \in Nat
            /\ DOMAIN EntriesOf(plan) = 1..n
            /\ IsPlan(EntriesOf(plan))
            /\ \E step \in [1..n -> DOMAIN plan] :
                 /\ \A k \in 1..n : plan[step[k]].do = "event"
                                    /\ EntriesOf(plan)[k] = plan[step[k]].entry
                 /\ \A k, l \in 1..n : step[k] = step[l] => k = l
<1> DEFINE S == EventSteps(plan)
           n == Cardinality(S)
           at(k) == CHOOSE i \in S : Cardinality({j \in S : j < i}) = k - 1
           step == [k \in 1..n |-> at(k)]
<1>1. S \in Indexes /\ n \in Nat /\ S \in SUBSET DOMAIN plan
  BY IndexesOf, FS_CardinalityType DEF EventSteps, Indexes
<1>2. EntriesOf(plan) = [k \in 1..n |-> plan[at(k)].entry]
  BY DEF EntriesOf
<1> HIDE DEF S, n
<1>3. ASSUME NEW k \in 1..n
      PROVE  at(k) \in S /\ Cardinality(Below(S, at(k))) = k - 1
  BY <1>1, RankTaken DEF Below, n
<1> HIDE DEF at
<1>4. /\ step \in [1..n -> DOMAIN plan]
      /\ \A k \in 1..n : plan[step[k]].do = "event" /\ EntriesOf(plan)[k] = plan[step[k]].entry
  BY <1>1, <1>2, <1>3 DEF S, EventSteps
<1>5. ASSUME NEW k \in 1..n, NEW l \in 1..n, step[k] = step[l]
      PROVE  k = l
  BY <1>3, <1>5, <1>1
<1>6. DOMAIN EntriesOf(plan) = 1..n
  BY <1>2
<1>7. IsPlan(EntriesOf(plan))
  <2>1. EntriesOf(plan) \in [1..n -> Range(EntriesOf(plan))]
    BY <1>2, <1>6 DEF Range
  <2>2. \A T : [1..n -> T] \subseteq Seq(T)
    BY <1>1
  <2>3. QED BY <2>1, <2>2, Zenon DEF IsPlan
<1> HIDE DEF step
<1>8. QED BY <1>1, <1>4, <1>5, <1>6, <1>7 DEF n, S

\* The last change of a row is the one that counts.
LEMMA GivenLast ==
  ASSUME NEW table, NEW changes, DOMAIN changes \subseteq Nat,
         NEW i \in DOMAIN changes, NEW id \in DOMAIN changes[i].put,
         \A j \in DOMAIN changes : j > i => id \notin DOMAIN changes[j].put \cup changes[j].drop
  PROVE  /\ id \in DOMAIN Changed(table, changes)
         /\ Changed(table, changes)[id] = changes[i].put[id]
<1> DEFINE concerns(j, x) == x \in DOMAIN changes[j].put \cup changes[j].drop
           gives(j, x) == /\ x \in DOMAIN changes[j].put
                          /\ \A h \in DOMAIN changes : h > j => ~concerns(h, x)
           kept == {x \in DOMAIN table : \A j \in DOMAIN changes : ~concerns(j, x)}
           given == {x \in UNION {DOMAIN changes[j].put : j \in DOMAIN changes} :
                       \E j \in DOMAIN changes : gives(j, x)}
           giver(x) == CHOOSE j \in DOMAIN changes : gives(j, x)
<1>1. Changed(table, changes) =
        [x \in kept \cup given |-> IF x \in kept THEN table[x] ELSE changes[giver(x)].put[x]]
  BY DEF Changed
<1>2. gives(i, id)
  OBVIOUS
<1>3. id \in given /\ id \notin kept
  BY <1>2
<1>4. giver(id) = i
  <2>1. ASSUME NEW j \in DOMAIN changes, gives(j, id)
        PROVE  j = i
    BY <2>1
  <2>2. QED BY <1>2, <2>1
<1>5. QED BY <1>1, <1>3, <1>4

\* What only one change gives is what it gives.
LEMMA GivenOnce ==
  ASSUME NEW table, NEW changes, DOMAIN changes \subseteq Nat,
         NEW i \in DOMAIN changes, NEW id \in DOMAIN changes[i].put,
         \A j \in DOMAIN changes : id \in DOMAIN changes[j].put \cup changes[j].drop => j = i
  PROVE  /\ id \in DOMAIN Changed(table, changes)
         /\ Changed(table, changes)[id] = changes[i].put[id]
<1>1. ASSUME NEW j \in DOMAIN changes, j > i
      PROVE  id \notin DOMAIN changes[j].put \cup changes[j].drop
  <2>1. ~(i > i)
    OBVIOUS
  <2>2. QED BY <1>1, <2>1
<1>2. QED BY <1>1, GivenLast

\* An artifact of a workspace that starts with a plan is what the plan wrote.
LEMMA WrittenByPlan ==
  ASSUME NEW plan, NEW path \in DOMAIN CarriedOut(NoPrompts, plan).artifacts
  PROVE  \E s \in Range(plan) :
           s.do = "artifact" /\ s.at = path /\ s.value = CarriedOut(NoPrompts, plan).artifacts[path]
<1> DEFINE stored == [i \in DOMAIN plan |-> FileChange(plan[i])]
<1>1. CarriedOut(NoPrompts, plan).artifacts = Changed(Nothing, stored)
  BY DEF CarriedOut, NoPrompts
<1>2. PICK i \in DOMAIN stored :
        path \in DOMAIN stored[i].put /\ Changed(Nothing, stored)[path] = stored[i].put[path]
  BY <1>1, ChangedRow DEF Nothing
<1>3. plan[i].do = "artifact" /\ stored[i].put = Single(plan[i].at, plan[i].value)
  BY <1>2 DEF FileChange, NoChange, Nothing
<1>4. path = plan[i].at /\ stored[i].put[path] = plan[i].value
  BY <1>2, <1>3 DEF Single
<1> HIDE DEF stored
<1>5. i \in DOMAIN plan
  BY <1>2 DEF stored
<1>6. QED BY <1>1, <1>2, <1>3, <1>4, <1>5 DEF Range

\* The request of a plan in order is written once.
LEMMA WrittenRequest ==
  ASSUME NEW plan, IsPlan(plan), InOrder(plan), NEW id, NEW prompt,
         Artifact(RequestPath(id), prompt) \in Range(plan)
  PROVE  /\ RequestPath(id) \in DOMAIN CarriedOut(NoPrompts, plan).artifacts
         /\ CarriedOut(NoPrompts, plan).artifacts[RequestPath(id)] = prompt
<1> DEFINE stored == [i \in DOMAIN plan |-> FileChange(plan[i])]
           path == RequestPath(id)
<1>1. CarriedOut(NoPrompts, plan).artifacts = Changed(Nothing, stored)
  BY DEF CarriedOut, NoPrompts
<1>2. Len(plan) \in Nat /\ DOMAIN plan = 1..Len(plan) /\ DOMAIN stored = DOMAIN plan
  BY PlanLength
<1>3. PICK i \in DOMAIN plan : plan[i] = Artifact(path, prompt)
  BY DEF Range
<1>4. path[1] = "agent" /\ path[2] = "model-request"
  BY KindsOfPaths DEF RequestPath
<1> HIDE DEF path
<1>5. stored[i].put = Single(path, prompt)
  BY <1>3 DEF FileChange, Artifact, NoChange
<1>6. ASSUME NEW j \in DOMAIN stored, path \in DOMAIN stored[j].put \cup stored[j].drop
      PROVE  j = i
  <2>1. plan[j].do = "artifact" /\ plan[j].at = path
    BY <1>2, <1>6 DEF FileChange, NoChange, Nothing, Single
  <2>2. Stage(plan[j]) = 1 /\ Stage(plan[i]) = 1
    BY <1>3, <1>4, <2>1 DEF Stage, Files, Artifact
  <2>3. ~Goes(plan[i], plan[j]) /\ ~Goes(plan[j], plan[i])
    BY <2>2 DEF Goes
  <2>4. ~(i < j) /\ ~(j < i)
    BY <1>2, <2>3 DEF InOrder
  <2>5. QED BY <1>2, <2>4
<1>7. path \in DOMAIN stored[i].put /\ stored[i].put[path] = prompt
  BY <1>5 DEF Single
<1> HIDE DEF stored
<1>8. DOMAIN stored \subseteq Nat /\ i \in DOMAIN stored
  BY <1>2
<1>9. path \in DOMAIN Changed(Nothing, stored) /\ Changed(Nothing, stored)[path] = prompt
  BY <1>6, <1>7, <1>8, GivenOnce
<1>10. QED BY <1>1, <1>9 DEF path, stored

\* A workspace whose history so far was a plan.
LEMMA StartsAnswered ==
  ASSUME NEW plan, NEW ids, PlanOk(plan, ids, 0, {}), begun = 0,
         artifacts = CarriedOut(NoPrompts, plan).artifacts, log = CarriedOut(NoPrompts, plan).log
  PROVE  FilesOk /\ LogOk
<1>1. IsPlan(plan) /\ InOrder(plan) /\ \A s \in Range(plan) : StepOk(plan, ids, s, 0, {})
  BY DEF PlanOk
<1>2. ASSUME NEW path \in DOMAIN artifacts
      PROVE  \E s \in Range(plan) : s.do = "artifact" /\ s.at = path /\ s.value = artifacts[path]
  BY <1>2, WrittenByPlan
<1>3. \A path \in DOMAIN artifacts : FileOk(path, artifacts[path], begun)
  BY <1>1, <1>2 DEF StepOk
<1>4. ASSUME NEW path \in DOMAIN artifacts, path[1] = "agent", path[2] = "model-response"
      PROVE  <<RequestPath(path[3]), artifacts[path].prompt>> \in Requests
  <2>1. PICK s \in Range(plan) : s.do = "artifact" /\ s.at = path /\ s.value = artifacts[path]
    BY <1>2
  <2>2. Artifact(RequestPath(path[3]), artifacts[path].prompt) \in Range(plan)
    BY <1>1, <1>4, <2>1 DEF StepOk, Files
  <2>3. /\ RequestPath(path[3]) \in DOMAIN artifacts
        /\ artifacts[RequestPath(path[3])] = artifacts[path].prompt
    BY <1>1, <2>2, WrittenRequest
  <2>4. RequestPath(path[3])[1] = "agent" /\ RequestPath(path[3])[2] = "model-request"
    BY KindsOfPaths DEF RequestPath
  <2>5. QED BY <2>3, <2>4 DEF Requests
<1>5. FilesOk
  BY <1>3, <1>4 DEF FilesOk
<1> DEFINE first == [type |-> "run.completed", ref |-> <<>>, run |-> Earlier("start")]
           entries == EntriesOf(plan)
           n == Cardinality(EventSteps(plan))
<1>6. log = <<first>> \o entries
  BY DEF CarriedOut, NoPrompts
<1>7. /\ n \in Nat /\ DOMAIN entries = 1..n /\ IsPlan(entries)
      /\ \E step \in [1..n -> DOMAIN plan] :
           /\ \A k \in 1..n : plan[step[k]].do = "event" /\ entries[k] = plan[step[k]].entry
           /\ \A k, l \in 1..n : step[k] = step[l] => k = l
  BY <1>1, EntriesOfEvents
<1>8. PICK step \in [1..n -> DOMAIN plan] :
        /\ \A k \in 1..n : plan[step[k]].do = "event" /\ entries[k] = plan[step[k]].entry
        /\ \A k, l \in 1..n : step[k] = step[l] => k = l
  BY <1>7
<1>9. IsPlan(<<first>>) /\ Len(<<first>>) = 1 /\ <<first>>[1] = first
  BY One
<1>10. first.type # "agent.model.responded"
  OBVIOUS
<1> HIDE DEF first, entries, n
<1>11. Len(entries) = n
  BY <1>7, PlanLength
<1>12. IsPlan(log) /\ DOMAIN log = 1..(n + 1) /\ log[1] = first
       /\ \A k \in 1..n : log[1 + k] = entries[k]
  <2>1. IsPlan(log)
    BY <1>6, <1>7, <1>9, Joined
  <2>2. Len(log) = 1 + n /\ log[1] = first /\ \A k \in 1..n : log[1 + k] = entries[k]
    BY <1>6, <1>7, <1>9, <1>11, JoinedAt
  <2>3. QED BY <1>7, <2>1, <2>2, PlanLength
<1>13. ASSUME NEW i \in DOMAIN log, log[i].type = "agent.model.responded"
       PROVE  /\ i - 1 \in 1..n /\ i \in Nat
              /\ plan[step[i - 1]] \in Range(plan) /\ step[i - 1] \in 1..Len(plan)
              /\ Answering(plan[step[i - 1]]) /\ log[i] = plan[step[i - 1]].entry
  <2>1. i - 1 \in 1..n /\ i \in Nat /\ i = 1 + (i - 1)
    BY <1>7, <1>10, <1>12, <1>13
  <2>2. log[i] = entries[i - 1]
    BY <1>12, <2>1
  <2>3. step[i - 1] \in 1..Len(plan) /\ plan[step[i - 1]] \in Range(plan)
    BY <1>1, <1>8, <2>1, PlanLength
  <2>4. plan[step[i - 1]].do = "event" /\ entries[i - 1] = plan[step[i - 1]].entry
    BY <1>8, <2>1
  <2>5. QED BY <1>13, <2>1, <2>2, <2>3, <2>4 DEF Answering, Tells
<1>14. \A i \in DOMAIN log : EventOk(log[i], begun)
  <2>1. SUFFICES ASSUME NEW i \in DOMAIN log, log[i].type = "agent.model.responded"
                 PROVE  log[i].ref[3][2] \in 0..begun
    BY DEF EventOk
  <2>2. PICK s \in Range(plan) : Answering(s) /\ log[i] = s.entry
    BY <1>13, <2>1
  <2>3. EventOk(s.entry, 0)
    BY <1>1, <2>2 DEF StepOk, Answering, Tells
  <2>4. QED BY <2>1, <2>2, <2>3 DEF EventOk
<1>15. AnsweredOnce
  <2>1. SUFFICES ASSUME NEW i \in DOMAIN log, NEW j \in DOMAIN log, i < j,
                        log[i].type = "agent.model.responded", log[j].type = "agent.model.responded"
                 PROVE  FALSE
    BY DEF AnsweredOnce
  <2> DEFINE a == step[i - 1]
             b == step[j - 1]
  <2>2. /\ i - 1 \in 1..n /\ j - 1 \in 1..n /\ i \in Nat /\ j \in Nat
        /\ a \in 1..Len(plan) /\ b \in 1..Len(plan)
        /\ Answering(plan[a]) /\ Answering(plan[b])
    BY <1>13, <2>1
  <2>3. a # b
    <3>1. i - 1 # j - 1
      BY <2>1, <2>2
    <3>2. QED BY <1>8, <2>2, <3>1
  <2> HIDE DEF a, b
  <2>4. Stage(plan[a]) = 3 /\ Stage(plan[b]) = 3
    BY <2>2 DEF Stage, Files, Answering, Tells
  <2>5. ~Goes(plan[a], plan[b]) /\ ~Goes(plan[b], plan[a])
    BY <2>4 DEF Goes
  <2>6. Len(plan) \in Nat
    BY <1>1, PlanLength
  <2>7. a < b \/ b < a
    BY <2>2, <2>3, <2>6
  <2>8. QED BY <1>1, <2>2, <2>5, <2>7 DEF InOrder
<1>16. QED BY <1>5, <1>12, <1>14, <1>15 DEF LogOk

\* A workspace in which nothing was asked.
LEMMA NothingAnswered ==
  ASSUME artifacts = NoPrompts.artifacts, log = NoPrompts.log
  PROVE  FilesOk /\ LogOk
<1> DEFINE first == [type |-> "run.completed", ref |-> <<>>, run |-> Earlier("start")]
<1>1. artifacts = Nothing /\ log = <<first>>
  BY DEF NoPrompts
<1>2. DOMAIN artifacts = {}
  BY <1>1 DEF Nothing
<1>3. first.type # "agent.model.responded"
  OBVIOUS
<1> HIDE DEF first
<1>4. IsPlan(log) /\ \A i \in DOMAIN log : log[i].type # "agent.model.responded"
  BY <1>1, <1>3, One
<1>5. FilesOk
  BY <1>2 DEF FilesOk
<1>6. QED BY <1>4, <1>5 DEF LogOk, EventOk, AnsweredOnce

\* The request that waits for its answer, and the answer that passed its audit.
LEMMA StartingPlans ==
  ASSUME NEW task
  PROVE  LET id == Earlier("request")
             asked == BindPlan(Earlier("bind"), task) \o PreparePlan(Earlier("ask"), id, task)
             answered == asked \o AnswerPlan(Earlier("run"), id, task, "conforming")
         IN \A plan \in {asked, answered} : PlanOk(plan, {ResponsePath(id)}, 0, {})
<1> DEFINE id == Earlier("request")
           ids == {ResponsePath(id)}
           asked == BindPlan(Earlier("bind"), task) \o PreparePlan(Earlier("ask"), id, task)
           tell == AnswerPlan(Earlier("run"), id, task, "conforming")
           answered == asked \o tell
<1>1. id[2] \in 0..0 /\ ResponsePath(id) \in ids
  BY DEF Earlier
<1> HIDE DEF id
<1>2. /\ IsPlan(asked) /\ InOrder(asked)
      /\ Artifact(RequestPath(id), task) \in Range(asked)
      /\ \A s \in Range(asked) : s = Artifact(RequestPath(id), task) \/ Aside(s)
      /\ \A s \in Range(asked) : Stage(s) \in {0, 1}
  BY AskedPlan
<1>3. IsPlan(tell) /\ InOrder(tell)
  BY AnsweredPlan
<1>4. \A plan, asks : StepOk(plan, ids, Artifact(RequestPath(id), task), 0, asks)
  BY PreparedPlan, <1>1, PreparedOk
<1>5. \A plan : \A s \in Range(asked) : StepOk(plan, ids, s, 0, {})
  BY <1>2, <1>4, AsideOk
<1>6. Artifact(RequestPath(id), task) \in Range(asked)
  BY <1>2
<1> HIDE DEF asked, ids
<1>7. PlanOk(asked, ids, 0, {})
  BY <1>2, <1>5 DEF PlanOk
<1>8. ASSUME NEW plan, Range(tell) \subseteq Range(plan), Range(asked) \subseteq Range(plan)
      PROVE  \A s \in Range(tell) : StepOk(plan, ids, s, 0, {}) /\ Stage(s) \in {0, 2, 3, 4}
  <2>1. Artifact(RequestPath(id), task) \in Range(plan)
    BY <1>6, <1>8
  <2>2. \A s \in Range(tell) :
          StepOk(plan, ids, s, 0, {}) /\ OfAnswer(s, id, Earlier("run"))
    BY <1>1, <1>8, <2>1, AnsweredOk, Zenon
  <2> HIDE DEF tell
  <2>3. QED BY <2>2 DEF OfAnswer
<1> HIDE DEF tell
<1>9. \A s \in Range(asked), t \in Range(tell) : Goes(s, t)
  <2>1. \A t \in Range(tell) : Stage(t) \in {0, 2, 3, 4}
    BY <1>2, <1>3, Joined, <1>8
  <2>2. QED BY <1>2, <2>1 DEF Goes
<1>10. /\ IsPlan(answered) /\ InOrder(answered)
       /\ Range(answered) = Range(asked) \cup Range(tell)
  BY <1>2, <1>3, <1>9, Joined, JoinedInOrder
<1> HIDE DEF answered
<1>11. PlanOk(answered, ids, 0, {})
  BY <1>5, <1>8, <1>10 DEF PlanOk
<1>12. QED BY <1>7, <1>11 DEF ids, asked, answered, tell, id

LEMMA InitPromptInv == Init => PromptInv
<1> SUFFICES ASSUME Init, family \in PromptFamilies PROVE AnswerInv
  BY DEF PromptInv
<1>1. begun = 0 /\ \A p \in Procs : proc[p].plan = <<>>
  BY DEF Init, IdleProc
<1>2. PlansOk
  BY <1>1, None, UnstagedInOrder DEF PlansOk, PlanOk, Procs
<1>3. PICK s \in PromptStarts : artifacts = s.artifacts /\ log = s.log
  BY DEF Init, Starts, PromptFamilies, PromptStarts
<1>4. CASE s = NoPrompts
  BY <1>1, <1>2, <1>3, <1>4, NothingAnswered, InitShaped DEF AnswerInv
<1>5. CASE s # NoPrompts
  <2> DEFINE id == Earlier("request")
             asked(task) == BindPlan(Earlier("bind"), task) \o PreparePlan(Earlier("ask"), id, task)
             answered(task) == asked(task) \o AnswerPlan(Earlier("run"), id, task, "conforming")
  <2>1. PICK task \in Tasks : s \in {CarriedOut(NoPrompts, asked(task)), CarriedOut(NoPrompts, answered(task))}
    BY <1>3, <1>5 DEF PromptStarts
  <2>2. \E plan : PlanOk(plan, {ResponsePath(id)}, 0, {}) /\ s = CarriedOut(NoPrompts, plan)
    BY <2>1, StartingPlans
  <2>3. FilesOk /\ LogOk
    BY <1>1, <1>3, <2>2, StartsAnswered
  <2>4. QED BY <1>1, <1>2, <2>3, InitShaped DEF AnswerInv
<1>6. QED BY <1>4, <1>5

LEMMA StepPromptInv == OneOperator /\ PromptInv /\ [Next]_govVars => PromptInv'
<1> SUFFICES ASSUME OneOperator, PromptInv, [Next]_govVars, family' \in PromptFamilies
             PROVE  AnswerInv'
  BY DEF PromptInv
<1>1. family' = family /\ family \in PromptFamilies /\ AnswerInv /\ Shaped'
  BY NextMoves DEF Moves, PromptInv, AnswerInv
<1>2. CASE UNCHANGED govVars
  BY <1>1, <1>2, SameRecords DEF AnswerInv, govVars, files, PlansOk, OperatorOk, EventsFor
<1>3. ASSUME NEW p \in Procs, FamilyStep(p)
      PROVE  PromptStep(p) \/ ChatStep(p)
  BY <1>1, <1>3 DEF FamilyStep, PromptFamilies
<1>4. QED BY <1>1, <1>2, <1>3, WriteAnswers, PromptStepAnswers DEF Next

\* With one operator the answer on record is always to the prompt its request was
\* bound to, whatever has happened to the memories since, and of two answers to
\* one request one at least is of a second terminal: for every number of tasks,
\* commands, kills and second terminals (runPromptInvokeModel, model chat and
\* assertPromptMatchesBoundRequest in packages/tui/src/cli.ts).
THEOREM AnswersAlwaysBound ==
  ASSUME OneOperator
  PROVE  Spec => []AnswersBoundPrompt
<1>1. PromptInv => AnswersBoundPrompt
  <2> SUFFICES ASSUME AnswerInv PROVE AnswersBoundPrompt
    BY DEF PromptInv, AnswersBoundPrompt, PromptFamilies
  <2>1. ASSUME NEW id \in IdsOf("model-response")
        PROVE  artifacts[AgentPath("model-response", id)].prompt = Requested(id)
    <3>1. PICK path \in DOMAIN artifacts : path[1] = "agent" /\ path[2] = "model-response" /\ path[3] = id
      BY DEF IdsOf
    <3>2. /\ path = AgentPath("model-response", id)
          /\ <<RequestPath(id), artifacts[path].prompt>> \in Requests
      BY <3>1 DEF AnswerInv, FilesOk, FileOk
    <3>3. artifacts[RequestPath(id)] = artifacts[path].prompt
      BY <3>2 DEF Requests
    <3>4. QED BY <3>2, <3>3 DEF RequestPath, Requested
  <2>2. QED BY <2>1 DEF AnswersBoundPrompt, AnswerInv, LogOk, AnsweredOnce
<1>2. PromptInv /\ [Next]_govVars => PromptInv'
  BY StepPromptInv
<1>3. QED BY <1>1, <1>2, InitPromptInv, PTL DEF Spec

-----------------------------------------------------------------------------
(* Prompts: proposals and the answers they rest on *)

OperatorSteps == UNION {Range(proc[q].plan) : q \in Operators}

\* The proposals on record, and those that are being written.
Proposals ==
    {artifacts[path] : path \in {q \in DOMAIN artifacts : q[1] = "agent" /\ q[2] = "tool-request-proposal"}}
    \cup {s.value : s \in {t \in OperatorSteps : Files(t, "tool-request-proposal")}}

AuditsOf(id) == EventsFor("agent.response.audit.recorded", AuditPath(id))

\* A second terminal has still to tell of an audit of the answer.
Pending(id) ==
    \E q \in Readers : \E s \in Range(proc[q].plan) : Audits(s) /\ s.entry.ref = AuditPath(id)

\* A proposal cites the first audit of the answer; unless that audit is not the
\* last, the answer on record conforms, or is being replaced.
Rests(id) == ResponsePath(id) \in DOMAIN artifacts /\ Conforms(id)
Standing(v) ==
    LET id == v.request
        k == v.evidence.audited
    IN /\ ToldOf("agent.model.responded", ResponsePath(id))
       /\ k \in AuditsOf(id)
       /\ \A j \in AuditsOf(id) : k <= j
       /\ \/ \E j \in AuditsOf(id) : j # k
          \/ Rests(id)
          \/ Pending(id)

\* The operator replaces no answer a proposal rests on.
ProposalInv ==
    /\ \A v \in Proposals : Standing(v)
    /\ \A s \in OperatorSteps : Files(s, "model-response") => \A v \in Proposals : v.request # s.at[3]

ToolInv == family \in PromptFamilies => AnswerInv /\ ProposalInv

LEMMA FewerProposals ==
  ASSUME ProposalInv, OperatorSteps' \subseteq OperatorSteps, Proposals' \subseteq Proposals,
         \A v \in Proposals : Standing(v) => Standing(v)'
  PROVE  ProposalInv'
BY DEF ProposalInv

\* Nothing is written, and the second terminals keep what they have to tell.
LEMMA SameStanding ==
  ASSUME UNCHANGED <<artifacts, log>>, \A id : Pending(id) => Pending(id)', NEW v, Standing(v)
  PROVE  Standing(v)'
BY DEF AuditsOf, EventsFor, Rests, Conforms, Standing, ToldOf

\* What a process has to tell after its next step it has still to tell.
LEMMA PendingLeft ==
  ASSUME AnswerInv, NEW p \in Procs, Advance(p), ~Idle(p), NEW id, Pending(id),
         ~(Audits(Head(proc[p].plan)) /\ Head(proc[p].plan).entry.ref = AuditPath(id))
  PROVE  Pending(id)'
<1>1. PICK q \in Readers : \E t \in Range(proc[q].plan) : Audits(t) /\ t.entry.ref = AuditPath(id)
  BY DEF Pending
<1>2. PICK s \in Range(proc[q].plan) : Audits(s) /\ s.entry.ref = AuditPath(id)
  BY <1>1
<1>3. /\ proc[p].plan # <<>> /\ IsPlan(proc[p].plan) /\ OnlyPlanOf(p)
      /\ proc'[p].plan = Tail(proc[p].plan)
  BY Advanced
<1>4. s \in Range(proc'[q].plan)
  BY <1>2, <1>3, FirstOrLater DEF OnlyPlanOf, Procs
<1>5. QED BY <1>2, <1>4 DEF Pending

\* The plans of the operators are shorter, or as they were.
LEMMA StepsLeft ==
  ASSUME AnswerInv, NEW p \in Procs, Advance(p), ~Idle(p)
  PROVE  OperatorSteps' \subseteq OperatorSteps
BY Advanced DEF OperatorSteps, Procs

LEMMA StoreStands ==
  ASSUME AnswerInv, ProposalInv, NEW p \in Procs, StoreArtifact(p)
  PROVE  ProposalInv'
<1> DEFINE plan == proc[p].plan
           s == Head(plan)
<1>1. /\ Advance(p) /\ ~Idle(p) /\ s.do = "artifact" /\ UNCHANGED log
      /\ artifacts' = Over(Single(s.at, s.value), artifacts)
  BY DEF StoreArtifact, AtStep
<1>2. /\ plan # <<>> /\ IsPlan(plan) /\ s \in Range(plan)
      /\ proc'[p].plan = Tail(plan) /\ PlanOk(plan, proc[p].ids, begun, Requests)
  BY <1>1, Advanced
<1>3. OperatorSteps' \subseteq OperatorSteps
  BY <1>1, StepsLeft
<1>4. p \in Operators => s \in OperatorSteps
  BY <1>2 DEF OperatorSteps
<1>5. Files(s, "tool-request-proposal") => p \in Operators
  BY <1>2 DEF AnswerInv, PlansOk, ReaderOk, Procs
<1>6. StepOk(plan, proc[p].ids, s, begun, Requests)
  BY <1>2 DEF PlanOk
<1>7. \A id : Pending(id) => Pending(id)'
  BY <1>1, PendingLeft DEF Audits, Tells
<1>8. \A t \in Range(plan) : t = s \/ t \in Range(proc'[p].plan)
  BY <1>2, FirstOrLater
<1> HIDE DEF s
<1>9. /\ DOMAIN artifacts' = DOMAIN artifacts \cup {s.at}
      /\ artifacts'[s.at] = s.value
      /\ \A path \in DOMAIN artifacts : path # s.at => artifacts'[path] = artifacts[path]
  BY <1>1 DEF Over, Single
<1>10. Proposals' \subseteq Proposals
  <2>1. ASSUME NEW path \in DOMAIN artifacts', path[1] = "agent", path[2] = "tool-request-proposal"
        PROVE  artifacts'[path] \in Proposals
    <3>1. CASE path = s.at
      BY <1>1, <1>4, <1>5, <2>1, <3>1, <1>9 DEF Files, Proposals
    <3>2. CASE path # s.at
      BY <1>9, <2>1, <3>2 DEF Proposals
    <3>3. QED BY <3>1, <3>2
  <2>2. \A t \in OperatorSteps' : Files(t, "tool-request-proposal") => t.value \in Proposals
    BY <1>3 DEF Proposals
  <2>3. QED BY <2>1, <2>2 DEF Proposals
<1>11. ASSUME NEW v \in Proposals, Standing(v)
       PROVE  Standing(v)'
  <2> DEFINE id == v.request
  <2>1. AuditsOf(id)' = AuditsOf(id) /\ ToldOf("agent.model.responded", ResponsePath(id))'
    BY <1>1, <1>11 DEF AuditsOf, EventsFor, ToldOf, Standing
  <2>2. ASSUME Rests(id)
        PROVE  Rests(id)' \/ Pending(id)'
    <3>1. CASE s.at # ResponsePath(id)
      BY <1>9, <2>2, <3>1 DEF Rests, Conforms, ResponsePath
    <3>2. CASE s.at = ResponsePath(id)
      <4>1. s.at[3] = id /\ Files(s, "model-response")
        BY <1>1, <3>2, KindsOfPaths DEF ResponsePath, Files
      <4>2. p \notin Operators
        BY <1>4, <4>1 DEF ProposalInv
      <4>3. PICK t \in Range(plan) : Audits(t) /\ t.entry.ref = AuditPath(id)
        BY <1>6, <4>1 DEF StepOk
      <4>4. t # s
        BY <1>1, <4>3 DEF Audits, Tells
      <4>5. p \in Readers /\ t \in Range(proc'[p].plan)
        BY <1>8, <4>2, <4>4 DEF Procs
      <4>6. QED BY <4>3, <4>5 DEF Pending
    <3>3. QED BY <3>1, <3>2
  <2>3. QED BY <1>7, <1>11, <2>1, <2>2 DEF Standing
<1>12. QED BY <1>3, <1>10, <1>11, FewerProposals

LEMMA AppendStands ==
  ASSUME AnswerInv, ProposalInv, NEW p \in Procs, AppendEvent(p)
  PROVE  ProposalInv'
<1> DEFINE s == Head(proc[p].plan)
           e == s.entry
           n == Len(log) + 1
<1>1. /\ Advance(p) /\ ~Idle(p) /\ s.do = "event" /\ UNCHANGED artifacts
      /\ log' = Append(log, e)
  BY DEF AppendEvent, AtStep
<1>2. /\ DOMAIN log' = DOMAIN log \cup {n} /\ log'[n] = e
      /\ \A i \in DOMAIN log : log'[i] = log[i] /\ i < n /\ i \in Nat
  BY <1>1, AppendedLog DEF AnswerInv, LogOk
<1>3. n \in Nat
  BY PlanLength DEF AnswerInv, LogOk
<1>4. OperatorSteps' \subseteq OperatorSteps
  BY <1>1, StepsLeft
<1>5. \A id : Pending(id) => Pending(id)' \/ (Audits(s) /\ e.ref = AuditPath(id))
  BY <1>1, PendingLeft
<1> HIDE DEF s, n
<1>6. Proposals' \subseteq Proposals
  BY <1>1, <1>4 DEF Proposals
<1>7. ASSUME NEW v \in Proposals, Standing(v)
      PROVE  Standing(v)'
  <2> DEFINE id == v.request
             k == v.evidence.audited
  <2>1. /\ k \in AuditsOf(id) /\ \A j \in AuditsOf(id) : k <= j
        /\ ToldOf("agent.model.responded", ResponsePath(id))
    BY <1>7 DEF Standing
  <2>2. /\ AuditsOf(id) \subseteq AuditsOf(id)' /\ AuditsOf(id)' \subseteq AuditsOf(id) \cup {n}
        /\ n \in AuditsOf(id)' <=> Audits(s) /\ e.ref = AuditPath(id)
    BY <1>1, <1>2 DEF AuditsOf, EventsFor, Audits, Tells
  <2>3. ToldOf("agent.model.responded", ResponsePath(id))'
    BY <1>2, <2>1 DEF ToldOf, EventsFor
  <2>4. k < n /\ k \in Nat
    BY <1>2, <2>1 DEF AuditsOf, EventsFor
  <2>5. k \in AuditsOf(id)' /\ \A j \in AuditsOf(id)' : k <= j
    BY <1>3, <2>1, <2>2, <2>4
  <2>6. Rests(id)' <=> Rests(id)
    BY <1>1 DEF Rests, Conforms
  <2>7. CASE Audits(s) /\ e.ref = AuditPath(id)
    BY <1>3, <2>2, <2>4, <2>7, <2>3, <2>5 DEF Standing
  <2>8. CASE ~(Audits(s) /\ e.ref = AuditPath(id))
    BY <2>2, <2>8, <1>5, <1>7, <2>3, <2>6 DEF Standing
  <2>9. QED BY <2>7, <2>8
<1>8. QED BY <1>4, <1>6, <1>7, FewerProposals

\* Only a plan has changed: it is shorter, or as it was, or it is of an operator
\* and none is left of it.
LEMMA PlansStand ==
  ASSUME AnswerInv, ProposalInv, UNCHANGED <<artifacts, log>>,
         OperatorSteps' \subseteq OperatorSteps, \A id : Pending(id) => Pending(id)'
  PROVE  ProposalInv'
BY SameStanding, FewerProposals DEF Proposals

LEMMA AdvanceStands ==
  ASSUME AnswerInv, ProposalInv, NEW p \in Procs, Advance(p), ~Idle(p), UNCHANGED <<artifacts, log>>,
         Head(proc[p].plan).do # "event"
  PROVE  ProposalInv'
BY PendingLeft, StepsLeft, PlansStand DEF Audits, Tells

LEMMA CutStands ==
  ASSUME AnswerInv, ProposalInv, NEW p \in Operators, CutShort(p), UNCHANGED <<artifacts, log>>
  PROVE  ProposalInv'
<1>1. DOMAIN proc = Procs
  BY DEF AnswerInv, Shaped
<1>2. \A q \in Procs : proc'[q].plan = IF q = p THEN <<>> ELSE proc[q].plan
  BY <1>1 DEF CutShort, IdleProc, Procs
<1>3. OperatorSteps' \subseteq OperatorSteps
  BY <1>2, None DEF OperatorSteps, Procs
<1>4. \A id : Pending(id) => Pending(id)'
  BY <1>2, ReadersReport DEF Pending, Procs
<1>5. QED BY <1>3, <1>4, PlansStand

LEMMA WriteStands ==
  ASSUME AnswerInv, ProposalInv, NEW p \in Procs, Write(p) \/ Kill(p)
  PROVE  ProposalInv'
<1>1. ASSUME WriteTable(p)
      PROVE  ProposalInv'
  BY <1>1, AdvanceStands DEF WriteTable, AtStep
<1>2. ASSUME ReadTable(p)
      PROVE  ProposalInv'
  <2>1. DOMAIN proc = Procs /\ DOMAIN proc[p] = ProcFields
    BY DEF AnswerInv, Shaped
  <2>2. \A q \in Procs : proc'[q].plan = proc[q].plan
    BY <1>2, <2>1 DEF ReadTable, ProcFields
  <2>3. OperatorSteps' \subseteq OperatorSteps /\ \A id : Pending(id) => Pending(id)'
    BY <2>2 DEF OperatorSteps, Pending, Procs
  <2>4. QED BY <1>2, <2>3, PlansStand DEF ReadTable, files
<1>3. ASSUME Kill(p)
      PROVE  ProposalInv'
  BY <1>3, CutStands DEF Kill, files
<1>4. QED BY <1>1, <1>2, <1>3, StoreStands, AppendStands DEF Write

\* An operator begins: he answers no request that was answered.
LEMMA OperatorStands ==
  ASSUME OneOperator, AnswerInv, ProposalInv, NEW p, NEW plan, NEW view, BeginWith(p, plan, view),
         \A s \in Range(plan) : Files(s, "tool-request-proposal") => Standing(s.value),
         \A s \in Range(plan) : Files(s, "model-response") =>
           /\ ~Proposes(plan)
           /\ ~ToldOf("agent.model.responded", ResponsePath(s.at[3]))
  PROVE  ProposalInv'
<1>1. /\ p \in Operators /\ DOMAIN proc = Procs /\ UNCHANGED <<artifacts, log>>
      /\ proc' = [proc EXCEPT ![p] = [plan |-> plan, held |-> <<>>, view |-> view,
                                      ids |-> Touched(plan)]]
  BY DEF BeginWith, StartPlan, files, AnswerInv, Shaped
<1>2. \A q \in Procs : proc'[q].plan = IF q = p THEN plan ELSE proc[q].plan
  BY <1>1
<1>3. OperatorSteps' = Range(plan)
  BY <1>1, <1>2 DEF OperatorSteps, OneOperator, Procs
<1>4. \A id : Pending(id) => Pending(id)'
  BY <1>1, <1>2, ReadersReport DEF Pending, Procs
<1>5. \A v \in Proposals' :
        v \in Proposals \/ \E s \in Range(plan) : Files(s, "tool-request-proposal") /\ s.value = v
  BY <1>1, <1>3 DEF Proposals
<1>6. \A v \in Proposals' : Standing(v)
  BY <1>5 DEF ProposalInv
<1>7. \A v \in Proposals' : Standing(v)'
  BY <1>1, <1>4, <1>6, SameStanding
<1>8. ASSUME NEW s \in OperatorSteps', Files(s, "model-response"), NEW v \in Proposals'
      PROVE  v.request # s.at[3]
  BY <1>3, <1>6, <1>8 DEF Standing
<1>9. QED BY <1>7, <1>8 DEF ProposalInv

\* A second terminal begins.
LEMMA ReaderStands ==
  ASSUME AnswerInv, ProposalInv, NEW p, NEW plan, NEW view, BeginReport(p, plan, view)
  PROVE  ProposalInv'
<1>1. /\ p \in Readers /\ DOMAIN proc = Procs /\ UNCHANGED <<artifacts, log>>
      /\ \A q \in Procs : q # p => proc'[q] = proc[q]
      /\ proc[p].plan = <<>>
  BY DEF BeginReport, StartPlan, files, AnswerInv, Shaped, Idle
<1>2. OperatorSteps' \subseteq OperatorSteps
  BY <1>1, ReadersReport DEF OperatorSteps, Procs
<1>3. \A id : Pending(id) => Pending(id)'
  BY <1>1, None DEF Pending, Procs
<1>4. QED BY <1>1, <1>2, <1>3, PlansStand

-----------------------------------------------------------------------------
(* Plans that propose nothing *)

LEMMA AsideFiles ==
  ASSUME NEW plan, AsidePlan(plan)
  PROVE  \A s \in Range(plan) : ~Files(s, "model-response")
BY DEF AsidePlan, Aside, Stage, Files

LEMMA NothingProposed ==
  ASSUME NEW run, NEW id, NEW prompt, NEW answer
  PROVE  /\ ~Proposes(PreparePlan(run, id, prompt))
         /\ ~Proposes(AnswerPlan(run, id, prompt, answer))
<1>1. ~Proposes(PreparePlan(run, id, prompt))
  BY OwnRunProposes DEF PreparePlan
<1>2. ~Proposes(AnswerPlan(run, id, prompt, answer))
  <2> DEFINE a == OwnRun(run, "agent.model.responded", AgentPath("model-response", id),
                         [prompt |-> prompt, answer |-> answer])
             b == OwnRun(AuditRun(run), "agent.response.audit.recorded", AgentPath("response-audit", id),
                         [answer |-> answer, status |-> Verdict(answer)])
  <2>1. ~Proposes(a) /\ ~Proposes(b) /\ IsPlan(a) /\ IsPlan(b)
    BY OwnRunProposes, OwnRunPlan
  <2>2. AnswerPlan(run, id, prompt, answer) = a \o b
    BY DEF AnswerPlan
  <2> HIDE DEF a, b
  <2>3. Range(a \o b) = Range(a) \cup Range(b)
    BY <2>1, Joined
  <2>4. QED BY <2>1, <2>2, <2>3 DEF Proposes
<1>3. QED BY <1>1, <1>2

\* An answer is to the request it names.
LEMMA AnswerNames ==
  ASSUME NEW run, NEW id, NEW prompt, NEW answer
  PROVE  \A s \in Range(AnswerPlan(run, id, prompt, answer)) :
           Files(s, "model-response") => s.at[3] = id
<1> DEFINE response == Artifact(ResponsePath(id), [prompt |-> prompt, answer |-> answer])
           told == RunEvent(run, "agent.model.responded", ResponsePath(id))
           audit == Artifact(AuditPath(id), [answer |-> answer, status |-> Verdict(answer)])
           audited == RunEvent(AuditRun(run), "agent.response.audit.recorded", AuditPath(id))
<1>1. \A s \in Range(AnswerPlan(run, id, prompt, answer)) :
        s \in {response, told, audit, audited} \/ Apart(s)
  BY AnsweredPlan
<1>2. /\ response.at[3] = id
      /\ ~Files(told, "model-response") /\ ~Files(audit, "model-response")
      /\ ~Files(audited, "model-response")
      /\ \A s : Apart(s) => ~Files(s, "model-response")
  BY DEF Artifact, RunEvent, ResponsePath, AuditPath, AgentPath, Files, Apart
<1> HIDE DEF response, told, audit, audited
<1>3. QED BY <1>1, <1>2

\* The plan of a chat answers what it asks.
LEMMA ChatNames ==
  ASSUME NEW bound, NEW run, NEW id, NEW prompt, NEW task, NEW answered, NEW answer
  PROVE  LET plan == BindPlan(bound, prompt) \o PreparePlan(run, id, prompt)
                     \o <<[do |-> "assemble", task |-> task, bound |-> prompt]>>
                     \o AnswerPlan(answered, id, prompt, answer)
         IN /\ ~Proposes(plan)
            /\ \A s \in Range(plan) : Files(s, "model-response") => s.at[3] = id
<1> DEFINE a == BindPlan(bound, prompt)
           b == PreparePlan(run, id, prompt)
           assemble == [do |-> "assemble", task |-> task, bound |-> prompt]
           d == AnswerPlan(answered, id, prompt, answer)
           Named(s) == ~Files(s, "tool-request-proposal") /\ (Files(s, "model-response") => s.at[3] = id)
<1>1. IsPlan(a) /\ \A s \in Range(a) : Named(s)
  BY BindAside, AsideFiles DEF AsidePlan, Proposes
<1>2. IsPlan(b) /\ \A s \in Range(b) : Named(s)
  <2>1. \A s \in Range(b) : s = Artifact(RequestPath(id), prompt) \/ Aside(s)
    BY PreparedPlan
  <2>2. ~Files(Artifact(RequestPath(id), prompt), "model-response")
    BY DEF Files, Artifact, RequestPath, AgentPath
  <2>3. \A s \in Range(b) : ~Files(s, "model-response")
    BY <2>1, <2>2 DEF Aside, Stage, Files
  <2>4. QED BY <2>3, PreparedPlan, NothingProposed DEF Proposes
<1>3. Named(assemble) /\ IsPlan(<<assemble>>) /\ Range(<<assemble>>) = {assemble}
  BY One DEF Files
<1>4. IsPlan(d) /\ \A s \in Range(d) : Named(s)
  <2>1. ~Proposes(d) /\ \A s \in Range(d) : Files(s, "model-response") => s.at[3] = id
    BY NothingProposed, AnswerNames
  <2>2. IsPlan(d)
    BY AnsweredPlan
  <2> HIDE DEF d
  <2>3. QED BY <2>1, <2>2 DEF Proposes
<1> HIDE DEF a, b, assemble, d
<1>5. IsPlan(a \o b) /\ Range(a \o b) = Range(a) \cup Range(b)
  BY <1>1, <1>2, Joined
<1>6. /\ IsPlan((a \o b) \o <<assemble>>)
      /\ Range((a \o b) \o <<assemble>>) = (Range(a) \cup Range(b)) \cup {assemble}
  BY <1>3, <1>5, Joined
<1>7. /\ Range(((a \o b) \o <<assemble>>) \o d)
         = ((Range(a) \cup Range(b)) \cup {assemble}) \cup Range(d)
  BY <1>4, <1>6, Joined
<1>8. \A s \in Range(((a \o b) \o <<assemble>>) \o d) : Named(s)
  BY <1>1, <1>2, <1>3, <1>4, <1>7
<1>9. QED BY <1>8 DEF Proposes, a, b, assemble, d

-----------------------------------------------------------------------------
(* The commands about proposals *)

LEMMA AsideStands ==
  ASSUME OneOperator, AnswerInv, ProposalInv, NEW p, NEW plan, NEW view, BeginWith(p, plan, view),
         AsidePlan(plan), ~Proposes(plan)
  PROVE  ProposalInv'
BY AsideFiles, OperatorStands DEF Proposes

LEMMA PrepareStands ==
  ASSUME OneOperator, AnswerInv, ProposalInv, NEW p, NEW prompt, PrepareRequest(p, prompt)
  PROVE  ProposalInv'
<1> DEFINE id == NewId("request")
           plan == PreparePlan(NewRun, id, prompt)
<1>1. BeginWith(p, plan, Nothing)
  BY DEF PrepareRequest, Begin
<1>2. /\ ~Proposes(plan)
      /\ \A s \in Range(plan) : s = Artifact(RequestPath(id), prompt) \/ Aside(s)
  BY PreparedPlan, NothingProposed
<1>3. ~Files(Artifact(RequestPath(id), prompt), "model-response")
  BY DEF Files, Artifact, RequestPath, AgentPath
<1> HIDE DEF plan, id
<1>4. \A s \in Range(plan) : ~Files(s, "model-response")
  BY <1>2, <1>3 DEF Aside, Stage, Files
<1>5. QED BY <1>1, <1>2, <1>4, OperatorStands DEF Proposes

LEMMA InvokeStands ==
  ASSUME OneOperator, AnswerInv, ProposalInv, NEW p, NEW id, NEW task, NEW answer,
         InvokeModel(p, id, task, answer)
  PROVE  ProposalInv'
<1> DEFINE plan == AnswerPlan(NewRun, id, PromptOf(task), answer)
<1>1. /\ ~ToldOf("agent.model.responded", ResponsePath(id))
      /\ BeginWith(p, plan, Nothing)
  BY DEF InvokeModel, MayAnswer, Begin, ResponsePath
<1>2. /\ ~Proposes(plan)
      /\ \A s \in Range(plan) : Files(s, "model-response") => s.at[3] = id
  BY NothingProposed, AnswerNames
<1> HIDE DEF plan
<1>3. QED BY <1>1, <1>2, OperatorStands DEF Proposes

LEMMA ChatStands ==
  ASSUME OneOperator, AnswerInv, ProposalInv, NEW p, NEW task, NEW answer, Chat(p, task, answer)
  PROVE  ProposalInv'
<1> DEFINE id == NewId("request")
           prompt == PromptOf(task)
           plan == BindPlan(NewId("bind"), prompt) \o PreparePlan(NewId("ask"), id, prompt)
                   \o <<[do |-> "assemble", task |-> task, bound |-> prompt]>>
                   \o AnswerPlan(NewRun, id, prompt, answer)
<1>1. BeginWith(p, plan, Nothing)
  BY DEF Chat, Begin
<1>2. ~ToldOf("agent.model.responded", ResponsePath(id))
  BY NewRequest DEF ToldOf
<1>3. /\ ~Proposes(plan)
      /\ \A s \in Range(plan) : Files(s, "model-response") => s.at[3] = id
  BY ChatNames
<1> HIDE DEF plan, id, prompt
<1>4. QED BY <1>1, <1>2, <1>3, OperatorStands DEF Proposes

\* Of several events about an artifact there is a first and a last.
LEMMA FirstAndLast ==
  ASSUME AnswerInv, NEW type, NEW path, ToldOf(type, path)
  PROVE  /\ \E i \in EventsFor(type, path) : \A j \in EventsFor(type, path) : i <= j
         /\ \E i \in EventsFor(type, path) : \A j \in EventsFor(type, path) : j <= i
<1> DEFINE S == EventsFor(type, path)
           n == Cardinality(S)
<1>1. S \in Indexes
  BY IndexesOf DEF EventsFor, AnswerInv, LogOk
<1>2. IsFiniteSet(S) /\ S \subseteq Nat /\ S # {}
  BY <1>1 DEF Indexes, ToldOf
<1>3. n \in Nat /\ n # 0
  BY <1>2, FS_CardinalityType, FS_EmptySet
<1> HIDE DEF S, n
<1>4. 1 \in 1..n /\ n \in 1..n
  BY <1>3
<1>5. PICK i \in S : Cardinality(Below(S, i)) = 1 - 1
  BY <1>1, <1>4, RankTaken DEF n
<1>6. PICK l \in S : Cardinality(Below(S, l)) = n - 1
  BY <1>1, <1>4, RankTaken DEF n
<1>7. \A j \in S : i <= j
  BY <1>2, FS_Subset, <1>5, FS_EmptySet DEF Below
<1>8. ASSUME NEW j \in S
      PROVE  j <= l
  <2>1. CASE l < j
    <3>1. /\ Cardinality(Below(S, j)) \in Nat
          /\ Cardinality(Below(S, l)) < Cardinality(Below(S, j))
      BY <1>1, <2>1, BelowGrows
    <3>2. Below(S, j) \in SUBSET S /\ j \notin Below(S, j)
      BY <1>2 DEF Below
    <3>3. Cardinality(Below(S, j)) <= n /\ Cardinality(Below(S, j)) # n
      BY <1>2, <3>2, FS_Subset DEF n
    <3>4. QED BY <1>3, <1>6, <3>1, <3>3
  <2>2. QED BY <1>2, <2>1
<1>9. QED BY <1>7, <1>8 DEF S

\* A proposal rests on an answer that conforms, and cites its first audit.
LEMMA MayProposeStands ==
  ASSUME AnswerInv, NEW id, MayPropose(id)
  PROVE  Standing([request |-> id, evidence |-> EvidenceCited(id)]) /\ Conforms(id)
<1>1. /\ AuditPath(id) \in DOMAIN artifacts
      /\ artifacts[AuditPath(id)].status = "pass"
      /\ ToldOf("agent.response.audit.recorded", AuditPath(id))
      /\ \A i \in AuditsOf(id) : Matched(log[i])
  BY DEF MayPropose, AuditPassed, AuditEvidenceMatched, AuditPath, AuditsOf
<1>2. PICK i \in AuditsOf(id) : TRUE
  BY <1>1 DEF ToldOf, AuditsOf
<1>3. log[i].type = "agent.response.audit.recorded" /\ log[i].ref[3] = id
  BY <1>2, KindsOfPaths DEF AuditsOf, EventsFor, AuditPath
<1>4. AuditMatched(id)
  BY <1>1, <1>2, <1>3 DEF Matched
<1>5. /\ ToldOf("agent.model.responded", ResponsePath(id))
      /\ ResponsePath(id) \in DOMAIN artifacts
      /\ artifacts[ResponsePath(id)].answer = artifacts[AuditPath(id)].answer
  BY <1>4 DEF AuditMatched, ChainTold, AnswerAudited, ResponsePath, AuditPath
<1>6. artifacts[AuditPath(id)].status = Verdict(artifacts[AuditPath(id)].answer)
  BY <1>1, KindsOfPaths DEF AnswerInv, FilesOk, FileOk, AuditPath
<1>7. Conforms(id)
  BY <1>1, <1>5, <1>6 DEF Verdict, Conforms, ResponsePath
<1>8. Rests(id)
  BY <1>5, <1>7 DEF Rests
<1> DEFINE k == CHOOSE j \in AuditsOf(id) : \A l \in AuditsOf(id) : j <= l
<1>9. EvidenceCited(id).audited = k
  BY DEF EvidenceCited, AuditsOf, AuditPath
<1>10. \E j \in AuditsOf(id) : \A l \in AuditsOf(id) : j <= l
  BY <1>1, FirstAndLast DEF AuditsOf
<1>11. k \in AuditsOf(id) /\ \A l \in AuditsOf(id) : k <= l
  BY <1>10
<1> HIDE DEF k
<1>12. QED BY <1>5, <1>7, <1>8, <1>9, <1>11 DEF Standing

LEMMA ProposeStands ==
  ASSUME OneOperator, AnswerInv, ProposalInv, NEW p, NEW id, ProposeTool(p, id)
  PROVE  ProposalInv'
<1> DEFINE v == [request |-> id, evidence |-> EvidenceCited(id)]
           new == NewId("proposal")
           plan == ProposePlan(NewRun, new, v)
<1>1. MayPropose(id) /\ BeginWith(p, plan, [proposes |-> id])
  BY DEF ProposeTool
<1>2. Standing(v)
  BY <1>1, MayProposeStands
<1>3. \A s \in Range(plan) : Files(s, "tool-request-proposal") => s.value = v
  <2> DEFINE path == AgentPath("tool-request-proposal", new)
             stored == Artifact(path, v)
             told == RunEvent(NewRun, "agent.tool.request.proposed", path)
  <2>1. \A s \in Range(plan) : s \in {stored, told} \/ Apart(s)
    BY OwnRunPlan DEF ProposePlan
  <2>2. /\ stored.value = v /\ ~Files(told, "tool-request-proposal")
        /\ \A s : Apart(s) => ~Files(s, "tool-request-proposal")
    BY DEF Artifact, RunEvent, Files, Apart
  <2> HIDE DEF stored, told, v, plan
  <2>3. QED BY <2>1, <2>2
<1>4. \A s \in Range(plan) : ~Files(s, "model-response")
  BY ProposeAside, AsideFiles
<1> HIDE DEF v, plan
<1>5. QED BY <1>1, <1>2, <1>3, <1>4, OperatorStands

LEMMA ExecuteStands ==
  ASSUME OneOperator, AnswerInv, ProposalInv, NEW p, NEW id, NEW decision, ExecuteTool(p, id, decision)
  PROVE  ProposalInv'
<1>1. \E view : BeginWith(p, ExecutePlan(NewRun, ToolEvents(decision), decision), view)
  BY Zenon DEF ExecuteTool, ExecutePlan
<1>2. QED BY <1>1, ExecuteAside, AsideStands

LEMMA PromptStepStands ==
  ASSUME OneOperator, AnswerInv, ProposalInv, NEW p \in Procs, PromptStep(p) \/ ChatStep(p)
  PROVE  ProposalInv'
<1>1. ASSUME MemoryChanges(p)
      PROVE  ProposalInv'
  BY <1>1, PlansStand DEF MemoryChanges, Outside, OperatorSteps, Pending
<1>2. ASSUME NEW task, BindRuntime(p, task)
      PROVE  ProposalInv'
  BY <1>2, BindAside, AsideStands DEF BindRuntime, Begin
<1>3. ASSUME NEW id, NEW task, NEW answer, InvokeElsewhere(p, id, task, answer)
      PROVE  ProposalInv'
  BY <1>3, ReaderStands DEF InvokeElsewhere
<1>4. Staged(p) => ProposalInv'
  BY <1>2, <1>3, PrepareStands, InvokeStands DEF Staged
<1>5. Tools(p) => ProposalInv'
  BY ProposeStands, ExecuteStands DEF Tools
<1>6. ASSUME AssembleAgain(p)
      PROVE  ProposalInv'
  <2>1. /\ ~Idle(p) /\ Head(proc[p].plan).do = "assemble" /\ UNCHANGED <<artifacts, log>>
        /\ Advance(p) \/ CutShort(p)
    BY <1>6 DEF AssembleAgain, AtStep, files
  <2>2. p \in Operators
    BY <2>1, Left DEF AnswerInv, PlansOk, PlanOk, Idle, ReaderOk, Procs
  <2>3. Head(proc[p].plan).do # "event"
    BY <2>1
  <2>4. QED BY <2>1, <2>2, <2>3, AdvanceStands, CutStands
<1>7. QED BY <1>1, <1>4, <1>5, <1>6, ChatStands, InvokeStands DEF PromptStep, ChatStep

\* A proposal whose evidence is whole rests on an answer that conforms, or that
\* a second terminal is replacing.
LEMMA ExecutedConforms ==
  ASSUME AnswerInv, ProposalInv, NEW p, NEW id, NEW decision, ExecuteTool(p, id, decision)
  PROVE  LET asked == artifacts[AgentPath("tool-request-proposal", id)].request
         IN Conforms(asked) \/ Replaced(asked)
<1> DEFINE path == AgentPath("tool-request-proposal", id)
           v == artifacts[path]
           asked == v.request
           k == v.evidence.audited
           last == LastFor("agent.response.audit.recorded", AuditPath(asked))
<1>1. /\ path \in DOMAIN artifacts
      /\ ToldOf("agent.tool.request.proposed", path)
      /\ \A i \in EventsFor("agent.tool.request.proposed", path) : Matched(log[i])
  BY DEF ExecuteTool
<1>2. Standing(v)
  BY <1>1, KindsOfPaths DEF ProposalInv, Proposals
<1>3. PICK i \in EventsFor("agent.tool.request.proposed", path) : Matched(log[i])
  BY <1>1 DEF ToldOf
<1>4. log[i].type = "agent.tool.request.proposed" /\ PayloadOf(log[i]) = v
  BY <1>3 DEF EventsFor, PayloadOf
<1>5. ProposalMatched(v)
  BY <1>3, <1>4 DEF Matched
<1>6. k = last
  BY <1>5 DEF ProposalMatched, EvidenceFound, EvidenceCited, AuditPath
<1>7. k \in AuditsOf(asked) /\ \A j \in AuditsOf(asked) : k <= j
  BY <1>2 DEF Standing
<1>8. \A j \in AuditsOf(asked) : j <= last
  BY <1>7, FirstAndLast DEF AuditsOf, ToldOf, LastFor
<1>9. AuditsOf(asked) \subseteq Nat
  BY IndexesOf DEF AuditsOf, EventsFor, AnswerInv, LogOk, Indexes
<1> HIDE DEF v, k, last, asked
<1>10. \A j \in AuditsOf(asked) : j = k
  BY <1>6, <1>7, <1>8, <1>9
<1>11. Conforms(asked) \/ Pending(asked)
  BY <1>2, <1>10 DEF Standing, Rests, k, asked
<1>12. ASSUME Pending(asked)
       PROVE  Replaced(asked)
  <2>1. PICK q \in Readers : \E s \in Range(proc[q].plan) : Audits(s) /\ s.entry.ref = AuditPath(asked)
    BY <1>12 DEF Pending
  <2>2. PICK s \in Range(proc[q].plan) : Audits(s) /\ s.entry.ref = AuditPath(asked)
    BY <2>1
  <2>3. q \in Procs /\ StepOk(proc[q].plan, proc[q].ids, s, begun, Requests)
    BY <2>2 DEF AnswerInv, PlansOk, PlanOk, Procs
  <2>4. s.entry.ref[3] = asked
    BY <2>2, KindsOfPaths DEF AuditPath
  <2>5. QED BY <2>2, <2>3, <2>4 DEF StepOk, Replaced, ResponsePath
<1>13. QED BY <1>11, <1>12 DEF asked, v

-----------------------------------------------------------------------------
(* Tools follow answers that conform *)

\* The plans the workspaces start from.
LEMMA StartsPropose ==
  ASSUME NEW plan, ~Proposes(plan), artifacts = CarriedOut(NoPrompts, plan).artifacts,
         \A q \in Operators : proc[q].plan = <<>>
  PROVE  ProposalInv
BY None, WrittenByPlan DEF OperatorSteps, Proposes, Files, Proposals, ProposalInv

LEMMA StartingProposes ==
  ASSUME NEW task
  PROVE  LET id == Earlier("request")
             asked == BindPlan(Earlier("bind"), task) \o PreparePlan(Earlier("ask"), id, task)
             answered == asked \o AnswerPlan(Earlier("run"), id, task, "conforming")
         IN ~Proposes(asked) /\ ~Proposes(answered)
<1> DEFINE id == Earlier("request")
           a == BindPlan(Earlier("bind"), task)
           b == PreparePlan(Earlier("ask"), id, task)
           d == AnswerPlan(Earlier("run"), id, task, "conforming")
<1>1. IsPlan(a) /\ ~Proposes(a)
  BY BindAside DEF AsidePlan
<1>2. IsPlan(b) /\ ~Proposes(b)
  BY PreparedPlan, NothingProposed
<1>3. IsPlan(d) /\ ~Proposes(d)
  <2>1. IsPlan(d)
    BY AnsweredPlan
  <2>2. QED BY <2>1, NothingProposed
<1> HIDE DEF a, b, d
<1>4. IsPlan(a \o b) /\ Range(a \o b) = Range(a) \cup Range(b)
  BY <1>1, <1>2, Joined
<1>5. Range((a \o b) \o d) = (Range(a) \cup Range(b)) \cup Range(d)
  BY <1>3, <1>4, Joined
<1>6. ~Proposes(a \o b) /\ ~Proposes((a \o b) \o d)
  BY <1>1, <1>2, <1>3, <1>4, <1>5 DEF Proposes
<1>7. QED BY <1>6 DEF a, b, d

LEMMA InitToolInv == Init => ToolInv
<1> SUFFICES ASSUME Init, family \in PromptFamilies PROVE AnswerInv /\ ProposalInv
  BY DEF ToolInv
<1>1. AnswerInv
  BY InitPromptInv DEF PromptInv
<1>2. \A p \in Operators : proc[p].plan = <<>>
  BY DEF Init, IdleProc, Procs
<1>3. PICK s \in PromptStarts : artifacts = s.artifacts
  BY DEF Init, Starts, PromptFamilies, PromptStarts
<1>4. CASE s = NoPrompts
  <2>1. DOMAIN artifacts = {}
    BY <1>3, <1>4 DEF NoPrompts, Nothing
  <2>2. OperatorSteps = {}
    BY <1>2, None DEF OperatorSteps
  <2>3. Proposals = {}
    BY <2>1, <2>2 DEF Proposals
  <2>4. QED BY <1>1, <2>2, <2>3 DEF ProposalInv
<1>5. CASE s # NoPrompts
  <2> DEFINE id == Earlier("request")
             asked(task) == BindPlan(Earlier("bind"), task) \o PreparePlan(Earlier("ask"), id, task)
             answered(task) == asked(task) \o AnswerPlan(Earlier("run"), id, task, "conforming")
  <2>1. PICK task \in Tasks : s \in {CarriedOut(NoPrompts, asked(task)), CarriedOut(NoPrompts, answered(task))}
    BY <1>3, <1>5 DEF PromptStarts
  <2>2. \E plan : ~Proposes(plan) /\ s = CarriedOut(NoPrompts, plan)
    BY <2>1, StartingProposes
  <2>3. QED BY <1>1, <1>2, <1>3, <2>2, StartsPropose
<1>6. QED BY <1>4, <1>5

LEMMA StepToolInv == OneOperator /\ ToolInv /\ [Next]_govVars => ToolInv'
<1> SUFFICES ASSUME OneOperator, ToolInv, [Next]_govVars, family' \in PromptFamilies
             PROVE  AnswerInv' /\ ProposalInv'
  BY DEF ToolInv
<1>1. family' = family /\ family \in PromptFamilies
  BY NextMoves DEF Moves
<1>2. AnswerInv /\ ProposalInv
  BY <1>1 DEF ToolInv
<1>3. AnswerInv'
  BY <1>1, <1>2, StepPromptInv DEF PromptInv
<1>4. CASE UNCHANGED govVars
  BY <1>4, <1>2, <1>3, PlansStand DEF govVars, files, OperatorSteps, Pending
<1>5. ASSUME NEW p \in Procs, FamilyStep(p)
      PROVE  PromptStep(p) \/ ChatStep(p)
  BY <1>1, <1>5 DEF FamilyStep, PromptFamilies
<1>6. QED BY <1>2, <1>3, <1>4, <1>5, WriteStands, PromptStepStands DEF Next

\* What an operator has looked at when he begins.
Looked(view) ==
    /\ "proposes" \in DOMAIN view => Conforms(view.proposes)
    /\ "executes" \in DOMAIN view => Conforms(view.executes) \/ Replaced(view.executes)
BeginsLooked == \A q \in Operators : Idle(q) /\ ~Idle(q)' => Looked(proc'[q].view)

LEMMA OperatorLooks ==
  ASSUME DOMAIN proc = Procs, NEW p, NEW plan, NEW view, BeginWith(p, plan, view), Looked(view)
  PROVE  BeginsLooked
BY DEF BeginWith, StartPlan, Procs, BeginsLooked, Idle

LEMMA NothingLooked == Looked(Nothing)
BY DEF Looked, Nothing

\* A step of a process that is under way, or of a second terminal.
LEMMA OthersLook ==
  ASSUME DOMAIN proc = Procs, NEW p \in Procs, p \in Readers \/ ~Idle(p),
         \A q \in Procs : q # p => proc'[q] = proc[q]
  PROVE  BeginsLooked
BY ReadersReport DEF BeginsLooked, Idle, Procs

LEMMA PromptStepLooks ==
  ASSUME AnswerInv, ProposalInv, NEW p \in Procs, PromptStep(p) \/ ChatStep(p)
  PROVE  BeginsLooked
<1>1. DOMAIN proc = Procs
  BY DEF AnswerInv, Shaped
<1>2. ASSUME NEW plan, Begin(p, plan)
      PROVE  BeginsLooked
  BY <1>1, <1>2, NothingLooked, OperatorLooks DEF Begin
<1>3. ASSUME NEW id, ProposeTool(p, id)
      PROVE  BeginsLooked
  BY <1>3, MayProposeStands, <1>1, OperatorLooks DEF ProposeTool, Looked
<1>4. ASSUME NEW id, NEW decision, ExecuteTool(p, id, decision)
      PROVE  BeginsLooked
  <2> DEFINE asked == artifacts[AgentPath("tool-request-proposal", id)].request
  <2>1. \E plan : BeginWith(p, plan, [executes |-> asked])
    BY <1>4, Zenon DEF ExecuteTool
  <2>2. Conforms(asked) \/ Replaced(asked)
    BY <1>4, ExecutedConforms
  <2> HIDE DEF asked
  <2>3. Looked([executes |-> asked])
    BY <2>2 DEF Looked
  <2>4. QED BY <1>1, <2>1, <2>3, OperatorLooks
<1>5. Tools(p) => BeginsLooked
  BY <1>3, <1>4 DEF Tools
<1>6. MemoryChanges(p) => BeginsLooked
  BY DEF MemoryChanges, Outside, BeginsLooked, Idle
<1>7. AssembleAgain(p) => BeginsLooked
  BY <1>1, OthersLook DEF AssembleAgain, AtStep, Advance, CutShort
<1>8. ASSUME NEW id, NEW task, NEW answer, InvokeElsewhere(p, id, task, answer)
      PROVE  BeginsLooked
  BY <1>1, <1>8, OthersLook DEF InvokeElsewhere, BeginReport, StartPlan
<1>9. Staged(p) => BeginsLooked
  BY <1>2, <1>8 DEF Staged, BindRuntime, PrepareRequest, InvokeModel
<1>10. ASSUME NEW task, NEW answer, Chat(p, task, answer)
       PROVE  BeginsLooked
  BY <1>2, <1>10 DEF Chat
<1>11. ASSUME NEW id, NEW task, NEW answer, InvokeModel(p, id, task, answer)
       PROVE  BeginsLooked
  BY <1>2, <1>11 DEF InvokeModel
<1>12. QED BY <1>5, <1>6, <1>7, <1>9, <1>10, <1>11 DEF PromptStep, ChatStep

LEMMA WriteLooks ==
  ASSUME DOMAIN proc = Procs, NEW p \in Procs, Write(p) \/ Kill(p)
  PROVE  BeginsLooked
<1> DEFINE Others == \A q \in Procs : q # p => proc'[q] = proc[q]
<1>1. Advance(p) => Others
  BY DEF Advance
<1>2. ReadTable(p) => ~Idle(p) /\ Others
  BY DEF ReadTable, AtStep
<1>3. Kill(p) => ~Idle(p) /\ Others
  BY DEF Kill, CutShort
<1> HIDE DEF Others
<1>4. StoreArtifact(p) \/ AppendEvent(p) \/ WriteTable(p) => ~Idle(p) /\ Others
  BY <1>1 DEF StoreArtifact, AppendEvent, WriteTable, AtStep
<1>5. ~Idle(p) /\ Others
  BY <1>2, <1>3, <1>4 DEF Write
<1>6. QED BY <1>5, OthersLook DEF Others

\* With one operator a tool is proposed only while the answer on record conforms,
\* and executed only while it does or a second terminal is replacing it: for
\* every number of requests, answers, second terminals and kills
\* (runPromptProposeToolRequest and runPromptExecuteToolRequest in
\* packages/tui/src/cli.ts).  The commands of the other families ask for no tool.
THEOREM ToolsAlwaysFollow ==
  ASSUME OneOperator
  PROVE  Spec => ToolsFollowConformingAnswers
<1>1. ToolInv /\ [Next]_govVars => ToolInv'
  BY StepToolInv
<1>2. ASSUME ToolInv, [Next]_govVars, Shaped, Shaped'
      PROVE  [BeginsLooked]_govVars
  <2>1. CASE family \notin PromptFamilies
    BY <1>2, NextMoves, <2>1 DEF Moves, Shaped, ToolViews, Procs, BeginsLooked, Looked
  <2>2. CASE family \in PromptFamilies
    BY <1>2, <2>2, WriteLooks, PromptStepLooks DEF ToolInv, FamilyStep, PromptFamilies, Next, Shaped
  <2>3. QED BY <2>1, <2>2
<1>3. Shaped /\ [Next]_govVars => Shaped'
  BY NextMoves DEF Moves
<1>4. ASSUME [BeginsLooked]_govVars
      PROVE  [\A p \in Operators : Idle(p) /\ ~Idle(p)' =>
                /\ "proposes" \in DOMAIN proc'[p].view => Conforms(proc'[p].view.proposes)
                /\ "executes" \in DOMAIN proc'[p].view =>
                     Conforms(proc'[p].view.executes) \/ Replaced(proc'[p].view.executes)]_govVars
  BY <1>4 DEF BeginsLooked, Looked
<1>5. QED
  BY <1>1, <1>2, <1>3, <1>4, InitToolInv, InitShaped, PTL DEF Spec, ToolsFollowConformingAnswers

-----------------------------------------------------------------------------
(* What must happen once: the families in which it never happens *)

OnceTypes == {"soul.fork.created", "wakeup.queued"}
Once(e) == e.type \in OnceTypes

\* A step that tells of nothing that must happen once.
Mute(s) == s.do = "event" => ~Once(s.entry)
MutePlan(plan) == IsPlan(plan) /\ \A s \in Range(plan) : Mute(s)

MuteLog == IsPlan(log) /\ \A i \in DOMAIN log : ~Once(log[i])
MuteState == Shaped /\ MuteLog /\ \A p \in Procs : MutePlan(proc[p].plan)
OnceFamilies == {"soul", "hibernation"}
MuteInv == family \notin OnceFamilies => MuteState

LEMMA MuteJoined ==
  ASSUME NEW s, NEW t, MutePlan(s), MutePlan(t)
  PROVE  MutePlan(s \o t)
BY Joined DEF MutePlan

LEMMA MuteNone == MutePlan(<<>>)
BY None DEF MutePlan

LEMMA MuteOne ==
  ASSUME NEW a, Mute(a)
  PROVE  MutePlan(<<a>>)
BY One DEF MutePlan

LEMMA MuteTwo ==
  ASSUME NEW a, NEW b, Mute(a), Mute(b)
  PROVE  MutePlan(<<a, b>>)
BY Two DEF MutePlan

LEMMA MuteThree ==
  ASSUME NEW a, NEW b, NEW c, Mute(a), Mute(b), Mute(c)
  PROVE  MutePlan(<<a, b, c>>)
BY Three DEF MutePlan

LEMMA MuteWrites ==
  ASSUME NEW at, NEW value, NEW name, NEW items, NEW id, NEW row, NEW run, NEW status, NEW events
  PROVE  /\ Mute(Artifact(at, value))
         /\ Mute(UpsertAll(name, items))
         /\ Mute(Upsert(name, id, row))
         /\ Mute(DropRow(name, id))
         /\ Mute(Manifest(run, status, events))
BY DEF Mute, Artifact, UpsertAll, Upsert, DropRow, Manifest

LEMMA MuteEvent ==
  ASSUME NEW run, NEW path, NEW type, type \notin OnceTypes
  PROVE  Mute(RunEvent(run, type, path)) /\ Mute(Event(type, path))
BY DEF Mute, Once, RunEvent, Event

LEMMA MuteRecorded ==
  ASSUME NEW path, NEW value, NEW type, type \notin OnceTypes
  PROVE  MutePlan(Recorded(type, path, value))
BY MuteWrites, MuteEvent, MuteTwo DEF Recorded

LEMMA MutePrint ==
  ASSUME NEW path, NEW name, NEW id, NEW value
  PROVE  MutePlan(PrintJson(path, name, id, value))
BY MuteWrites, MuteTwo DEF PrintJson

LEMMA MuteManaged ==
  ASSUME NEW run, NEW path, NEW before, NEW type, type \notin OnceTypes
  PROVE  MutePlan(Managed(run, type, path, before))
BY MuteWrites, MuteEvent, MuteTwo DEF Managed

LEMMA MuteManifest ==
  ASSUME NEW run, NEW status, NEW events
  PROVE  MutePlan(<<Manifest(run, status, events)>>)
BY MuteWrites, MuteOne

LEMMA MuteGoverned ==
  ASSUME NEW run, NEW path, NEW type, type \notin OnceTypes
  PROVE  MutePlan(Governed(run, type, path))
BY MuteManifest, MuteManaged, MuteJoined DEF Governed

LEMMA MutePersist ==
  ASSUME NEW command, NEW topic, NEW name, NEW id, NEW value
  PROVE  MutePlan(Persist(command, topic, name, id, value))
BY MuteWrites, MuteTwo DEF Persist

-----------------------------------------------------------------------------
(* The commands of these families *)

\* A command begins with a mute plan.
BeginsMute(p) == \E plan, view : MutePlan(plan) /\ BeginWith(p, plan, view)

LEMMA BeginsMutely ==
  ASSUME NEW p, NEW plan, MutePlan(plan), Begin(p, plan)
  PROVE  BeginsMute(p)
BY DEF Begin, BeginsMute

LEMMA MuteDerived == MutePlan(DerivePlan)
BY MuteRecorded, MuteNone, MuteWrites, MuteOne, MuteJoined DEF OnceTypes, CandidateRecord, DerivePlan

LEMMA MuteAccepted ==
  ASSUME NEW id, NEW candidate
  PROVE  MutePlan(AcceptCandidatePlan(id, candidate)) /\ MutePlan(AcceptancePlan(id, candidate))
<1> DEFINE card == CardOf(id, candidate)
<1>1. {"memory.accepted", "memory.candidate.created"} \cap OnceTypes = {}
  BY DEF OnceTypes
<1>2. \A row : MutePlan(<<Upsert("memory-candidates", id, row), Upsert("memory-cards", id, card)>>)
  BY MuteWrites, MuteTwo
<1>3. QED BY <1>1, <1>2, MuteRecorded, MuteJoined DEF AcceptCandidatePlan, AcceptancePlan

LEMMA MuteDeleted ==
  ASSUME NEW id, NEW tombstone
  PROVE  MutePlan(DeletePlan(id, tombstone))
BY MuteWrites, MuteTwo, MuteRecorded, MuteJoined DEF OnceTypes, DeletePlan

LEMMA MemoryMute ==
  ASSUME NEW p, MemoryCommand(p)
  PROVE  BeginsMute(p)
<1>1. {"memory.candidate.created", "memory.rejected", "memory.blocked", "memory.fold.proposed",
       "memory.fold.accepted", "memory.fold.rejected"} \cap OnceTypes = {}
  BY DEF OnceTypes
<1>2. \A name, id, row : MutePlan(<<Upsert(name, id, row)>>)
  BY MuteWrites, MuteOne
<1>3. CASE DeriveCandidates(p) \/ EnsureEpisode(p)
  BY <1>3, MuteDerived, MuteAccepted, MuteJoined, BeginsMutely DEF DeriveCandidates, EnsureEpisode
<1>4. ASSUME NEW content, ProposeCandidate(p, content)
      PROVE  BeginsMute(p)
  BY <1>1, <1>2, <1>4, MuteRecorded, MuteJoined, BeginsMutely DEF ProposeCandidate
<1>5. ASSUME NEW id, AcceptMemory(p, id) \/ DeleteMemory(p, id)
      PROVE  BeginsMute(p)
  BY <1>5, MuteAccepted, MuteDeleted, BeginsMutely DEF AcceptMemory, DeleteMemory
<1>6. ASSUME NEW id, RejectMemory(p, id)
      PROVE  BeginsMute(p)
  BY <1>1, <1>2, <1>6, MuteRecorded, MuteJoined, BeginsMutely DEF RejectMemory
<1>7. ASSUME NEW id, NEW context, BlockMemory(p, id, context)
      PROVE  BeginsMute(p)
  BY <1>1, <1>2, <1>7, MuteRecorded, MuteJoined, BeginsMutely DEF BlockMemory
<1>8. CASE DreamRun(p)
  BY <1>1, <1>8, MuteEvent, MuteOne, MutePrint, MuteJoined, BeginsMutely DEF DreamRun
<1>9. ASSUME NEW id, NEW yes, DreamAccept(p, id, yes)
      PROVE  BeginsMute(p)
  <2> DEFINE fold == rows["memory-folds"][id]
             path == <<"dream", "accept", id>>
  <2>1. MutePlan(<<Event("memory.fold.accepted", path), Upsert("memory-cards", id, fold.memory)>>)
    BY <1>1, MuteEvent, MuteWrites, MuteTwo
  <2>2. QED BY <1>9, <2>1, MutePrint, MuteJoined, BeginsMutely DEF DreamAccept
<1>10. ASSUME NEW id, DreamReject(p, id)
       PROVE  BeginsMute(p)
  BY <1>1, <1>10, MuteEvent, MuteOne, MutePrint, MuteJoined, BeginsMutely DEF DreamReject
<1>11. QED
  BY <1>3, <1>4, <1>5, <1>6, <1>7, <1>8, <1>9, <1>10 DEF MemoryCommand

LEMMA MuteScan ==
  ASSUME NEW run, NEW id, NEW assessment
  PROVE  MutePlan(ScanDenied(run, id, assessment))
<1> DEFINE told == Managed(run, "policy.decided", <<>>, <<>>)
                   \o Managed(run, "security.content.assessed", <<"security", "scan", id>>,
                              <<"policy.decided">>)
           signal == NewId("signal")
           kept == Persist("security", "scan", "poisoning-signals", signal, Signal(assessment, id))
           detected == Managed(run, "poisoning.detected", <<"security", "scan", signal>>,
                               <<"policy.decided", "security.content.assessed">>)
           short == <<Manifest(run, "completed", <<"policy.decided", "security.content.assessed">>)>>
           long == <<Manifest(run, "blocked", <<"policy.decided", "security.content.assessed",
                                                "poisoning.detected">>)>>
<1>1. {"policy.decided", "security.content.assessed", "poisoning.detected"} \cap OnceTypes = {}
  BY DEF OnceTypes
<1>2. MutePlan(told) /\ MutePlan(detected)
  BY <1>1, MuteManaged, MuteJoined
<1>3. MutePlan(kept) /\ MutePlan(short) /\ MutePlan(long)
  BY MutePersist, MuteManifest
<1>4. ScanDenied(run, id, assessment) =
        IF assessment.status = "clean" THEN told \o short ELSE told \o kept \o detected \o long
  BY DEF ScanDenied
<1> HIDE DEF told, kept, detected, short, long
<1>5. QED BY <1>2, <1>3, <1>4, MuteJoined

LEMMA MuteSurface ==
  ASSUME NEW topic, NEW name, NEW id, NEW value, NEW status, NEW type, type \notin OnceTypes
  PROVE  MutePlan(SurfaceRun(topic, name, id, value, type, status))
BY MuteManaged, MutePersist, MuteManifest, MuteJoined DEF OnceTypes, SurfaceRun

LEMMA MuteTrial ==
  ASSUME NEW id, NEW subject
  PROVE  MutePlan(TrialPlan(id, subject))
BY MutePersist, MuteGoverned, MuteJoined DEF OnceTypes, TrialPlan

LEMMA SecurityMute ==
  ASSUME NEW p, SecurityStep(p)
  PROVE  BeginsMute(p)
<1>1. {"poisoning.acknowledged", "poisoning.regression.created", "browser.observation.ingested",
       "im.inbox.received", "im.outbox.queued"} \cap OnceTypes = {}
  BY DEF OnceTypes
<1>2. ASSUME NEW content, NEW v, ScanContent(p, content, v)
      PROVE  BeginsMute(p)
  <2> DEFINE id == NewId("assessment")
             assessment == Assessment(content)
             kept == Persist("security", "scan", "content-assessments", id, assessment)
             opened == <<Manifest(NewRun, "running", <<>>)>>
             rest == IF v = "expected" THEN ScanDenied(NewRun, id, assessment)
                     ELSE <<Manifest(NewRun, "failed", <<>>)>>
  <2>1. Begin(p, kept \o opened \o rest)
    BY <1>2 DEF ScanContent
  <2>2. MutePlan(kept) /\ MutePlan(opened) /\ MutePlan(rest)
    BY MutePersist, MuteManifest, MuteScan
  <2> HIDE DEF kept, opened, rest
  <2>3. QED BY <2>1, <2>2, MuteJoined, BeginsMutely
<1>3. ASSUME NEW id, Acknowledge(p, id)
      PROVE  BeginsMute(p)
  BY <1>1, <1>3, MutePersist, MuteGoverned, MuteJoined, BeginsMutely DEF Acknowledge
<1>4. ASSUME NEW id, RunTrial(p, id)
      PROVE  BeginsMute(p)
  BY <1>4, MuteTrial, BeginsMutely DEF RunTrial
<1>5. ASSUME NEW id, CreateFixture(p, id)
      PROVE  BeginsMute(p)
  BY <1>1, <1>5, MutePersist, MuteGoverned, MuteJoined, BeginsMutely DEF CreateFixture
<1>6. ASSUME NEW page, NEW v, ObserveBrowser(p, page, v)
      PROVE  BeginsMute(p)
  BY <1>1, <1>6, MuteManifest, MuteSurface, MuteJoined, BeginsMutely DEF ObserveBrowser
<1>7. ASSUME NEW visibility, NEW m, NEW role, ReceiveMessage(p, visibility, m, role)
      PROVE  BeginsMute(p)
  BY <1>1, <1>7, MutePersist, MuteGoverned, MuteJoined, BeginsMutely DEF ReceiveMessage
<1>8. ASSUME NEW visibility, NEW v, QueueMessage(p, visibility, v)
      PROVE  BeginsMute(p)
  <2> DEFINE item == [policy |-> NewRun,
                      delivery |-> IF visibility = "public" THEN "blocked" ELSE "queued"]
             opened == <<Manifest(NewRun, "running", <<>>)>>
             rest == IF v = "expected"
                     THEN SurfaceRun("im-outbox", "im-outbox", "answer_" \o visibility, item,
                                     "im.outbox.queued",
                                     IF visibility = "public" THEN "completed" ELSE "blocked")
                     ELSE <<Manifest(NewRun, "failed", <<>>)>>
  <2>1. Begin(p, opened \o rest)
    BY <1>8 DEF QueueMessage
  <2>2. MutePlan(opened) /\ MutePlan(rest)
    BY <1>1, MuteManifest, MuteSurface
  <2> HIDE DEF opened, rest
  <2>3. QED BY <2>1, <2>2, MuteJoined, BeginsMutely
<1>9. QED BY <1>2, <1>3, <1>4, <1>5, <1>6, <1>7, <1>8 DEF SecurityStep

LEMMA MuteLifecycle ==
  ASSUME NEW id, NEW value
  PROVE  \A lifecycle \in {"draft", "test", "publish", "rollback"} :
           MutePlan(Lifecycle(lifecycle, id, value))
BY MuteRecorded DEF LifecycleEvent, OnceTypes, Lifecycle

LEMMA MuteReplay ==
  ASSUME NEW result
  PROVE  MutePlan(ReplayPlan(result))
BY MuteWrites, MuteTwo, MuteJoined DEF ReplayOf, ReplayPlan

LEMMA MuteCard ==
  ASSUME NEW capsule
  PROVE  MutePlan(ApprovalCard(capsule)) /\ Mute(Archive(capsule))
BY MuteWrites, MuteOne, MuteNone DEF ApprovalCard, Archive

\* The plan of a capsule that is published or archived.
LEMMA MutePublished ==
  ASSUME NEW published, NEW id, NEW row
  PROVE  /\ MutePlan(<<Archive(published), Upsert("capsules", Cap, published),
                       DropRow("capsule-drafts", Cap)>>)
         /\ MutePlan(<<Archive(published), Upsert("capsule-drafts", Cap, published)>>)
         /\ MutePlan(<<Archive(row), Archive(published), Upsert("capsules", Cap, published)>>)
BY MuteCard, MuteWrites, MuteTwo, MuteThree

LEMMA CapsulesMute ==
  ASSUME NEW p, CapsuleStep(p)
  PROVE  BeginsMute(p)
<1>1. {"replay.recorded", "store.publisher.trusted", "capsule.store.installed"} \cap OnceTypes = {}
  BY DEF OnceTypes
<1>2. ASSUME NEW version, NEW tools, NEW mode, DraftCapsule(p, version, tools, mode)
      PROVE  BeginsMute(p)
  BY <1>2, MutePublished, MuteLifecycle, MuteJoined, BeginsMutely DEF DraftCapsule
<1>3. ASSUME NEW result, NEW playbook, TestCapsule(p, result, playbook)
      PROVE  BeginsMute(p)
  <2> DEFINE capsule == Drafts[Cap]
             tested == AttachEvidence(capsule, result, playbook)
             copied == <<Artifact(TrialPath(capsule.version), playbook)>>
             kept == <<Archive(tested), Upsert("capsule-drafts", Cap, tested)>>
             told == Lifecycle("test", capsule.version, tested)
             judged == IF capsule.mode # "document_only" THEN <<>>
                       ELSE IF capsule.lifecycle \notin {"draft", "tested"} THEN copied
                       ELSE copied \o kept \o told
  <2>1. Begin(p, ReplayPlan(result) \o judged)
    BY <1>3 DEF TestCapsule
  <2>2. MutePlan(copied) /\ MutePlan(kept) /\ MutePlan(told)
    BY MuteWrites, MuteOne, MutePublished, MuteLifecycle
  <2> HIDE DEF copied, kept, told
  <2>3. MutePlan(judged)
    BY <2>2, MuteJoined, MuteNone
  <2>4. QED BY <2>1, <2>3, MuteReplay, MuteJoined, BeginsMutely
<1>4. CASE PublishCapsule(p)
  <2> DEFINE capsule == Drafts[Cap]
             published == Published(capsule)
             kept == <<Archive(published), Upsert("capsules", Cap, published),
                       DropRow("capsule-drafts", Cap)>>
             told == Lifecycle("publish", capsule.version, published)
             rest == IF MayPublish(capsule) THEN kept \o told ELSE <<>>
  <2>1. Begin(p, ApprovalCard(capsule) \o rest)
    BY <1>4 DEF PublishCapsule
  <2>2. MutePlan(kept) /\ MutePlan(told)
    BY MutePublished, MuteLifecycle
  <2> HIDE DEF kept, told
  <2>3. MutePlan(rest)
    BY <2>2, MuteJoined, MuteNone
  <2>4. QED BY <2>1, <2>3, MuteCard, MuteJoined, BeginsMutely
<1>5. ASSUME NEW version, RollBackCapsule(p, version)
      PROVE  BeginsMute(p)
  BY <1>5, MutePublished, MuteLifecycle, MuteJoined, BeginsMutely DEF RollBackCapsule
<1>6. ASSUME NEW id, QuarantineCapsule(p, id)
      PROVE  BeginsMute(p)
  BY <1>6, MuteWrites, MuteOne, MuteTrial, MuteJoined, BeginsMutely DEF QuarantineCapsule
<1>7. ASSUME NEW run, NEW result, RecordReplay(p, run, result)
      PROVE  BeginsMute(p)
  BY <1>1, <1>7, MuteRecorded, MuteWrites, MuteOne, MuteJoined, BeginsMutely DEF RecordReplay
<1>8. ASSUME NEW key, TrustPublisher(p, key)
      PROVE  BeginsMute(p)
  BY <1>1, <1>8, MuteWrites, MuteEvent, MuteThree, MutePrint, MuteJoined, BeginsMutely
  DEF TrustPublisher
<1>9. ASSUME NEW package, InstallPackage(p, package)
      PROVE  BeginsMute(p)
  <2> DEFINE capsule == package.capsule
             path == <<"store", "install", capsule.version>>
             install == [version |-> capsule.version, key |-> package.key]
             file == <<Artifact(path, install)>>
             records == <<Upsert("capsules", Cap, capsule),
                          Upsert("capsule-installs", capsule.version, install),
                          Archive(capsule),
                          Event("capsule.store.installed", path)>>
             first == <<Upsert("capsules", Cap, capsule),
                        Upsert("capsule-installs", capsule.version, install)>>
             second == <<Archive(capsule), Event("capsule.store.installed", path)>>
             printed == PrintJson(path, "capsule-installs", capsule.version, install)
  <2>1. Begin(p, file \o ApprovalCard(capsule) \o records \o printed)
    BY <1>9 DEF InstallPackage
  <2>2. records = first \o second
    OBVIOUS
  <2>3. /\ MutePlan(file) /\ MutePlan(first) /\ MutePlan(second) /\ MutePlan(printed)
        /\ MutePlan(ApprovalCard(capsule))
    BY <1>1, MuteWrites, MuteOne, MuteCard, MuteEvent, MuteTwo, MutePrint
  <2> HIDE DEF file, first, second, records, printed
  <2>4. QED BY <2>1, <2>2, <2>3, MuteJoined, BeginsMutely
<1>10. QED BY <1>2, <1>3, <1>4, <1>5, <1>6, <1>7, <1>8, <1>9 DEF CapsuleStep

\* What a step of a family without such events leaves of the plans.
Muted ==
    /\ UNCHANGED log
    /\ \A q \in Procs :
         \/ proc'[q].plan = proc[q].plan
         \/ MutePlan(proc'[q].plan)
         \/ proc[q].plan # <<>> /\ proc'[q].plan = Tail(proc[q].plan)

LEMMA BeginsMuted ==
  ASSUME Shaped, NEW p, BeginsMute(p)
  PROVE  Muted
<1>1. PICK plan, view : MutePlan(plan) /\ BeginWith(p, plan, view)
  BY DEF BeginsMute
<1>2. \A q \in Procs : proc'[q].plan = IF q = p THEN plan ELSE proc[q].plan
  BY <1>1 DEF Shaped, BeginWith, StartPlan
<1>3. QED BY <1>1, <1>2 DEF Muted, BeginWith, files

LEMMA ReportMuted ==
  ASSUME Shaped, NEW p, NEW plan, NEW view, MutePlan(plan), BeginReport(p, plan, view)
  PROVE  Muted
BY DEF Shaped, BeginReport, StartPlan, Muted, files

LEMMA AdvanceMuted ==
  ASSUME Shaped, NEW p, ~Idle(p), Advance(p), UNCHANGED log
  PROVE  Muted
BY DEF Shaped, Advance, ProcFields, Muted, Idle

LEMMA CutMuted ==
  ASSUME Shaped, NEW p, CutShort(p), UNCHANGED log
  PROVE  Muted
BY MuteNone DEF Shaped, CutShort, IdleProc, Muted

LEMMA WaitMuted ==
  ASSUME UNCHANGED <<log, proc>>
  PROVE  Muted
BY DEF Muted

LEMMA MemoryMuted ==
  ASSUME Shaped, NEW p, MemoryStep(p)
  PROVE  Muted
<1>1. CASE MemoryCommand(p)
  BY <1>1, MemoryMute, BeginsMuted
<1>2. CASE ExplainContext(p)
  <2> DEFINE cards == [do |-> "cards"]
             pack == [do |-> "pack"]
  <2>1. Mute(cards) /\ Mute(pack)
    BY DEF Mute
  <2> HIDE DEF cards, pack
  <2>2. MutePlan(<<cards, pack>>)
    BY <2>1, MuteTwo
  <2>3. \E view : BeginReport(p, <<cards, pack>>, view)
    BY <1>2 DEF ExplainContext, cards, pack
  <2>4. QED BY <2>2, <2>3, ReportMuted
<1>3. CASE LookAtCards(p)
  <2>1. \A q \in Procs : proc'[q].plan = IF q = p THEN Tail(proc[p].plan) ELSE proc[q].plan
    BY <1>3 DEF Shaped, LookAtCards, ProcFields
  <2>2. QED BY <1>3, <2>1 DEF Muted, LookAtCards, AtStep, Idle, files
<1>4. CASE PackContext(p)
  BY <1>4, MuteNone DEF Shaped, PackContext, ProcFields, Muted
<1>5. CASE UserModel(p) \/ Timeline(p)
  BY <1>5, WaitMuted DEF UserModel, Timeline, Report
<1>6. QED BY <1>1, <1>2, <1>3, <1>4, <1>5 DEF MemoryStep

LEMMA MutePromotion ==
  ASSUME NEW p, NEW id, Promote(p, id)
  PROVE  BeginsMute(p)
<1> DEFINE run == NewRun
           approval == [branch |-> id, run |-> run]
           approved == [rows["branches"][id] EXCEPT !.status = "approved"]
           opened == <<Manifest(run, "running", <<>>)>>
           started == Managed(run, "run.started", <<>>, <<>>)
           reread == <<[do |-> "reread", branch |-> id]>>
           decided == Managed(run, "policy.decided", <<>>, <<"run.started">>)
           commit == <<[do |-> "commit"]>>
           acted == Managed(run, "action.recorded", <<>>, PrepareEvents)
           verify == <<[do |-> "verify"]>>
           completed == Managed(run, "run.completed", <<>>, PromotionEvents)
           closed == <<Manifest(run, "completed", Append(PromotionEvents, "run.completed")),
                       Upsert("branches", id, approved)>>
           printed == PrintJson(<<"approve-rehearsal", id, id>>, "sandbox-approvals", id, approval)
           plan == opened \o started \o reread \o decided \o commit \o acted \o verify \o completed
                   \o closed \o printed
<1>1. BeginWith(p, plan, [promoting |-> id, contents |-> <<>>, edited |-> FALSE])
  BY DEF Promote
<1>2. MutePlan(reread) /\ MutePlan(commit) /\ MutePlan(verify)
  BY MuteOne DEF Mute
<1>3. MutePlan(opened) /\ MutePlan(closed) /\ MutePlan(printed)
  BY MuteManifest, MuteWrites, MuteTwo, MutePrint
<1>4. MutePlan(started) /\ MutePlan(decided) /\ MutePlan(acted) /\ MutePlan(completed)
  BY MuteManaged DEF OnceTypes
<1> HIDE DEF opened, started, reread, decided, commit, acted, verify, completed, closed, printed
<1>5. MutePlan(plan)
  BY <1>2, <1>3, <1>4, MuteJoined
<1> HIDE DEF plan
<1>6. QED BY <1>1, <1>5 DEF BeginsMute

LEMMA SandboxMuted ==
  ASSUME Shaped, NEW p \in Procs, SandboxStep(p)
  PROVE  Muted
<1>1. ASSUME NEW id, TakeCheckpoint(p, id) \/ OpenBranch(p, id) \/ Promote(p, id)
      PROVE  Muted
  BY <1>1, MutePrint, BeginsMutely, MutePromotion, BeginsMuted DEF TakeCheckpoint, OpenBranch
<1>2. ASSUME NEW id, NEW content, Rehearse(p, id, content)
      PROVE  Muted
  <2> DEFINE copy == [do |-> "copy", branch |-> id, content |-> content]
  <2>1. MutePlan(<<copy>>)
    BY MuteOne DEF Mute
  <2>2. QED BY <1>2, <2>1, MutePrint, MuteJoined, BeginsMutely, BeginsMuted DEF Rehearse
<1>3. CASE CopyToSandbox(p) \/ CommitPromotion(p)
  BY <1>3, AdvanceMuted DEF CopyToSandbox, CommitPromotion, AtStep
<1>4. CASE RereadSandbox(p)
  <2>1. \A q \in Procs : proc'[q].plan = IF q = p THEN Tail(proc[p].plan) ELSE proc[q].plan
    BY <1>4 DEF Shaped, RereadSandbox, ProcFields
  <2>2. QED BY <1>4, <2>1 DEF Muted, RereadSandbox, AtStep, Idle, files
<1>5. CASE VerifyPromotion(p)
  BY <1>5, AdvanceMuted, CutMuted DEF VerifyPromotion, AtStep, files
<1>6. ASSUME NEW content, EditTarget(p, content)
      PROVE  Muted
  BY <1>6 DEF Shaped, EditTarget, ProcFields, Muted, Outside
<1>7. QED BY <1>1, <1>2, <1>3, <1>4, <1>5, <1>6 DEF SandboxStep

LEMMA MuteAside ==
  ASSUME NEW run, NEW path, NEW value, NEW type, type \notin OnceTypes
  PROVE  MutePlan(OwnRun(run, type, path, value))
BY MuteWrites, MuteOne, MuteGoverned, MuteJoined DEF OwnRun

LEMMA MuteChain ==
  ASSUME NEW run, NEW prompt, NEW id, NEW value, NEW answer
  PROVE  /\ MutePlan(BindPlan(run, prompt))
         /\ MutePlan(PreparePlan(run, id, prompt))
         /\ MutePlan(AnswerPlan(run, id, prompt, answer))
         /\ MutePlan(ProposePlan(run, id, value))
BY MuteAside, MuteJoined DEF OnceTypes, BindPlan, PreparePlan, AnswerPlan, ProposePlan

LEMMA MuteExecution ==
  ASSUME NEW run, NEW decision
  PROVE  MutePlan(ExecutePlan(run, ToolEvents(decision), decision))
<1> DEFINE types == ToolEvents(decision)
           told == [i \in DOMAIN types |-> RunEvent(run, types[i], <<>>)]
           status == IF decision = "allow" THEN "completed" ELSE "blocked"
           opened == <<Manifest(run, "running", <<>>)>>
           closed == <<Manifest(run, "running", types), Manifest(run, status, types)>>
<1>1. types \in Seq(ToolTypes) /\ \A i \in DOMAIN types : types[i] \in ToolTypes
  BY EventsOfTools
<1>2. ToolTypes \cap OnceTypes = {}
  BY DEF ToolTypes, OnceTypes
<1> HIDE DEF types
<1>3. \A i \in DOMAIN types : types[i] \notin OnceTypes
  BY <1>1, <1>2
<1>4. IsPlan(told)
  <2>1. Len(types) \in Nat /\ DOMAIN types = 1..Len(types)
    BY <1>1, LenProperties
  <2>2. told \in [1..Len(types) -> Range(told)]
    BY <2>1 DEF Range
  <2>3. \A S : [1..Len(types) -> S] \subseteq Seq(S)
    BY <2>1
  <2>4. QED BY <2>2, <2>3, Zenon DEF IsPlan
<1>5. MutePlan(told)
  BY <1>3, <1>4, MuteEvent DEF MutePlan, Range
<1>6. MutePlan(opened) /\ MutePlan(closed)
  BY MuteManifest, MuteWrites, MuteTwo
<1>7. ExecutePlan(run, types, decision) = (opened \o told) \o closed
  BY DEF ExecutePlan
<1> HIDE DEF told, opened, closed
<1>8. QED BY <1>5, <1>6, <1>7, MuteJoined DEF types

LEMMA ToolsMuted ==
  ASSUME Shaped, NEW p, Tools(p)
  PROVE  Muted
<1>1. ASSUME NEW id, ProposeTool(p, id)
      PROVE  Muted
  <2>1. PICK run, new, proposal, view : BeginWith(p, ProposePlan(run, new, proposal), view)
    BY <1>1, Zenon DEF ProposeTool
  <2>2. QED BY <2>1, MuteChain, BeginsMuted DEF BeginsMute
<1>2. ASSUME NEW id, NEW decision, ExecuteTool(p, id, decision)
      PROVE  Muted
  <2>1. \E view : BeginWith(p, ExecutePlan(NewRun, ToolEvents(decision), decision), view)
    BY <1>2, Zenon DEF ExecuteTool, ExecutePlan
  <2>2. QED BY <2>1, MuteExecution, BeginsMuted DEF BeginsMute
<1>3. QED BY <1>1, <1>2 DEF Tools

LEMMA PromptsMuted ==
  ASSUME Shaped, NEW p, PromptStep(p)
  PROVE  Muted
<1>1. ASSUME NEW task, BindRuntime(p, task)
      PROVE  Muted
  BY <1>1, MuteChain, BeginsMutely, BeginsMuted DEF BindRuntime
<1>2. ASSUME NEW prompt, PrepareRequest(p, prompt)
      PROVE  Muted
  BY <1>2, MuteChain, BeginsMutely, BeginsMuted DEF PrepareRequest
<1>3. ASSUME NEW id, NEW task, NEW answer, InvokeModel(p, id, task, answer)
      PROVE  Muted
  BY <1>3, MuteChain, BeginsMutely, BeginsMuted DEF InvokeModel
<1>4. ASSUME NEW id, NEW task, NEW answer, InvokeElsewhere(p, id, task, answer)
      PROVE  Muted
  BY <1>4, MuteChain, ReportMuted DEF InvokeElsewhere
<1>5. Staged(p) => Muted
  BY <1>1, <1>2, <1>3, <1>4 DEF Staged
<1>6. MemoryChanges(p) => Muted
  BY WaitMuted DEF MemoryChanges, Outside
<1>7. QED BY <1>5, <1>6, ToolsMuted DEF PromptStep

LEMMA ChatMuted ==
  ASSUME Shaped, NEW p, ChatStep(p)
  PROVE  Muted
<1>1. ASSUME NEW task, NEW answer, Chat(p, task, answer)
      PROVE  Muted
  <2> DEFINE prompt == PromptOf(task)
             id == NewId("request")
             bind == BindPlan(NewId("bind"), prompt)
             ask == PreparePlan(NewId("ask"), id, prompt)
             assemble == <<[do |-> "assemble", task |-> task, bound |-> prompt]>>
             tell == AnswerPlan(NewRun, id, prompt, answer)
  <2>1. Begin(p, bind \o ask \o assemble \o tell)
    BY <1>1 DEF Chat
  <2>2. MutePlan(assemble)
    BY MuteOne DEF Mute
  <2>3. MutePlan(bind) /\ MutePlan(ask) /\ MutePlan(tell)
    BY MuteChain
  <2> HIDE DEF bind, ask, assemble, tell
  <2>4. QED BY <2>1, <2>2, <2>3, MuteJoined, BeginsMutely, BeginsMuted
<1>2. ASSUME NEW id, NEW task, NEW answer, InvokeModel(p, id, task, answer)
      PROVE  Muted
  BY <1>2, MuteChain, BeginsMutely, BeginsMuted DEF InvokeModel
<1>3. AssembleAgain(p) => Muted
  BY AdvanceMuted, CutMuted DEF AssembleAgain, AtStep, files
<1>4. MemoryChanges(p) => Muted
  BY WaitMuted DEF MemoryChanges, Outside
<1>5. QED BY <1>1, <1>2, <1>3, <1>4, ToolsMuted DEF ChatStep

-----------------------------------------------------------------------------
(* The workspaces they start from *)

MuteStart(s) == /\ DOMAIN s = {"rows", "artifacts", "log", "world"}
                /\ IsPlan(s.log)
                /\ \A i \in DOMAIN s.log : ~Once(s.log[i])

LEMMA MuteCarriedOut ==
  ASSUME NEW s, MuteStart(s), NEW plan, MutePlan(plan)
  PROVE  MuteStart(CarriedOut(s, plan))
<1> DEFINE entries == EntriesOf(plan)
           n == Cardinality(EventSteps(plan))
<1>1. /\ n \in Nat /\ DOMAIN entries = 1..n /\ IsPlan(entries)
      /\ \E step \in [1..n -> DOMAIN plan] :
           /\ \A k \in 1..n : plan[step[k]].do = "event" /\ entries[k] = plan[step[k]].entry
           /\ \A k, l \in 1..n : step[k] = step[l] => k = l
  BY EntriesOfEvents DEF MutePlan
<1>2. PICK step \in [1..n -> DOMAIN plan] :
        \A k \in 1..n : plan[step[k]].do = "event" /\ entries[k] = plan[step[k]].entry
  BY <1>1
<1>3. /\ DOMAIN CarriedOut(s, plan) = DOMAIN s
      /\ CarriedOut(s, plan).log = s.log \o entries
  BY DEF CarriedOut, MuteStart
<1> HIDE DEF entries, n
<1>4. \A k \in 1..n : ~Once(entries[k])
  BY <1>2 DEF MutePlan, Mute, Range
<1>5. IsPlan(s.log \o entries) /\ Range(s.log \o entries) = Range(s.log) \cup Range(entries)
  BY <1>1, Joined DEF MuteStart
<1>6. \A e \in Range(s.log \o entries) : ~Once(e)
  BY <1>1, <1>4, <1>5 DEF MuteStart, Range
<1>7. \A i \in DOMAIN (s.log \o entries) : ~Once((s.log \o entries)[i])
  BY <1>6 DEF Range
<1>8. QED BY <1>3, <1>5, <1>7 DEF MuteStart

\* The events of the runs the memories are of.
UnverifiedRun == <<"run.started", "run.completed">>
VerifiedRun == <<"run.started", "verification.recorded", "run.completed">>

LEMMA MuteFresh ==
  ASSUME NEW types \in {UnverifiedRun, VerifiedRun}, NEW sensitivity
  PROVE  MuteStart(FreshMemory(types, sensitivity))
<1> DEFINE told == [i \in DOMAIN types |-> Plain(types[i])]
<1>1. types = UnverifiedRun \/ types = VerifiedRun
  OBVIOUS
<1>2. \A i \in DOMAIN types : types[i] \notin OnceTypes
  BY <1>1 DEF OnceTypes, UnverifiedRun, VerifiedRun
<1>3. /\ types = UnverifiedRun => DOMAIN types = 1..2
      /\ types = VerifiedRun => DOMAIN types = 1..3
  BY DEF UnverifiedRun, VerifiedRun
<1>4. \A i \in DOMAIN told : ~Once(told[i])
  BY <1>2 DEF Once, Plain
<1>5. \A S : [1..2 -> S] \subseteq Seq(S) /\ [1..3 -> S] \subseteq Seq(S)
  <2>1. ASSUME NEW S, NEW n \in Nat
        PROVE  [1..n -> S] \subseteq Seq(S)
    OBVIOUS
  <2>2. 2 \in Nat /\ 3 \in Nat
    OBVIOUS
  <2>3. QED BY <2>1, <2>2
<1>6. told \in [DOMAIN types -> Range(told)]
  BY DEF Range
<1> HIDE DEF told
<1>7. IsPlan(told)
  BY <1>1, <1>3, <1>5, <1>6, Zenon DEF IsPlan
<1>8. QED BY <1>4, <1>7 DEF MuteStart, FreshMemory, told

LEMMA MuteMemory == \A s \in MemoryStarts : MuteStart(s)
<1>1. ASSUME NEW types \in {UnverifiedRun, VerifiedRun}, NEW sensitivity
      PROVE  MuteStart(FreshMemory(types, sensitivity))
  BY MuteFresh
<1>2. \A sensitivity : MuteStart(Accepted(sensitivity))
  BY <1>1, MuteAccepted, MuteJoined, MuteCarriedOut DEF Accepted, VerifiedRun
<1>3. MuteStart(DeletedAndProposed)
  <2> DEFINE accepted == Accepted("private")
             candidate == Candidate("verified", {2}, "private", {"external_send"})
             card == accepted.rows["memory-cards"]["verification"]
             told == Recorded("memory.candidate.created",
                              MemoryPath("candidates", "verification"), candidate)
             plan == DeletePlan("verification", Tombstone("verification", card)) \o told
                     \o <<Upsert("memory-candidates", "verification", candidate)>>
  <2>1. MutePlan(told)
    BY MuteRecorded DEF OnceTypes
  <2>2. MutePlan(<<Upsert("memory-candidates", "verification", candidate)>>)
    BY MuteWrites, MuteOne
  <2>3. MutePlan(plan)
    BY <2>1, <2>2, MuteDeleted, MuteJoined
  <2>4. DeletedAndProposed = CarriedOut(accepted, plan)
    BY DEF DeletedAndProposed
  <2>5. QED BY <1>2, <2>3, <2>4, MuteCarriedOut
<1>4. QED BY <1>1, <1>2, <1>3 DEF MemoryStarts, UnverifiedRun

LEMMA MuteEmpty ==
  ASSUME NEW s, DOMAIN s = {"rows", "artifacts", "log", "world"}, s.log = <<>>
  PROVE  MuteStart(s)
BY None, EmptySeq DEF MuteStart

LEMMA MuteSingle ==
  ASSUME NEW s, DOMAIN s = {"rows", "artifacts", "log", "world"}, NEW e, s.log = <<e>>, ~Once(e)
  PROVE  MuteStart(s)
BY One DEF MuteStart

LEMMA MuteSecurity == \A s \in SecurityStarts : MuteStart(s)
<1> DEFINE e == [type |-> "run.started", ref |-> <<>>, run |-> Earlier("run")]
<1>1. ~Once(e)
  BY DEF Once, OnceTypes
<1>2. \A s \in SecurityStarts : DOMAIN s = {"rows", "artifacts", "log", "world"} /\ s.log = <<e>>
  BY DEF SecurityStarts
<1> HIDE DEF e
<1>3. QED BY <1>1, <1>2, MuteSingle

LEMMA MuteCapsules == \A s \in CapsuleStarts : MuteStart(s)
<1>1. MuteStart(EmptyCapsules)
  BY MuteEmpty DEF EmptyCapsules
<1>2. \A version, tools, previous : MutePlan(PublicationPlan(version, tools, previous))
  <2> SUFFICES ASSUME NEW version, NEW tools, NEW previous
               PROVE  MutePlan(PublicationPlan(version, tools, previous))
    OBVIOUS
  <2> DEFINE tested == PassedDraft(version, tools, previous)
             published == Published(tested)
             copied == <<Artifact(TrialPath(version), "clean")>>
             kept == <<Archive(published), Upsert("capsules", Cap, published),
                       DropRow("capsule-drafts", Cap)>>
             test == Lifecycle("test", version, tested)
             publish == Lifecycle("publish", version, published)
  <2>1. PublicationPlan(version, tools, previous) =
          ReplayPlan("passed") \o copied \o test \o ApprovalCard(tested) \o kept \o publish
    BY DEF PublicationPlan
  <2>2. MutePlan(copied) /\ MutePlan(kept) /\ MutePlan(test) /\ MutePlan(publish)
    BY MuteWrites, MuteOne, MutePublished, MuteLifecycle
  <2> HIDE DEF copied, kept, test, publish
  <2>3. QED BY <2>1, <2>2, MuteReplay, MuteCard, MuteJoined
<1>3. \A run : MutePlan(Recorded("replay.recorded", ReplayPath(run), "passed"))
  BY MuteRecorded DEF OnceTypes
<1>4. QED BY <1>1, <1>2, <1>3, MuteJoined, MuteCarriedOut DEF CapsuleStarts

LEMMA MuteSandbox == \A s \in SandboxStarts : MuteStart(s)
<1>1. MuteStart(EmptySandbox)
  BY MuteEmpty DEF EmptySandbox
<1>2. \A table : MuteStart([OpenedSandbox EXCEPT !.world.sandbox = table])
  BY MuteEmpty DEF OpenedSandbox, EmptySandbox
<1>3. \A id, content : MutePlan(RehearsedPlan(id, content))
  BY MutePrint DEF RehearsedPlan
<1>4. QED BY <1>1, <1>2, <1>3, MuteCarriedOut DEF SandboxStarts

LEMMA MutePrompts == \A s \in PromptStarts : MuteStart(s)
<1>1. MuteStart(NoPrompts)
  <2> DEFINE e == [type |-> "run.completed", ref |-> <<>>, run |-> Earlier("start")]
  <2>1. ~Once(e)
    BY DEF Once, OnceTypes
  <2>2. DOMAIN NoPrompts = {"rows", "artifacts", "log", "world"} /\ NoPrompts.log = <<e>>
    BY DEF NoPrompts
  <2> HIDE DEF e
  <2>3. QED BY <2>1, <2>2, MuteSingle
<1> DEFINE id == Earlier("request")
           asked(task) == BindPlan(Earlier("bind"), task) \o PreparePlan(Earlier("ask"), id, task)
           answer(task) == AnswerPlan(Earlier("run"), id, task, "conforming")
<1>2. \A task : MutePlan(asked(task)) /\ MutePlan(asked(task) \o answer(task))
  BY MuteChain, MuteJoined
<1>3. \A s \in PromptStarts :
        \/ s = NoPrompts
        \/ \E task : s \in {CarriedOut(NoPrompts, asked(task)),
                           CarriedOut(NoPrompts, asked(task) \o answer(task))}
  BY DEF PromptStarts
<1> HIDE DEF asked, answer
<1>4. QED BY <1>1, <1>2, <1>3, MuteCarriedOut

LEMMA InitMuteInv == Init => MuteInv
<1> SUFFICES ASSUME Init, family \notin OnceFamilies PROVE MuteState
  BY DEF MuteInv
<1>1. PICK s \in Starts(family) : log = s.log
  BY DEF Init
<1>2. CASE family \in {"memory", "security", "capsules", "sandbox", "prompts", "chat"}
  <2>1. MuteStart(s)
    BY <1>1, <1>2, MuteMemory, MuteSecurity, MuteCapsules, MuteSandbox, MutePrompts
    DEF Starts, PromptStarts
  <2>2. \A p \in Procs : MutePlan(proc[p].plan)
    BY MuteNone DEF Init, IdleProc
  <2>3. QED BY <1>1, <2>1, <2>2, InitShaped DEF MuteStart, MuteState, MuteLog
<1>3. QED BY <1>2, FamiliesAssumption DEF Init, OnceFamilies

LEMMA StepMuteInv == MuteInv /\ [Next]_govVars => MuteInv'
<1> SUFFICES ASSUME MuteInv, [Next]_govVars, family' \notin OnceFamilies PROVE MuteState'
  BY DEF MuteInv
<1>1. family' = family /\ MuteState /\ Shaped /\ Shaped'
  BY NextMoves DEF Moves, MuteInv, MuteState
<1>2. ASSUME Muted
      PROVE  MuteState'
  BY <1>1, <1>2, Left DEF Muted, MuteState, MutePlan, MuteLog
<1>3. ASSUME NEW p \in Procs, AppendEvent(p)
      PROVE  MuteState'
  <2> DEFINE s == Head(proc[p].plan)
  <2>1. ~Idle(p) /\ Advance(p) /\ s.do = "event" /\ log' = Append(log, s.entry)
    BY <1>3 DEF AppendEvent, AtStep
  <2>2. \A q \in Procs : proc'[q].plan = IF q = p THEN Tail(proc[p].plan) ELSE proc[q].plan
    BY <1>1, <2>1 DEF Shaped, Advance, ProcFields
  <2>3. Mute(s) /\ MutePlan(Tail(proc[p].plan))
    BY <1>1, <2>1, Left DEF MuteState, MutePlan, Idle
  <2>4. ~Once(s.entry)
    BY <2>1, <2>3 DEF Mute
  <2> HIDE DEF s
  <2>5. MuteLog'
    BY <1>1, <2>1, <2>4, AppendedLog DEF MuteState, MuteLog
  <2>6. QED BY <1>1, <2>2, <2>3, <2>5 DEF MuteState
<1>4. ASSUME NEW p \in Procs, Write(p), ~AppendEvent(p)
      PROVE  Muted
  <2>1. CASE StoreArtifact(p) \/ WriteTable(p)
    BY <1>1, <2>1, AdvanceMuted DEF StoreArtifact, WriteTable, AtStep
  <2>2. CASE ReadTable(p)
    BY <1>1, <2>2 DEF Shaped, ReadTable, ProcFields, Muted, files
  <2>3. QED BY <1>4, <2>1, <2>2 DEF Write
<1>5. ASSUME NEW p \in Procs, Kill(p)
      PROVE  Muted
  BY <1>1, <1>5, CutMuted DEF Kill, files
<1>6. ASSUME NEW p \in Procs, FamilyStep(p)
      PROVE  Muted
  BY <1>1, <1>6, MemoryMuted, SecurityMute, CapsulesMute, BeginsMuted, SandboxMuted, PromptsMuted,
     ChatMuted
  DEF FamilyStep, OnceFamilies
<1>7. UNCHANGED govVars => Muted
  BY DEF Muted, govVars, files
<1>8. QED BY <1>2, <1>3, <1>4, <1>5, <1>6, <1>7 DEF Next

-----------------------------------------------------------------------------
(* What must happen once: the plans that fork an agent or wake a run *)

\* A trigger is named after the sleep it belongs to, and keeps its number.
Numbered(id, trigger, n) ==
    /\ id[2] \in 0..n
    /\ "since" \in DOMAIN trigger
    /\ trigger.since = id[2]

\* A step beside the ones that count: it tells of nothing that must happen once,
\* leaves the forks and the record of the run alone, and only adds triggers, of
\* the first n commands.
Still(s, n) ==
    /\ Mute(s)
    /\ s.do = "edit" => s.in \notin {"soul-forks", "hibernations"}
    /\ s.do = "edit" /\ s.in = "wakeups" =>
         s.drop = {} /\ \A id \in DOMAIN s.put : Numbered(id, s.put[id], n)

StillPlan(plan, n) == IsPlan(plan) /\ \A s \in Range(plan) : Still(s, n)

\* Some such steps, then a step that counts, then the rest.
Ahead(plan, n, s, rest) ==
    /\ IsPlan(rest)
    /\ \E before : StillPlan(before, n) /\ plan = before \o (<<s>> \o rest)

LEMMA StillNone ==
  ASSUME NEW n
  PROVE  StillPlan(<<>>, n)
BY None DEF StillPlan

LEMMA StillOne ==
  ASSUME NEW n, NEW a, Still(a, n)
  PROVE  StillPlan(<<a>>, n)
BY One DEF StillPlan

LEMMA StillTwo ==
  ASSUME NEW n, NEW a, NEW b, Still(a, n), Still(b, n)
  PROVE  StillPlan(<<a, b>>, n)
BY Two DEF StillPlan

LEMMA StillThree ==
  ASSUME NEW n, NEW a, NEW b, NEW c, Still(a, n), Still(b, n), Still(c, n)
  PROVE  StillPlan(<<a, b, c>>, n)
BY Three DEF StillPlan

LEMMA StillJoined ==
  ASSUME NEW n, NEW s, NEW t, StillPlan(s, n), StillPlan(t, n)
  PROVE  StillPlan(s \o t, n)
BY Joined DEF StillPlan

LEMMA StillTail ==
  ASSUME NEW n, NEW plan, StillPlan(plan, n), plan # <<>>
  PROVE  Still(Head(plan), n) /\ StillPlan(Tail(plan), n)
BY Left DEF StillPlan

LEMMA StillFile ==
  ASSUME NEW n, NEW path, NEW value, NEW run, NEW status, NEW events
  PROVE  Still(Artifact(path, value), n) /\ Still(Manifest(run, status, events), n)
BY DEF Still, Mute, Artifact, Manifest

LEMMA StillEvent ==
  ASSUME NEW n, NEW run, NEW path, NEW type, type \notin OnceTypes
  PROVE  Still(RunEvent(run, type, path), n) /\ Still(Event(type, path), n)
BY DEF Still, Mute, Once, RunEvent, Event

LEMMA StillEdit ==
  ASSUME NEW n, NEW name, NEW items, NEW id, NEW row,
         name \notin {"soul-forks", "hibernations", "wakeups"}
  PROVE  Still(UpsertAll(name, items), n) /\ Still(Upsert(name, id, row), n)
BY DEF Still, Mute, UpsertAll, Upsert

LEMMA StillPrint ==
  ASSUME NEW n, NEW path, NEW name, NEW id, NEW row,
         name \notin {"soul-forks", "hibernations", "wakeups"}
  PROVE  StillPlan(PrintJson(path, name, id, row), n)
BY StillFile, StillEdit, StillTwo DEF PrintJson

LEMMA StillTrigger ==
  ASSUME NEW n, NEW id, NEW trigger, Numbered(id, trigger, n)
  PROVE  Still(Upsert("wakeups", id, trigger), n)
BY DEF Single, Still, Mute, UpsertAll, Upsert

LEMMA StepFirst ==
  ASSUME NEW s, NEW rest, IsPlan(rest)
  PROVE  /\ IsPlan(<<s>> \o rest)
         /\ <<s>> \o rest # <<>>
         /\ Head(<<s>> \o rest) = s
         /\ Tail(<<s>> \o rest) = rest
<1> DEFINE S == {s} \cup Range(rest)
<1>1. <<s>> \in Seq(S) /\ rest \in Seq(S) /\ Len(<<s>>) = 1 /\ <<s>>[1] = s
  BY DEF IsPlan
<1>2. IsPlan(<<s>> \o rest)
  BY One, Joined
<1>3. /\ Len(<<s>> \o rest) = 1 + Len(rest) /\ Len(rest) \in Nat
      /\ (<<s>> \o rest)[1] = s
  BY <1>1, One, JoinedAt, PlanLength
<1>4. <<s>> \o rest # <<>>
  BY <1>3, EmptySeq
<1>5. Head(<<s>> \o rest) = s
  BY <1>2, <1>3, <1>4, PlanLength
<1>6. Tail(<<s>> \o rest) = rest
  <2>1. /\ <<s>> \o rest \in Seq(S)
        /\ \A i \in 1..(1 + Len(rest)) : (<<s>> \o rest)[i] = IF i <= 1 THEN <<s>>[i] ELSE rest[i - 1]
    BY <1>1, ConcatProperties
  <2>2. /\ Tail(<<s>> \o rest) \in Seq(S)
        /\ Len(Tail(<<s>> \o rest)) = Len(rest)
        /\ \A i \in 1..Len(rest) : Tail(<<s>> \o rest)[i] = rest[i]
    <3>1. /\ Tail(<<s>> \o rest) \in Seq(S)
          /\ Len(Tail(<<s>> \o rest)) = Len(rest)
          /\ \A i \in 1..Len(rest) : Tail(<<s>> \o rest)[i] = (<<s>> \o rest)[i + 1]
      BY <1>3, <1>4, <2>1, HeadTailProperties
    <3>2. ASSUME NEW i \in 1..Len(rest)
          PROVE  (<<s>> \o rest)[i + 1] = rest[i]
      BY <1>3, <2>1
    <3>3. QED BY <3>1, <3>2
  <2>3. QED BY <1>1, <2>2, SeqEqual
<1>7. QED BY <1>2, <1>4, <1>5, <1>6

LEMMA JoinedThrice ==
  ASSUME NEW s, NEW t, NEW u, IsPlan(s), IsPlan(t), IsPlan(u)
  PROVE  (s \o t) \o u = s \o (t \o u)
<1> DEFINE S == Range(s) \cup (Range(t) \cup Range(u))
<1>1. s \in Seq(S) /\ t \in Seq(S) /\ u \in Seq(S)
  BY DEF IsPlan
<1>2. QED BY <1>1, ConcatAssociative

LEMMA AheadIsPlan ==
  ASSUME NEW plan, NEW n, NEW s, NEW rest, Ahead(plan, n, s, rest)
  PROVE  IsPlan(plan) /\ plan # <<>>
<1>1. PICK before : StillPlan(before, n) /\ plan = before \o (<<s>> \o rest)
  BY DEF Ahead
<1>2. /\ IsPlan(rest) /\ IsPlan(before) /\ IsPlan(<<s>> \o rest) /\ <<s>> \o rest # <<>>
  BY <1>1, StepFirst DEF Ahead, StillPlan
<1>3. IsPlan(plan) /\ Len(plan) = Len(before) + Len(<<s>> \o rest)
  BY <1>1, <1>2, Joined, JoinedAt
<1>4. Len(before) \in Nat /\ Len(<<s>> \o rest) \in Nat \ {0}
  BY <1>2, PlanLength
<1>5. QED BY <1>3, <1>4, EmptySeq

\* What comes before the step, and what comes after it.
LEMMA AheadBegins ==
  ASSUME NEW n, NEW s, NEW rest, IsPlan(rest)
  PROVE  Ahead(<<s>> \o rest, n, s, rest)
<1>1. IsPlan(<<s>> \o rest)
  BY StepFirst
<1>2. <<>> \o (<<s>> \o rest) = <<s>> \o rest
  BY <1>1, ConcatEmptySeq DEF IsPlan
<1>3. QED BY <1>2, StillNone DEF Ahead

LEMMA AheadJoined ==
  ASSUME NEW plan, NEW n, NEW s, NEW rest, Ahead(plan, n, s, rest), NEW first, StillPlan(first, n)
  PROVE  Ahead(first \o plan, n, s, rest)
<1>1. PICK before : StillPlan(before, n) /\ plan = before \o (<<s>> \o rest)
  BY DEF Ahead
<1>2. IsPlan(rest) /\ IsPlan(<<s>> \o rest) /\ IsPlan(before) /\ IsPlan(first)
  BY <1>1, StepFirst DEF Ahead, StillPlan
<1>3. first \o plan = (first \o before) \o (<<s>> \o rest)
  BY <1>1, <1>2, JoinedThrice
<1>4. QED BY <1>1, <1>2, <1>3, StillJoined DEF Ahead

LEMMA AheadMore ==
  ASSUME NEW plan, NEW n, NEW s, NEW rest, Ahead(plan, n, s, rest), NEW more, IsPlan(more)
  PROVE  Ahead(plan \o more, n, s, rest \o more)
<1>1. PICK before : StillPlan(before, n) /\ plan = before \o (<<s>> \o rest)
  BY DEF Ahead
<1>2. IsPlan(rest) /\ IsPlan(<<s>> \o rest) /\ IsPlan(before) /\ IsPlan(<<s>>) /\ IsPlan(rest \o more)
  BY <1>1, StepFirst, One, Joined DEF Ahead, StillPlan
<1>3. plan \o more = before \o ((<<s>> \o rest) \o more)
  BY <1>1, <1>2, JoinedThrice
<1>4. (<<s>> \o rest) \o more = <<s>> \o (rest \o more)
  BY <1>2, JoinedThrice
<1>5. QED BY <1>1, <1>2, <1>3, <1>4 DEF Ahead

\* One step on: the step that counts, or one before it.
LEMMA AheadTail ==
  ASSUME NEW plan, NEW n, NEW s, NEW rest, Ahead(plan, n, s, rest)
  PROVE  \/ Head(plan) = s /\ Tail(plan) = rest
         \/ Still(Head(plan), n) /\ Ahead(Tail(plan), n, s, rest)
<1>1. PICK before : StillPlan(before, n) /\ plan = before \o (<<s>> \o rest)
  BY DEF Ahead
<1>2. IsPlan(rest) /\ IsPlan(<<s>> \o rest) /\ IsPlan(before)
  BY <1>1, StepFirst DEF Ahead, StillPlan
<1>3. CASE before = <<>>
  <2>1. plan = <<s>> \o rest
    BY <1>1, <1>2, <1>3, ConcatEmptySeq DEF IsPlan
  <2>2. QED BY <1>2, <2>1, StepFirst
<1>4. CASE before # <<>>
  <2> DEFINE first == Head(before)
             left == Tail(before)
  <2>1. Still(first, n) /\ StillPlan(left, n) /\ IsPlan(left)
    BY <1>1, <1>4, StillTail DEF StillPlan
  <2>2. before = <<first>> \o left
    BY <1>2, <1>4 DEF IsPlan
  <2> HIDE DEF first, left
  <2>3. plan = <<first>> \o (left \o (<<s>> \o rest))
    <3>1. plan = (<<first>> \o left) \o (<<s>> \o rest)
      BY <1>1, <2>2
    <3>2. IsPlan(<<first>>)
      BY One
    <3>3. QED BY <1>2, <2>1, <3>1, <3>2, JoinedThrice
  <2>4. Head(plan) = first /\ Tail(plan) = left \o (<<s>> \o rest)
    BY <1>2, <2>1, <2>3, Joined, StepFirst
  <2>5. QED BY <1>2, <2>1, <2>4 DEF Ahead
<1>5. QED BY <1>3, <1>4

-----------------------------------------------------------------------------
(* What must happen once: one operator, and readers that write nothing *)

\* The table that is read is still what the registry holds.
Fresh(r) ==
    r.plan # <<>> /\ Head(r.plan).do = "edit" /\ r.held # <<>> => r.held[1] = rows[Head(r.plan).in]

SoleInv ==
    /\ begun \in Nat
    /\ Shaped
    /\ IsPlan(log)
    /\ \A q \in Readers : proc[q].plan = <<>>
    /\ \A q \in Operators : IsPlan(proc[q].plan) /\ Fresh(proc[q])

\* Nothing happens that counts.
Waits ==
    /\ UNCHANGED <<rows, log, cut, begun>>
    /\ \A q \in Procs : proc'[q].plan = proc[q].plan /\ proc'[q].ids = proc[q].ids

\* The first step of the plan is carried out, and is the whole of its change.
Carries(p) ==
    LET s == Head(proc[p].plan)
        left == Tail(proc[p].plan)
    IN /\ proc[p].plan # <<>>
       /\ proc'[p].plan = left
       /\ left # <<>> => proc'[p].ids = proc[p].ids
       /\ rows' = IF s.do = "edit" THEN [rows EXCEPT ![s.in] = Edited(rows[s.in], s)] ELSE rows
       /\ log' = IF s.do = "event" THEN Append(log, s.entry) ELSE log
       /\ UNCHANGED <<cut, begun>>

Dies(p) ==
    /\ proc[p].plan # <<>>
    /\ proc'[p].plan = <<>>
    /\ cut' = cut \cup proc[p].ids
    /\ UNCHANGED <<rows, log, begun>>

SoleBegins(p, plan) ==
    /\ proc[p].plan = <<>>
    /\ proc'[p].plan = plan
    /\ proc'[p].ids = Touched(plan)
    /\ begun' = begun + 1
    /\ UNCHANGED <<rows, log, cut>>

LEMMA SoleStep ==
  ASSUME SoleInv, OneOperator, Shaped', NEW p \in Operators,
         \A q \in Procs : q # p => proc'[q] = proc[q],
         begun' \in Nat, IsPlan(log'), IsPlan(proc'[p].plan), Fresh(proc[p])'
  PROVE  SoleInv'
BY ReadersReport DEF SoleInv, OneOperator

LEMMA SoleAdvances ==
  ASSUME SoleInv, NEW p \in Procs, ~Idle(p), Advance(p)
  PROVE  /\ p \in Operators
         /\ \A q \in Procs : q # p => proc'[q] = proc[q]
         /\ proc[p].plan # <<>>
         /\ proc'[p].plan = Tail(proc[p].plan)
         /\ Tail(proc[p].plan) # <<>> => proc'[p].ids = proc[p].ids
         /\ IsPlan(proc'[p].plan)
         /\ Fresh(proc[p])'
<1>1. p \in Operators /\ DOMAIN proc = Procs /\ DOMAIN proc[p] = ProcFields /\ proc[p].plan # <<>>
  BY DEF SoleInv, Shaped, Idle, Procs
<1>2. /\ proc'[p].plan = Tail(proc[p].plan)
      /\ proc'[p].held = <<>>
      /\ proc'[p].ids = IF Tail(proc[p].plan) = <<>> THEN {} ELSE proc[p].ids
      /\ \A q \in Procs : q # p => proc'[q] = proc[q]
  BY <1>1 DEF Advance, ProcFields
<1>3. IsPlan(Tail(proc[p].plan))
  BY <1>1, Left DEF SoleInv
<1>4. QED BY <1>1, <1>2, <1>3 DEF Fresh

LEMMA SoleWrites ==
  ASSUME SoleInv, OneOperator, Shaped', NEW p \in Procs, Write(p)
  PROVE  SoleInv' /\ (Waits \/ (p \in Operators /\ Carries(p)))
<1> DEFINE s == Head(proc[p].plan)
<1>1. CASE StoreArtifact(p)
  BY <1>1, SoleAdvances, SoleStep DEF StoreArtifact, AtStep, Carries, SoleInv
<1>2. CASE AppendEvent(p)
  <2>1. /\ ~Idle(p) /\ Advance(p) /\ s.do = "event" /\ log' = Append(log, s.entry)
        /\ UNCHANGED <<rows, cut, begun>>
    BY <1>2 DEF AppendEvent, AtStep
  <2>2. Carries(p) /\ p \in Operators
    BY <2>1, SoleAdvances DEF Carries
  <2> HIDE DEF s
  <2>3. IsPlan(log')
    BY <2>1, AppendedLog DEF SoleInv
  <2>4. QED BY <2>1, <2>2, <2>3, SoleAdvances, SoleStep DEF SoleInv
<1>3. CASE ReadTable(p)
  <2>1. /\ p \in Operators /\ DOMAIN proc = Procs /\ DOMAIN proc[p] = ProcFields
        /\ proc[p].plan # <<>> /\ s.do = "edit"
    BY <1>3 DEF ReadTable, AtStep, SoleInv, Shaped, Idle, Procs
  <2>2. /\ proc'[p].plan = proc[p].plan
        /\ proc'[p].ids = proc[p].ids
        /\ proc'[p].held = <<rows[s.in]>>
        /\ \A q \in Procs : q # p => proc'[q] = proc[q]
    BY <1>3, <2>1 DEF ReadTable, ProcFields
  <2>3. UNCHANGED <<rows, log, cut, begun>>
    BY <1>3 DEF ReadTable, files
  <2>4. Fresh(proc[p])'
    BY <2>2, <2>3 DEF Fresh
  <2>5. Waits
    BY <2>2, <2>3 DEF Waits
  <2>6. QED BY <2>1, <2>2, <2>3, <2>4, <2>5, SoleStep DEF SoleInv
<1>4. CASE WriteTable(p)
  <2>1. /\ ~Idle(p) /\ Advance(p) /\ s.do = "edit" /\ proc[p].held # <<>>
        /\ rows' = [rows EXCEPT ![s.in] = Edited(proc[p].held[1], s)]
        /\ UNCHANGED <<log, cut, begun>>
    BY <1>4 DEF WriteTable, AtStep
  <2>2. p \in Operators /\ proc[p].plan # <<>>
    BY <2>1, SoleAdvances
  <2>3. proc[p].held[1] = rows[s.in]
    BY <2>1, <2>2 DEF SoleInv, Fresh
  <2>4. Carries(p)
    BY <2>1, <2>3, SoleAdvances DEF Carries
  <2>5. QED BY <2>1, <2>2, <2>4, SoleAdvances, SoleStep DEF SoleInv
<1>5. QED BY <1>1, <1>2, <1>3, <1>4 DEF Write

LEMMA SoleKill ==
  ASSUME SoleInv, OneOperator, Shaped', NEW p, Kill(p)
  PROVE  SoleInv' /\ p \in Operators /\ Dies(p)
<1>1. /\ p \in Operators /\ p \in Procs /\ DOMAIN proc = Procs /\ proc[p].plan # <<>>
      /\ UNCHANGED <<rows, log, begun>> /\ cut' = cut \cup proc[p].ids
      /\ proc' = [proc EXCEPT ![p] = IdleProc]
  BY DEF Kill, CutShort, files, Idle, SoleInv, Shaped, Procs
<1>2. proc'[p].plan = <<>> /\ \A q \in Procs : q # p => proc'[q] = proc[q]
  BY <1>1 DEF IdleProc
<1>3. Fresh(proc[p])'
  BY <1>2 DEF Fresh
<1>4. QED BY <1>1, <1>2, <1>3, None, SoleStep DEF SoleInv, Dies

LEMMA SoleBegin ==
  ASSUME SoleInv, OneOperator, Shaped', NEW p, NEW plan, Begin(p, plan), IsPlan(plan)
  PROVE  SoleInv' /\ p \in Operators /\ SoleBegins(p, plan)
<1>1. /\ p \in Operators /\ p \in Procs /\ DOMAIN proc = Procs /\ proc[p].plan = <<>>
      /\ UNCHANGED <<rows, log, cut>> /\ begun' = begun + 1
      /\ proc' = [proc EXCEPT ![p] = [plan |-> plan, held |-> <<>>, view |-> Nothing,
                                      ids |-> Touched(plan)]]
  BY DEF Begin, BeginWith, StartPlan, files, Idle, SoleInv, Shaped, Procs
<1>2. /\ proc'[p].plan = plan /\ proc'[p].ids = Touched(plan) /\ proc'[p].held = <<>>
      /\ \A q \in Procs : q # p => proc'[q] = proc[q]
  BY <1>1
<1>3. Fresh(proc[p])'
  BY <1>2 DEF Fresh
<1>4. begun' \in Nat
  BY <1>1 DEF SoleInv
<1>5. QED BY <1>1, <1>2, <1>3, <1>4, SoleStep DEF SoleInv, SoleBegins

LEMMA SoleWait ==
  ASSUME SoleInv, Shaped', UNCHANGED <<rows, log, cut, begun, proc>>
  PROVE  SoleInv' /\ Waits
BY DEF SoleInv, Waits, Fresh

LEMMA SoleInit ==
  ASSUME Init, IsPlan(log)
  PROVE  SoleInv
BY None, InitShaped DEF Init, IdleProc, SoleInv, Procs, Fresh

\* What an edit leaves of the ids of a table.
LEMMA EditedTable ==
  ASSUME NEW table, NEW s
  PROVE  /\ DOMAIN Edited(table, s) = DOMAIN s.put \cup (DOMAIN table \ s.drop)
         /\ \A id \in DOMAIN s.put : Edited(table, s)[id] = s.put[id]
         /\ \A id \in DOMAIN table \ (s.drop \cup DOMAIN s.put) : Edited(table, s)[id] = table[id]
BY DEF Edited, Over, Without

\* A step changes a registry by an edit of it, and not otherwise.
LEMMA CarriedRows ==
  ASSUME NEW p, Carries(p), NEW name \in DOMAIN rows
  PROVE  LET s == Head(proc[p].plan)
         IN /\ DOMAIN rows' = DOMAIN rows
            /\ s.do = "edit" /\ s.in = name => rows'[name] = Edited(rows[name], s)
            /\ ~(s.do = "edit" /\ s.in = name) => rows'[name] = rows[name]
BY DEF Carries

-----------------------------------------------------------------------------
(* What must happen once: forks *)

ForkPath(agent) == <<"soul", "fork", agent>>
ForkKey(agent) == <<"soul-forks", agent>>
TellsOf(e, agent) == e.type = "soul.fork.created" /\ e.ref = ForkPath(agent)

\* A plan that has still to write the row of a fork, or to tell of it first.
WritesFork(plan, agent) == \E row : Ahead(plan, 0, Upsert("soul-forks", agent, row), <<>>)
TellsFork(plan, agent) ==
    \E run, rest :
      /\ Ahead(plan, 0, RunEvent(run, "soul.fork.created", ForkPath(agent)), rest)
      /\ WritesFork(rest, agent)

\* An agent that is about to be forked has not been, unless that was cut short.
Unforked(agent) == \A i \in DOMAIN log : TellsOf(log[i], agent) => ForkKey(agent) \in cut

ForkPlan(r) ==
    \/ StillPlan(r.plan, 0)
    \/ \E agent :
         /\ ForkKey(agent) \in r.ids
         /\ WritesFork(r.plan, agent) \/ (TellsFork(r.plan, agent) /\ Unforked(agent))

\* A fork that is told of has its row, or is being written, or was cut short.
Forked(agent) ==
    \/ ForkKey(agent) \in cut
    \/ agent \in DOMAIN rows["soul-forks"]
    \/ \E q \in Operators : ForkKey(agent) \in proc[q].ids /\ WritesFork(proc[q].plan, agent)

ForkLog ==
    \A i \in DOMAIN log :
      /\ log[i].type # "wakeup.queued"
      /\ log[i].type = "soul.fork.created" => \E agent : TellsOf(log[i], agent) /\ Forked(agent)

ForkedOnce ==
    \A i, j \in DOMAIN log :
      Again("soul.fork.created", i, j) /\ log[i].ref = log[j].ref =>
        ForkKey(log[i].ref[3]) \in cut

ForkInv ==
    /\ SoleInv
    /\ "soul-forks" \in DOMAIN rows
    /\ \A q \in Operators : ForkPlan(proc[q])
    /\ ForkLog
    /\ ForkedOnce

SoulInv == family = "soul" => ForkInv

LEMMA ForkSteps ==
  ASSUME NEW agent, NEW row, NEW run
  PROVE  LET edit == Upsert("soul-forks", agent, row)
             tells == RunEvent(run, "soul.fork.created", ForkPath(agent))
         IN /\ edit.do = "edit" /\ edit.in = "soul-forks" /\ DOMAIN edit.put = {agent} /\ edit.drop = {}
            /\ tells.do = "event" /\ TellsOf(tells.entry, agent)
            /\ ~Still(edit, 0) /\ ~Still(tells, 0)
BY DEF Upsert, UpsertAll, Single, RunEvent, TellsOf, Still, Mute, Once, OnceTypes

LEMMA NothingIsFork ==
  ASSUME NEW agent
  PROVE  ~WritesFork(<<>>, agent) /\ ~TellsFork(<<>>, agent)
BY AheadIsPlan DEF WritesFork, TellsFork

\* One step on in a plan that forks.
LEMMA WriteForkTail ==
  ASSUME NEW plan, NEW agent, WritesFork(plan, agent)
  PROVE  LET s == Head(plan)
         IN \/ /\ s.do = "edit" /\ s.in = "soul-forks" /\ s.drop = {} /\ DOMAIN s.put = {agent}
               /\ Tail(plan) = <<>>
            \/ Still(s, 0) /\ WritesFork(Tail(plan), agent) /\ Tail(plan) # <<>>
<1>1. PICK row : Ahead(plan, 0, Upsert("soul-forks", agent, row), <<>>)
  BY DEF WritesFork
<1> DEFINE edit == Upsert("soul-forks", agent, row)
<1>2. edit.do = "edit" /\ edit.in = "soul-forks" /\ DOMAIN edit.put = {agent} /\ edit.drop = {}
  BY ForkSteps
<1> HIDE DEF edit
<1>3. \/ Head(plan) = edit /\ Tail(plan) = <<>>
      \/ Still(Head(plan), 0) /\ Ahead(Tail(plan), 0, edit, <<>>)
  BY <1>1, AheadTail DEF edit
<1>4. Ahead(Tail(plan), 0, edit, <<>>) => WritesFork(Tail(plan), agent) /\ Tail(plan) # <<>>
  BY AheadIsPlan DEF WritesFork, edit
<1>5. QED BY <1>2, <1>3, <1>4

LEMMA TellForkTail ==
  ASSUME NEW plan, NEW agent, TellsFork(plan, agent)
  PROVE  LET s == Head(plan)
         IN /\ Tail(plan) # <<>>
            /\ \/ s.do = "event" /\ TellsOf(s.entry, agent) /\ WritesFork(Tail(plan), agent)
               \/ Still(s, 0) /\ TellsFork(Tail(plan), agent)
<1>1. PICK run, rest :
        /\ Ahead(plan, 0, RunEvent(run, "soul.fork.created", ForkPath(agent)), rest)
        /\ WritesFork(rest, agent)
  BY DEF TellsFork
<1> DEFINE tells == RunEvent(run, "soul.fork.created", ForkPath(agent))
<1>2. tells.do = "event" /\ TellsOf(tells.entry, agent)
  BY ForkSteps
<1> HIDE DEF tells
<1>3. \/ Head(plan) = tells /\ Tail(plan) = rest
      \/ Still(Head(plan), 0) /\ Ahead(Tail(plan), 0, tells, rest)
  BY <1>1, AheadTail DEF tells
<1>4. rest # <<>>
  BY <1>1, NothingIsFork
<1>5. Ahead(Tail(plan), 0, tells, rest) => TellsFork(Tail(plan), agent) /\ Tail(plan) # <<>>
  BY <1>1, AheadIsPlan DEF TellsFork, tells
<1>6. QED BY <1>1, <1>2, <1>3, <1>4, <1>5

LEMMA StillTells ==
  ASSUME NEW s, NEW n, Still(s, n), s.do = "event"
  PROVE  s.entry.type \notin OnceTypes
BY DEF Still, Mute, Once

\* What the first step of a plan can be.
LEMMA ForkHead ==
  ASSUME NEW r, ForkPlan(r), r.plan # <<>>
  PROVE  LET s == Head(r.plan)
         IN /\ s.do = "edit" /\ s.in = "soul-forks" => s.drop = {}
            /\ s.do = "event" => s.entry.type # "wakeup.queued"
            /\ s.do = "event" /\ s.entry.type = "soul.fork.created" =>
                 \E agent : /\ TellsOf(s.entry, agent) /\ Unforked(agent)
                            /\ ForkKey(agent) \in r.ids
                            /\ WritesFork(Tail(r.plan), agent) /\ Tail(r.plan) # <<>>
<1> DEFINE s == Head(r.plan)
<1>1. /\ {"soul.fork.created", "wakeup.queued"} \subseteq OnceTypes
      /\ Still(s, 0) => ~(s.do = "edit" /\ s.in = "soul-forks")
      /\ Still(s, 0) /\ s.do = "event" => s.entry.type \notin OnceTypes
  BY DEF OnceTypes, Still, Mute, Once
<1>2. CASE StillPlan(r.plan, 0)
  BY <1>1, <1>2, StillTail
<1>3. ASSUME NEW agent, ForkKey(agent) \in r.ids, WritesFork(r.plan, agent)
      PROVE  /\ s.do = "edit" /\ s.in = "soul-forks" => s.drop = {}
             /\ s.do = "event" => s.entry.type \notin OnceTypes
  BY <1>1, <1>3, WriteForkTail
<1>4. ASSUME NEW agent, ForkKey(agent) \in r.ids, TellsFork(r.plan, agent), Unforked(agent)
      PROVE  \/ Still(s, 0)
             \/ s.do = "event" /\ TellsOf(s.entry, agent) /\ WritesFork(Tail(r.plan), agent)
                /\ Tail(r.plan) # <<>>
  BY <1>4, TellForkTail
<1>5. \A e, agent : TellsOf(e, agent) => e.type = "soul.fork.created"
  BY DEF TellsOf
<1> HIDE DEF s
<1>6. QED BY <1>1, <1>2, <1>3, <1>4, <1>5, Zenon DEF ForkPlan, s

LEMMA ForkedStays ==
  ASSUME ForkInv, OneOperator, NEW p \in Operators, Carries(p), NEW agent, Forked(agent)
  PROVE  Forked(agent)'
<1> DEFINE s == Head(proc[p].plan)
           table == rows["soul-forks"]
<1>1. /\ s.do = "edit" /\ s.in = "soul-forks" => s.drop = {}
      /\ s.do = "edit" /\ s.in = "soul-forks" => rows'["soul-forks"] = Edited(table, s)
      /\ ~(s.do = "edit" /\ s.in = "soul-forks") => rows'["soul-forks"] = table
      /\ cut' = cut
  BY ForkHead, CarriedRows DEF ForkInv, Carries
<1>2. /\ DOMAIN Edited(table, s) = DOMAIN s.put \cup (DOMAIN table \ s.drop)
  BY EditedTable
<1> HIDE DEF s, table
<1>3. CASE agent \in DOMAIN table
  BY <1>1, <1>2, <1>3 DEF Forked
<1>4. CASE ForkKey(agent) \in proc[p].ids /\ WritesFork(proc[p].plan, agent)
  <2>1. \/ s.do = "edit" /\ s.in = "soul-forks" /\ DOMAIN s.put = {agent}
        \/ WritesFork(Tail(proc[p].plan), agent) /\ Tail(proc[p].plan) # <<>>
    BY <1>4, WriteForkTail DEF s
  <2>2. CASE s.do = "edit" /\ s.in = "soul-forks" /\ DOMAIN s.put = {agent}
    BY <1>1, <1>2, <2>2 DEF Forked
  <2>3. CASE WritesFork(Tail(proc[p].plan), agent) /\ Tail(proc[p].plan) # <<>>
    BY <2>3, <1>4 DEF Carries, Forked
  <2>4. QED BY <2>1, <2>2, <2>3
<1>5. CASE ForkKey(agent) \in cut
  BY <1>1, <1>5 DEF Forked
<1>6. QED BY <1>3, <1>4, <1>5 DEF Forked, OneOperator, table

LEMMA ForkPlanLeft ==
  ASSUME ForkInv, NEW p \in Operators, Carries(p)
  PROVE  ForkPlan(proc[p])'
<1> DEFINE s == Head(proc[p].plan)
           left == Tail(proc[p].plan)
<1>1. /\ ForkPlan(proc[p]) /\ proc[p].plan # <<>> /\ proc'[p].plan = left /\ IsPlan(log)
      /\ left # <<>> => proc'[p].ids = proc[p].ids
      /\ log' = IF s.do = "event" THEN Append(log, s.entry) ELSE log
      /\ cut' = cut
  BY DEF ForkInv, SoleInv, Carries
<1>2. CASE StillPlan(proc[p].plan, 0)
  BY <1>1, <1>2, StillTail DEF ForkPlan
<1>3. ASSUME NEW agent, ForkKey(agent) \in proc[p].ids, WritesFork(proc[p].plan, agent)
      PROVE  ForkPlan(proc[p])'
  BY <1>3, WriteForkTail, <1>1, StillNone DEF ForkPlan
<1>4. ASSUME NEW agent, ForkKey(agent) \in proc[p].ids, TellsFork(proc[p].plan, agent), Unforked(agent)
      PROVE  ForkPlan(proc[p])'
  <2>1. /\ left # <<>>
        /\ WritesFork(left, agent) \/ (Still(s, 0) /\ TellsFork(left, agent))
    BY <1>4, TellForkTail
  <2>2. ASSUME Still(s, 0)
        PROVE  Unforked(agent)'
    <3> HIDE DEF s
    <3>1. s.do = "event" => s.entry.type # "soul.fork.created"
      BY <2>2, StillTells DEF OnceTypes
    <3>2. ASSUME s.do = "event"
          PROVE  /\ DOMAIN log' = DOMAIN log \cup {Len(log) + 1}
                 /\ log'[Len(log) + 1] = s.entry
                 /\ \A i \in DOMAIN log : log'[i] = log[i]
      BY <1>1, <3>2, AppendedLog
    <3>3. QED BY <1>1, <1>4, <3>1, <3>2 DEF Unforked, TellsOf
  <2>3. QED BY <1>1, <1>4, <2>1, <2>2 DEF ForkPlan
<1>5. QED BY <1>1, <1>2, <1>3, <1>4 DEF ForkPlan

LEMMA ForkStep ==
  ASSUME ForkInv, OneOperator, NEW p \in Operators, Carries(p), SoleInv'
  PROVE  ForkInv'
<1> DEFINE s == Head(proc[p].plan)
           n == Len(log) + 1
<1>1. /\ "soul-forks" \in DOMAIN rows' /\ cut' = cut /\ IsPlan(log)
      /\ log' = IF s.do = "event" THEN Append(log, s.entry) ELSE log
  BY CarriedRows DEF ForkInv, SoleInv, Carries
<1>2. \A q \in Operators : ForkPlan(proc[q])'
  BY ForkPlanLeft DEF OneOperator
<1>3. \A agent : Forked(agent) => Forked(agent)'
  BY ForkedStays
<1>4. CASE s.do # "event"
  BY <1>1, <1>4, <1>3, <1>2 DEF ForkInv, ForkLog, ForkedOnce, Again
<1>5. CASE s.do = "event"
  <2>1. /\ DOMAIN log' = DOMAIN log \cup {n} /\ log'[n] = s.entry
        /\ \A i \in DOMAIN log : log'[i] = log[i] /\ i < n /\ i \in Nat
    BY <1>1, <1>5, AppendedLog
  <2>2. s.entry.type # "wakeup.queued"
    BY <1>5, ForkHead DEF ForkInv, Carries
  <2>3. ASSUME s.entry.type = "soul.fork.created"
        PROVE  \E agent : TellsOf(s.entry, agent) /\ Unforked(agent) /\ Forked(agent)'
    <3>1. PICK agent : /\ TellsOf(s.entry, agent) /\ Unforked(agent)
                       /\ ForkKey(agent) \in proc[p].ids
                       /\ WritesFork(Tail(proc[p].plan), agent) /\ Tail(proc[p].plan) # <<>>
      BY <1>5, <2>3, ForkHead DEF ForkInv, Carries
    <3>2. proc'[p].plan = Tail(proc[p].plan) /\ proc'[p].ids = proc[p].ids
      BY <3>1 DEF Carries
    <3>3. Forked(agent)'
      BY <3>1, <3>2 DEF Forked
    <3>4. QED BY <3>1, <3>3
  <2> HIDE DEF s
  <2>5. ForkLog'
    BY <1>3, <2>1, <2>2, <2>3 DEF ForkInv, ForkLog
  <2>6. ForkedOnce'
    <3>1. ASSUME NEW i \in DOMAIN log', NEW j \in DOMAIN log', i < j,
                 log'[i].type = "soul.fork.created", log'[j].type = "soul.fork.created",
                 log'[i].ref = log'[j].ref
          PROVE  ForkKey(log'[i].ref[3]) \in cut'
      <4>1. CASE j \in DOMAIN log
        BY <2>1, <3>1, <4>1, <1>1 DEF ForkInv, ForkedOnce, Again
      <4>2. CASE j = n
        <5>1. i \in DOMAIN log /\ log'[i] = log[i] /\ log'[n] = s.entry
          BY <1>1, PlanLength, <2>1, <3>1, <4>2
        <5>2. PICK agent : TellsOf(s.entry, agent) /\ Unforked(agent)
          BY <2>3, <3>1, <4>2, <5>1
        <5>3. TellsOf(log[i], agent) /\ log[i].ref[3] = agent
          BY <3>1, <4>2, <5>1, <5>2 DEF TellsOf, ForkPath
        <5>4. QED BY <1>1, <5>1, <5>2, <5>3 DEF Unforked
      <4>3. QED BY <2>1, <4>1, <4>2
    <3>2. QED BY <3>1 DEF ForkedOnce, Again
  <2>7. QED BY <1>1, <1>2, <2>5, <2>6 DEF ForkInv
<1>6. QED BY <1>4, <1>5

LEMMA ForkWaits ==
  ASSUME ForkInv, Waits, SoleInv'
  PROVE  ForkInv'
<1>1. \A q \in Operators : proc'[q].plan = proc[q].plan /\ proc'[q].ids = proc[q].ids
  BY DEF Waits, Procs
<1>2. \A agent : Forked(agent) => Forked(agent)'
  BY <1>1 DEF Waits, Forked
<1>3. \A q \in Operators : ForkPlan(proc[q])'
  BY <1>1 DEF ForkInv, ForkPlan, Waits, Unforked
<1>4. QED BY <1>2, <1>3 DEF ForkInv, ForkLog, ForkedOnce, Again, Waits

LEMMA ForkDies ==
  ASSUME ForkInv, OneOperator, NEW p \in Operators, Dies(p), SoleInv'
  PROVE  ForkInv'
<1>1. /\ proc'[p].plan = <<>> /\ cut' = cut \cup proc[p].ids
      /\ UNCHANGED <<rows, log>>
  BY DEF Dies
<1>2. ASSUME NEW agent, Forked(agent)
      PROVE  Forked(agent)'
  BY <1>1, <1>2 DEF Forked, OneOperator
<1>3. \A q \in Operators : ForkPlan(proc[q])'
  BY <1>1, StillNone DEF ForkPlan, OneOperator
<1>4. QED BY <1>1, <1>2, <1>3 DEF ForkInv, ForkLog, ForkedOnce, Again

\* A command begins with a plan of its own, the operator having had none.
LEMMA ForkBegins ==
  ASSUME ForkInv, OneOperator, NEW p \in Operators, NEW plan, SoleBegins(p, plan), SoleInv',
         \/ StillPlan(plan, 0)
         \/ \E agent : /\ ForkKey(agent) \in Touched(plan)
                       /\ TellsFork(plan, agent)
                       /\ agent \notin DOMAIN rows["soul-forks"]
  PROVE  ForkInv'
<1>1. /\ proc[p].plan = <<>> /\ proc'[p].plan = plan /\ proc'[p].ids = Touched(plan)
      /\ UNCHANGED <<rows, log, cut>>
  BY DEF SoleBegins
<1>2. ASSUME NEW agent, Forked(agent)
      PROVE  ForkKey(agent) \in cut \/ agent \in DOMAIN rows["soul-forks"]
  BY <1>1, <1>2, NothingIsFork DEF Forked, OneOperator
<1>3. ASSUME NEW agent, agent \notin DOMAIN rows["soul-forks"]
      PROVE  Unforked(agent)
  <2>1. ASSUME NEW i \in DOMAIN log, TellsOf(log[i], agent)
        PROVE  ForkKey(agent) \in cut
    <3>1. PICK a : TellsOf(log[i], a) /\ Forked(a)
      BY <2>1 DEF ForkInv, ForkLog, TellsOf
    <3>2. a = agent
      BY <2>1, <3>1 DEF TellsOf, ForkPath
    <3>3. QED BY <1>2, <1>3, <3>1, <3>2
  <2>2. QED BY <2>1 DEF Unforked
<1>4. ForkPlan(proc[p])'
  BY <1>1, <1>3 DEF ForkPlan, Unforked
<1>5. \A agent : Forked(agent) => Forked(agent)'
  BY <1>1, <1>2 DEF Forked
<1>6. \A q \in Operators : ForkPlan(proc[q])'
  BY <1>4 DEF OneOperator
<1>7. QED BY <1>1, <1>5, <1>6 DEF ForkInv, ForkLog, ForkedOnce, Again

\* The commands of the family.
LEMMA SoulQuiet ==
  ASSUME NEW p, SoulStep(p)
  PROVE  \/ \E plan : StillPlan(plan, 0) /\ Begin(p, plan)
         \/ \E agent, plan : /\ ForkKey(agent) \in Touched(plan)
                             /\ TellsFork(plan, agent)
                             /\ agent \notin DOMAIN rows["soul-forks"]
                             /\ Begin(p, plan)
<1>1. /\ {"persona.anchor.proposed", "persona.anchor.accepted", "persona.anchor.rejected",
          "persona.reset.applied"} \cap OnceTypes = {}
      /\ {"persona-anchors", "persona-branches", "persona-states", "persona-resets",
          "inheritance-policies", "replay-records"}
           \cap {"soul-forks", "hibernations", "wakeups"} = {}
  BY DEF OnceTypes
<1>2. ASSUME NEW id, NEW s, ProposeAnchor(p, id, s)
      PROVE  \E plan : StillPlan(plan, 0) /\ Begin(p, plan)
  <2> DEFINE anchor == [status |-> "pending", sensitive |-> s, approved |-> FALSE]
             path == AnchorPath("propose", id)
             plan == <<Event("persona.anchor.proposed", path)>>
                     \o PrintJson(path, "persona-anchors", id, anchor)
  <2>1. Begin(p, plan)
    BY <1>2 DEF ProposeAnchor
  <2> HIDE DEF anchor, path
  <2>2. StillPlan(plan, 0)
    BY <1>1, StillEvent, StillOne, StillPrint, StillJoined
  <2>3. QED BY <2>1, <2>2
<1>3. ASSUME NEW id, NEW s, AcceptAnchor(p, id, s)
      PROVE  \E plan : StillPlan(plan, 0) /\ Begin(p, plan)
  <2>1. \A accepted, branch : StillPlan(AcceptPlan(id, accepted, branch), 0)
    BY <1>1, StillEvent, StillEdit, StillTwo, StillPrint, StillJoined DEF AcceptPlan
  <2>2. \E accepted, branch : Begin(p, AcceptPlan(id, accepted, branch))
    BY <1>3, Zenon DEF AcceptAnchor
  <2>3. QED BY <2>1, <2>2
<1>4. ASSUME NEW id, RejectAnchor(p, id)
      PROVE  \E plan : StillPlan(plan, 0) /\ Begin(p, plan)
  <2> DEFINE path == AnchorPath("reject", id)
             row == [PersonaTable[id] EXCEPT !.status = "rejected"]
             plan == <<Event("persona.anchor.rejected", path)>>
                     \o PrintJson(path, "persona-anchors", id, row)
  <2>1. Begin(p, plan)
    BY <1>4 DEF RejectAnchor
  <2> HIDE DEF row, path
  <2>2. StillPlan(plan, 0)
    BY <1>1, StillEvent, StillOne, StillPrint, StillJoined
  <2>3. QED BY <2>1, <2>2
<1>5. ASSUME ListAnchors(p)
      PROVE  \E plan : StillPlan(plan, 0) /\ Begin(p, plan)
  <2> DEFINE plan == <<Artifact(AnchorPath("list", "list"), PersonaTable),
                       UpsertAll("persona-anchors", PersonaTable)>>
  <2>1. Begin(p, plan)
    BY <1>5 DEF ListAnchors
  <2>2. StillPlan(plan, 0)
    BY <1>1, StillFile, StillEdit, StillTwo
  <2>3. QED BY <2>1, <2>2
<1>6. ASSUME ResetPersona(p)
      PROVE  \E plan : StillPlan(plan, 0) /\ Begin(p, plan)
  <2> DEFINE path == <<"persona", "reset", NewId("reset")>>
             plan(active, reset) == <<Event("persona.reset.applied", path),
                       Upsert("persona-states", "local", [anchors |-> active])>>
                     \o PrintJson(path, "persona-resets", NewId("reset"), reset)
  <2>1. \E active, reset : Begin(p, plan(active, reset))
    BY <1>6, Zenon DEF ResetPersona
  <2> HIDE DEF path
  <2>2. \A active, reset : StillPlan(plan(active, reset), 0)
    BY <1>1, StillEvent, StillEdit, StillTwo, StillPrint, StillJoined
  <2> HIDE DEF plan
  <2>3. QED BY <2>1, <2>2
<1>7. ASSUME NEW agent, NEW yes, ForkSoul(p, agent, yes)
      PROVE  \/ \E plan : StillPlan(plan, 0) /\ Begin(p, plan)
             \/ \E plan : /\ ForkKey(agent) \in Touched(plan)
                          /\ TellsFork(plan, agent)
                          /\ agent \notin DOMAIN rows["soul-forks"]
                          /\ Begin(p, plan)
  <2> DEFINE path == ForkPath(agent)
             record == [status |-> "passed"]
             first == <<Artifact(<<"replay", "run", "checkpoint">>, record),
                        Upsert("replay-records", "checkpoint", record),
                        Upsert("inheritance-policies", "default", [default |-> "private"])>>
             tells == RunEvent(NewRun, "soul.fork.created", path)
             file == Artifact(path, Fork(agent))
             edit == Upsert("soul-forks", agent, Fork(agent))
             printed == PrintJson(path, "soul-forks", agent, Fork(agent))
  <2>1. /\ agent \notin DOMAIN rows["soul-forks"]
        /\ Begin(p, first \o IF world.sensitive /\ ~yes THEN <<>> ELSE <<tells>> \o printed)
    BY <1>7 DEF ForkSoul, MayFork, ForkPath
  <2>2. StillPlan(first, 0) /\ Still(file, 0)
    BY <1>1, StillFile, StillEdit, StillThree
  <2>3. printed = <<file, edit>> /\ <<file, edit>> = <<file>> \o (<<edit>> \o <<>>)
    BY DEF PrintJson
  <2> HIDE DEF first, tells, file, printed
  <2>4. WritesFork(printed, agent) /\ IsPlan(printed)
    <3>1. Ahead(<<edit>> \o <<>>, 0, edit, <<>>)
      BY None, AheadBegins
    <3>2. Ahead(printed, 0, edit, <<>>)
      BY <2>2, <2>3, <3>1, StillOne, AheadJoined
    <3>3. QED BY <3>2, AheadIsPlan DEF WritesFork
  <2>5. TellsFork(first \o (<<tells>> \o printed), agent)
    BY <2>4, AheadBegins, <2>2, AheadJoined DEF TellsFork, tells
  <2>6. ForkKey(agent) \in Touched(first \o (<<tells>> \o printed))
    <3>1. edit \in Range(printed)
      BY <2>3, Two
    <3>2. edit \in Range(first \o (<<tells>> \o printed))
      BY <2>2, <2>4, <3>1, One, Joined, StepFirst DEF StillPlan
    <3>3. PICK i \in DOMAIN (first \o (<<tells>> \o printed)) :
            (first \o (<<tells>> \o printed))[i] = edit
      BY <3>2 DEF Range
    <3>4. edit.do = "edit" /\ edit.in = "soul-forks" /\ agent \in DOMAIN edit.put
      BY ForkSteps
    <3> HIDE DEF edit
    <3>5. QED BY <3>3, <3>4 DEF Touched, ForkKey
  <2>7. first \o <<>> = first
    BY <2>2, ConcatEmptySeq DEF StillPlan, IsPlan
  <2>8. QED BY <2>1, <2>2, <2>5, <2>6, <2>7
<1>8. QED BY <1>2, <1>3, <1>4, <1>5, <1>6, <1>7, Zenon DEF SoulStep

LEMMA StepSoulInv == OneOperator /\ SoulInv /\ [Next]_govVars => SoulInv'
<1> SUFFICES ASSUME OneOperator, SoulInv, [Next]_govVars, family' = "soul" PROVE ForkInv'
  BY DEF SoulInv
<1>1. family = "soul" /\ ForkInv /\ SoleInv /\ Shaped'
  BY NextMoves DEF Moves, SoulInv, ForkInv, SoleInv
<1>2. ASSUME NEW p \in Procs, SoulStep(p)
      PROVE  ForkInv'
  <2>1. PICK plan :
          /\ Begin(p, plan)
          /\ \/ StillPlan(plan, 0)
             \/ \E agent : /\ ForkKey(agent) \in Touched(plan)
                           /\ TellsFork(plan, agent)
                           /\ agent \notin DOMAIN rows["soul-forks"]
    BY <1>2, SoulQuiet
  <2>2. IsPlan(plan)
    BY <2>1, AheadIsPlan DEF StillPlan, TellsFork
  <2>3. QED BY <1>1, <2>1, <2>2, SoleBegin, ForkBegins
<1>3. ASSUME NEW p \in Procs, Write(p)
      PROVE  ForkInv'
  BY <1>1, <1>3, SoleWrites, ForkStep, ForkWaits
<1>4. ASSUME NEW p \in Procs, Kill(p)
      PROVE  ForkInv'
  BY <1>1, <1>4, SoleKill, ForkDies
<1>5. ASSUME UNCHANGED govVars
      PROVE  ForkInv'
  BY <1>1, <1>5, SoleWait, ForkWaits DEF govVars, files
<1>6. QED BY <1>1, <1>2, <1>3, <1>4, <1>5 DEF Next, FamilyStep

LEMMA InitSoulInv == Init => SoulInv
<1> SUFFICES ASSUME Init, family = "soul" PROVE ForkInv
  BY DEF SoulInv
<1>1. PICK s \in SoulStarts : rows = s.rows /\ log = s.log
  BY DEF Init, Starts
<1> DEFINE e == [type |-> "run.started", ref |-> <<>>, run |-> Earlier("run")]
<1>2. log = <<e>> /\ "soul-forks" \in DOMAIN rows
  BY <1>1 DEF SoulStarts, SoulRegistries
<1>3. e.type = "run.started"
  OBVIOUS
<1> HIDE DEF e
<1>4. IsPlan(log) /\ \A i \in DOMAIN log : log[i].type = "run.started"
  BY <1>2, <1>3, One
<1>5. ForkLog /\ ForkedOnce
  BY <1>4 DEF ForkLog, ForkedOnce, Again
<1>6. \A q \in Operators : ForkPlan(proc[q])
  BY StillNone DEF Init, IdleProc, Procs, ForkPlan
<1>7. QED BY <1>2, <1>4, <1>5, <1>6, SoleInit DEF ForkInv

-----------------------------------------------------------------------------
(* What must happen once: wakeups *)

IsQueued(e) == e.type = "wakeup.queued"
RunKey(run) == <<"run", run>>

\* A sleep, by the number of its triggers, after the command k, and before n.
SleptAfter(k) == \E id \in DOMAIN Triggers : k < id[2]
SleptBetween(k, n) == \E id \in DOMAIN Triggers : k < id[2] /\ id[2] < n

HasStatus(row) == "status" \in DOMAIN row
Asleep ==
    /\ Hib \in DOMAIN rows["hibernations"]
    /\ rows["hibernations"][Hib].status = "sleeping"

\* A plan that has still to write the record of the run, as one that wakes or as
\* one that may sleep.
WritesRecord(plan, n, row) ==
    /\ HasStatus(row)
    /\ \E rest : StillPlan(rest, n) /\ Ahead(plan, n, Upsert("hibernations", Hib, row), rest)
Wakes(plan, n) == \E row : row.status # "sleeping" /\ WritesRecord(plan, n, row)
FallsAsleep(plan, n) == \E row : WritesRecord(plan, n, row)

\* It tells of the wakeup first, or schedules a trigger of the sleep m first.
Queues(plan, n, run) ==
    \E path, rest : Ahead(plan, n, RunEvent(run, "wakeup.queued", path), rest) /\ Wakes(rest, n)
Schedules(plan, n, m) ==
    \E id, trigger, rest :
      /\ id[2] = m
      /\ Numbered(id, trigger, n)
      /\ Ahead(plan, n, Upsert("wakeups", id, trigger), rest)
      /\ FallsAsleep(rest, n)

\* A command that queues comes after a sleep that came after the wakeups there are,
\* and a command that sleeps after all of them.
MayQueue(n) ==
    \A i \in DOMAIN log : IsQueued(log[i]) =>
      RunKey(log[i].run) \in cut \/ SleptBetween(NumberOf(log[i].run), n)
MaySleep(m) == \A i \in DOMAIN log : IsQueued(log[i]) => NumberOf(log[i].run) < m

WakePlan(r) ==
    \/ StillPlan(r.plan, begun)
    \/ Wakes(r.plan, begun)
    \/ \E run :
         /\ RunKey(run) \in r.ids
         /\ NumberOf(run) \in 0..begun
         /\ Queues(r.plan, begun, run)
         /\ MayQueue(NumberOf(run))
    \/ \E m :
         /\ MaySleep(m)
         /\ \/ Schedules(r.plan, begun, m)
            \/ FallsAsleep(r.plan, begun) /\ \E id \in DOMAIN Triggers : id[2] = m

\* After a wakeup the run does not sleep, or was put to sleep again, or its record is
\* still to be written, or that was cut short.
Awoken(run) ==
    \/ RunKey(run) \in cut
    \/ ~Asleep
    \/ SleptAfter(NumberOf(run))
    \/ \E q \in Operators : RunKey(run) \in proc[q].ids /\ Wakes(proc[q].plan, begun)

WakeLog ==
    \A i \in DOMAIN log :
      /\ log[i].type # "soul.fork.created"
      /\ IsQueued(log[i]) => NumberOf(log[i].run) \in 0..begun /\ Awoken(log[i].run)

WokenOnce ==
    \A i, j \in DOMAIN log :
      Again("wakeup.queued", i, j) /\ RunKey(log[i].run) \notin cut =>
        SleptBetween(NumberOf(log[i].run), NumberOf(log[j].run))

SleepRows ==
    /\ {"hibernations", "wakeups"} \subseteq DOMAIN rows
    /\ \A id \in DOMAIN Triggers : Numbered(id, Triggers[id], begun)
    /\ Hib \in DOMAIN rows["hibernations"] => HasStatus(rows["hibernations"][Hib])

WakeInv ==
    /\ SoleInv
    /\ SleepRows
    /\ \A q \in Operators : WakePlan(proc[q])
    /\ WakeLog
    /\ WokenOnce

HibInv == family = "hibernation" => WakeInv

\* What is ahead of a plan: its step that counts, and what is there before and after.
LEMMA AheadAt ==
  ASSUME NEW plan, NEW n, NEW s, NEW rest, Ahead(plan, n, s, rest)
  PROVE  \E k \in 1..Len(plan) :
           /\ plan[k] = s
           /\ \A i \in 1..Len(plan) : /\ i < k => Still(plan[i], n)
                                      /\ k < i => plan[i] \in Range(rest)
<1>1. PICK before : StillPlan(before, n) /\ plan = before \o (<<s>> \o rest)
  BY DEF Ahead
<1> DEFINE k == Len(before) + 1
<1>2. /\ IsPlan(rest) /\ IsPlan(<<s>> \o rest) /\ IsPlan(before) /\ IsPlan(<<s>>)
      /\ Len(before) \in Nat /\ Len(rest) \in Nat /\ Len(<<s>>) = 1 /\ <<s>>[1] = s
  BY <1>1, One, StepFirst, PlanLength DEF Ahead, StillPlan
<1>3. /\ Len(<<s>> \o rest) = 1 + Len(rest)
      /\ (<<s>> \o rest)[1] = s
      /\ \A i \in 1..Len(rest) : (<<s>> \o rest)[1 + i] = rest[i]
  BY <1>2, JoinedAt
<1>4. /\ Len(plan) = Len(before) + (1 + Len(rest))
      /\ \A i \in 1..Len(before) : plan[i] = before[i]
      /\ \A i \in 1..(1 + Len(rest)) : plan[Len(before) + i] = (<<s>> \o rest)[i]
  BY <1>1, <1>2, <1>3, JoinedAt
<1>5. k \in 1..Len(plan) /\ plan[k] = s
  BY <1>2, <1>3, <1>4
<1>6. ASSUME NEW i \in 1..Len(plan), i < k
      PROVE  Still(plan[i], n)
  BY <1>2, <1>4, <1>6, <1>1, PlanLength DEF StillPlan
<1>7. ASSUME NEW i \in 1..Len(plan), k < i
      PROVE  plan[i] \in Range(rest)
  <2> DEFINE j == i - k
  <2>1. j \in 1..Len(rest) /\ 1 + j \in 1..(1 + Len(rest)) /\ Len(before) + (1 + j) = i
    BY <1>2, <1>4, <1>7
  <2>2. plan[i] = rest[j]
    BY <1>3, <1>4, <2>1
  <2>3. QED BY <1>2, <2>1, <2>2, PlanLength
<1> HIDE DEF k
<1>8. QED BY <1>5, <1>6, <1>7

LEMMA RecordStep ==
  ASSUME NEW row, NEW n
  PROVE  LET edit == Upsert("hibernations", Hib, row)
         IN /\ edit.do = "edit" /\ edit.in = "hibernations" /\ edit.drop = {}
            /\ DOMAIN edit.put = {Hib} /\ edit.put[Hib] = row
            /\ ~Still(edit, n)
BY DEF Upsert, UpsertAll, Single, Still, Mute

LEMMA NothingWakes ==
  ASSUME NEW n, NEW run, NEW m
  PROVE  ~FallsAsleep(<<>>, n) /\ ~Wakes(<<>>, n) /\ ~Queues(<<>>, n, run) /\ ~Schedules(<<>>, n, m)
BY AheadIsPlan DEF FallsAsleep, Wakes, Queues, Schedules, WritesRecord

\* One step on in a plan that writes the record.
WritesTo(s, row) ==
    /\ s.do = "edit" /\ s.in = "hibernations" /\ s.drop = {}
    /\ DOMAIN s.put = {Hib} /\ s.put[Hib] = row

LEMMA RecordTail ==
  ASSUME NEW plan, NEW n, NEW row, WritesRecord(plan, n, row)
  PROVE  \/ WritesTo(Head(plan), row) /\ StillPlan(Tail(plan), n)
         \/ Still(Head(plan), n) /\ WritesRecord(Tail(plan), n, row) /\ Tail(plan) # <<>>
<1>1. PICK rest : StillPlan(rest, n) /\ Ahead(plan, n, Upsert("hibernations", Hib, row), rest)
  BY DEF WritesRecord
<1> DEFINE edit == Upsert("hibernations", Hib, row)
<1>2. WritesTo(edit, row)
  BY RecordStep DEF WritesTo
<1> HIDE DEF edit
<1>3. \/ Head(plan) = edit /\ Tail(plan) = rest
      \/ Still(Head(plan), n) /\ Ahead(Tail(plan), n, edit, rest)
  BY <1>1, AheadTail DEF edit
<1>4. Ahead(Tail(plan), n, edit, rest) => WritesRecord(Tail(plan), n, row) /\ Tail(plan) # <<>>
  BY <1>1, AheadIsPlan DEF WritesRecord, edit
<1>5. QED BY <1>1, <1>2, <1>3, <1>4

LEMMA WakeTail ==
  ASSUME NEW plan, NEW n, Wakes(plan, n)
  PROVE  \/ /\ \E row : WritesTo(Head(plan), row) /\ HasStatus(row) /\ row.status # "sleeping"
            /\ StillPlan(Tail(plan), n)
         \/ Still(Head(plan), n) /\ Wakes(Tail(plan), n) /\ Tail(plan) # <<>>
<1>1. PICK row : row.status # "sleeping" /\ WritesRecord(plan, n, row)
  BY DEF Wakes
<1>2. HasStatus(row)
  BY <1>1 DEF WritesRecord
<1>3. QED BY <1>1, <1>2, RecordTail DEF Wakes

LEMMA SleepTail ==
  ASSUME NEW plan, NEW n, FallsAsleep(plan, n)
  PROVE  \/ /\ \E row : WritesTo(Head(plan), row) /\ HasStatus(row)
            /\ StillPlan(Tail(plan), n)
         \/ Still(Head(plan), n) /\ FallsAsleep(Tail(plan), n)
<1>1. PICK row : WritesRecord(plan, n, row)
  BY DEF FallsAsleep
<1>2. HasStatus(row)
  BY <1>1 DEF WritesRecord
<1>3. QED BY <1>1, <1>2, RecordTail DEF FallsAsleep

LEMMA QueueTail ==
  ASSUME NEW plan, NEW n, NEW run, Queues(plan, n, run)
  PROVE  /\ Tail(plan) # <<>>
         /\ \/ /\ Head(plan).do = "event" /\ IsQueued(Head(plan).entry) /\ Head(plan).entry.run = run
               /\ Wakes(Tail(plan), n)
            \/ Still(Head(plan), n) /\ Queues(Tail(plan), n, run)
<1>1. PICK path, rest :
        Ahead(plan, n, RunEvent(run, "wakeup.queued", path), rest) /\ Wakes(rest, n)
  BY DEF Queues
<1> DEFINE tells == RunEvent(run, "wakeup.queued", path)
<1>2. tells.do = "event" /\ IsQueued(tells.entry) /\ tells.entry.run = run
  BY DEF RunEvent, IsQueued
<1> HIDE DEF tells
<1>3. \/ Head(plan) = tells /\ Tail(plan) = rest
      \/ Still(Head(plan), n) /\ Ahead(Tail(plan), n, tells, rest)
  BY <1>1, AheadTail DEF tells
<1>4. rest # <<>>
  BY <1>1, NothingWakes
<1>5. Ahead(Tail(plan), n, tells, rest) => Queues(Tail(plan), n, run) /\ Tail(plan) # <<>>
  BY <1>1, AheadIsPlan DEF Queues, tells
<1>6. QED BY <1>1, <1>2, <1>3, <1>4, <1>5

LEMMA ScheduleTail ==
  ASSUME NEW plan, NEW n, NEW m, Schedules(plan, n, m)
  PROVE  /\ Still(Head(plan), n)
         /\ \/ /\ Head(plan).do = "edit" /\ Head(plan).in = "wakeups"
               /\ \E id \in DOMAIN Head(plan).put : id[2] = m
               /\ FallsAsleep(Tail(plan), n)
            \/ Schedules(Tail(plan), n, m)
<1>1. PICK id, trigger, rest :
        /\ id[2] = m
        /\ Numbered(id, trigger, n)
        /\ Ahead(plan, n, Upsert("wakeups", id, trigger), rest)
        /\ FallsAsleep(rest, n)
  BY DEF Schedules
<1> DEFINE edit == Upsert("wakeups", id, trigger)
<1>2. Still(edit, n) /\ edit.do = "edit" /\ edit.in = "wakeups" /\ id \in DOMAIN edit.put
  BY <1>1, StillTrigger DEF Upsert, UpsertAll, Single
<1> HIDE DEF edit
<1>3. \/ Head(plan) = edit /\ Tail(plan) = rest
      \/ Still(Head(plan), n) /\ Ahead(Tail(plan), n, edit, rest)
  BY <1>1, AheadTail DEF edit
<1>4. Ahead(Tail(plan), n, edit, rest) => Schedules(Tail(plan), n, m)
  BY <1>1, Zenon DEF Schedules, edit
<1>5. QED BY <1>1, <1>2, <1>3, <1>4

\* What the first step of a plan can be.
RecordsSoundly(s) ==
    \E row : /\ WritesTo(s, row) /\ HasStatus(row)
             /\ row.status = "sleeping" => \E id \in DOMAIN Triggers : MaySleep(id[2])
QueuesSoundly(r) ==
    LET s == Head(r.plan)
    IN /\ s.do = "event" /\ IsQueued(s.entry)
       /\ NumberOf(s.entry.run) \in 0..begun
       /\ MayQueue(NumberOf(s.entry.run))
       /\ RunKey(s.entry.run) \in r.ids
       /\ Wakes(Tail(r.plan), begun) /\ Tail(r.plan) # <<>>

LEMMA WakeHead ==
  ASSUME NEW r, WakePlan(r), r.plan # <<>>
  PROVE  Still(Head(r.plan), begun) \/ RecordsSoundly(Head(r.plan)) \/ QueuesSoundly(r)
<1>1. CASE StillPlan(r.plan, begun)
  BY <1>1, StillTail
<1>2. CASE Wakes(r.plan, begun)
  BY <1>2, WakeTail DEF RecordsSoundly
<1>3. ASSUME NEW run, RunKey(run) \in r.ids, NumberOf(run) \in 0..begun,
             Queues(r.plan, begun, run), MayQueue(NumberOf(run))
      PROVE  Still(Head(r.plan), begun) \/ QueuesSoundly(r)
  BY <1>3, QueueTail DEF QueuesSoundly
<1>4. ASSUME NEW m, Schedules(r.plan, begun, m)
      PROVE  Still(Head(r.plan), begun)
  BY <1>4, ScheduleTail
<1>5. ASSUME NEW m, MaySleep(m), FallsAsleep(r.plan, begun), \E id \in DOMAIN Triggers : id[2] = m
      PROVE  Still(Head(r.plan), begun) \/ RecordsSoundly(Head(r.plan))
  BY <1>5, SleepTail DEF RecordsSoundly
<1>6. QED BY <1>1, <1>2, <1>3, <1>4, <1>5, Zenon DEF WakePlan

\* What a step of the operator's plan changes in the tables.
LEMMA WakeRows ==
  ASSUME WakeInv, NEW p \in Operators, Carries(p)
  PROVE  /\ SleepRows'
         /\ DOMAIN Triggers \subseteq DOMAIN Triggers'
         /\ Head(proc[p].plan).do = "edit" /\ Head(proc[p].plan).in = "wakeups" =>
              DOMAIN Head(proc[p].plan).put \subseteq DOMAIN Triggers'
         /\ ~RecordsSoundly(Head(proc[p].plan)) =>
              rows'["hibernations"] = rows["hibernations"]
         /\ \A row : WritesTo(Head(proc[p].plan), row) =>
              Hib \in DOMAIN rows'["hibernations"] /\ rows'["hibernations"][Hib] = row
<1> DEFINE s == Head(proc[p].plan)
           table == rows["hibernations"]
<1>1. /\ "hibernations" \in DOMAIN rows /\ "wakeups" \in DOMAIN rows /\ begun' = begun
      /\ WakePlan(proc[p]) /\ proc[p].plan # <<>>
  BY DEF WakeInv, SleepRows, Carries
<1>2. /\ DOMAIN rows' = DOMAIN rows
      /\ s.do = "edit" /\ s.in = "wakeups" => rows'["wakeups"] = Edited(Triggers, s)
      /\ ~(s.do = "edit" /\ s.in = "wakeups") => rows'["wakeups"] = Triggers
      /\ s.do = "edit" /\ s.in = "hibernations" => rows'["hibernations"] = Edited(table, s)
      /\ ~(s.do = "edit" /\ s.in = "hibernations") => rows'["hibernations"] = table
  BY <1>1, CarriedRows DEF Triggers
<1>3. Still(s, begun) \/ RecordsSoundly(s) \/ QueuesSoundly(proc[p])
  BY <1>1, WakeHead
<1>4. /\ RecordsSoundly(s) => s.do = "edit" /\ s.in = "hibernations"
      /\ QueuesSoundly(proc[p]) => s.do = "event"
      /\ Still(s, begun) => ~(s.do = "edit" /\ s.in = "hibernations")
      /\ Still(s, begun) /\ s.do = "edit" /\ s.in = "wakeups" =>
           s.drop = {} /\ \A id \in DOMAIN s.put : Numbered(id, s.put[id], begun)
  BY DEF RecordsSoundly, QueuesSoundly, Still, WritesTo
<1>5. /\ \A id \in DOMAIN Triggers' : Numbered(id, Triggers'[id], begun)
      /\ DOMAIN Triggers \subseteq DOMAIN Triggers'
      /\ s.do = "edit" /\ s.in = "wakeups" => DOMAIN s.put \subseteq DOMAIN Triggers'
  <2> HIDE DEF s
  <2>1. CASE s.do = "edit" /\ s.in = "wakeups"
    <3>1. /\ DOMAIN Edited(Triggers, s) = DOMAIN s.put \cup DOMAIN Triggers
          /\ \A id \in DOMAIN s.put : Edited(Triggers, s)[id] = s.put[id]
          /\ \A id \in DOMAIN Triggers \ DOMAIN s.put : Edited(Triggers, s)[id] = Triggers[id]
          /\ \A id \in DOMAIN s.put : Numbered(id, s.put[id], begun)
      <4>1. /\ DOMAIN Edited(Triggers, s) = DOMAIN s.put \cup (DOMAIN Triggers \ s.drop)
            /\ \A id \in DOMAIN s.put : Edited(Triggers, s)[id] = s.put[id]
            /\ \A id \in DOMAIN Triggers \ (s.drop \cup DOMAIN s.put) :
                 Edited(Triggers, s)[id] = Triggers[id]
        BY EditedTable
      <4>2. s.drop = {} /\ \A id \in DOMAIN s.put : Numbered(id, s.put[id], begun)
        BY <1>3, <1>4, <2>1
      <4>3. QED BY <4>1, <4>2
    <3>2. Triggers' = Edited(Triggers, s)
      BY <1>2, <2>1 DEF Triggers
    <3>3. QED BY <3>1, <3>2 DEF WakeInv, SleepRows
  <2>2. CASE ~(s.do = "edit" /\ s.in = "wakeups")
    BY <1>2, <2>2 DEF Triggers, WakeInv, SleepRows
  <2>3. QED BY <2>1, <2>2
<1>6. ASSUME NEW row, WritesTo(s, row)
      PROVE  Hib \in DOMAIN rows'["hibernations"] /\ rows'["hibernations"][Hib] = row
  <2>1. /\ s.do = "edit" /\ s.in = "hibernations" /\ DOMAIN s.put = {Hib} /\ s.put[Hib] = row
    BY <1>6 DEF WritesTo
  <2>2. /\ DOMAIN Edited(table, s) = DOMAIN s.put \cup (DOMAIN table \ s.drop)
        /\ \A id \in DOMAIN s.put : Edited(table, s)[id] = s.put[id]
        /\ \A id \in DOMAIN table \ (s.drop \cup DOMAIN s.put) : Edited(table, s)[id] = table[id]
    BY EditedTable
  <2> HIDE DEF s
  <2>3. QED BY <1>2, <2>1, <2>2
<1>7. ~RecordsSoundly(s) => rows'["hibernations"] = table
  BY <1>2, <1>3, <1>4
<1>8. Hib \in DOMAIN rows'["hibernations"] => HasStatus(rows'["hibernations"][Hib])
  <2>1. CASE RecordsSoundly(s)
    <3>1. PICK row : WritesTo(s, row) /\ HasStatus(row)
      BY <2>1 DEF RecordsSoundly
    <3>2. QED BY <1>6, <3>1
  <2>2. CASE ~RecordsSoundly(s)
    BY <1>7, <2>2 DEF WakeInv, SleepRows
  <2>3. QED BY <2>1, <2>2
<1>9. SleepRows'
  BY <1>1, <1>2, <1>5, <1>8 DEF SleepRows
<1>10. QED BY <1>5, <1>6, <1>7, <1>9

LEMMA SleptStays ==
  ASSUME DOMAIN Triggers \subseteq DOMAIN Triggers'
  PROVE  \A k : /\ SleptAfter(k) => SleptAfter(k)'
                /\ \A n : SleptBetween(k, n) => SleptBetween(k, n)'
BY DEF SleptAfter, SleptBetween

LEMMA AwokenStays ==
  ASSUME WakeInv, OneOperator, NEW p \in Operators, Carries(p),
         NEW run, Awoken(run), \E i \in DOMAIN log : IsQueued(log[i]) /\ log[i].run = run
  PROVE  Awoken(run)'
<1> DEFINE s == Head(proc[p].plan)
           j == NumberOf(run)
<1>1. /\ WakePlan(proc[p]) /\ proc[p].plan # <<>> /\ cut' = cut /\ begun' = begun
      /\ proc'[p].plan = Tail(proc[p].plan)
      /\ Tail(proc[p].plan) # <<>> => proc'[p].ids = proc[p].ids
  BY DEF WakeInv, Carries
<1>2. SleptAfter(j) => SleptAfter(j)'
  BY WakeRows, SleptStays
<1>3. ASSUME NEW row, WritesTo(s, row), row.status # "sleeping"
      PROVE  Asleep' = FALSE
  BY <1>3, WakeRows DEF Asleep
<1>4. CASE RunKey(run) \in cut
  BY <1>1, <1>4 DEF Awoken
<1>5. CASE SleptAfter(j)
  BY <1>2, <1>5 DEF Awoken
<1>6. CASE ~Asleep
  <2>1. CASE RecordsSoundly(s)
    <3>1. PICK row : WritesTo(s, row) /\
                     (row.status = "sleeping" => \E id \in DOMAIN Triggers : MaySleep(id[2]))
      BY <2>1 DEF RecordsSoundly
    <3>2. CASE row.status = "sleeping"
      <4>1. SleptAfter(j)
        BY <3>1, <3>2 DEF MaySleep, SleptAfter
      <4>2. QED BY <1>2, <4>1 DEF Awoken
    <3>3. QED BY <1>3, <3>1, <3>2 DEF Awoken
  <2>2. CASE ~RecordsSoundly(s)
    BY <2>2, WakeRows, <1>6 DEF Asleep, Awoken
  <2>3. QED BY <2>1, <2>2
<1>7. CASE RunKey(run) \in proc[p].ids /\ Wakes(proc[p].plan, begun)
  BY <1>7, WakeTail, <1>1, <1>3 DEF Awoken
<1>8. QED BY <1>4, <1>5, <1>6, <1>7 DEF Awoken, OneOperator

\* What a step leaves of what a plan rests on.
LEMMA MayStays ==
  ASSUME WakeInv, NEW p \in Operators, Carries(p),
         ~(Head(proc[p].plan).do = "event" /\ IsQueued(Head(proc[p].plan).entry))
  PROVE  \A n : /\ MayQueue(n) => MayQueue(n)'
                /\ MaySleep(n) => MaySleep(n)'
<1> DEFINE s == Head(proc[p].plan)
<1>1. /\ IsPlan(log) /\ cut' = cut
      /\ log' = IF s.do = "event" THEN Append(log, s.entry) ELSE log
  BY DEF WakeInv, SoleInv, Carries
<1>2. \A k : \A n : SleptBetween(k, n) => SleptBetween(k, n)'
  BY WakeRows, SleptStays
<1>3. ASSUME NEW i \in DOMAIN log', IsQueued(log'[i])
      PROVE  i \in DOMAIN log /\ log'[i] = log[i]
  <2> HIDE DEF s
  <2>1. CASE s.do = "event"
    BY <1>1, <2>1, AppendedLog, <1>3 DEF s
  <2>2. QED BY <1>1, <1>3, <2>1
<1>4. QED BY <1>1, <1>2, <1>3 DEF MayQueue, MaySleep

LEMMA WakePlanLeft ==
  ASSUME WakeInv, NEW p \in Operators, Carries(p)
  PROVE  WakePlan(proc[p])'
<1> DEFINE s == Head(proc[p].plan)
           left == Tail(proc[p].plan)
<1>1. /\ WakePlan(proc[p]) /\ proc[p].plan # <<>> /\ proc'[p].plan = left /\ begun' = begun
      /\ left # <<>> => proc'[p].ids = proc[p].ids
  BY DEF WakeInv, Carries
<1>2. Still(s, begun) \/ s.do = "edit" => ~(s.do = "event" /\ IsQueued(s.entry))
  BY StillTells DEF OnceTypes, IsQueued
<1>3. /\ DOMAIN Triggers \subseteq DOMAIN Triggers'
      /\ s.do = "edit" /\ s.in = "wakeups" => DOMAIN s.put \subseteq DOMAIN Triggers'
  BY WakeRows
<1>4. Still(s, begun) \/ s.do = "edit" =>
        \A n : (MayQueue(n) => MayQueue(n)') /\ (MaySleep(n) => MaySleep(n)')
  BY <1>2, MayStays
<1>5. CASE StillPlan(proc[p].plan, begun)
  <2>1. StillPlan(left, begun)
    BY <1>1, <1>5, StillTail
  <2>2. QED BY <1>1, <2>1 DEF WakePlan
<1>6. CASE Wakes(proc[p].plan, begun)
  BY <1>6, WakeTail, <1>1 DEF WakePlan
<1>7. ASSUME NEW run, RunKey(run) \in proc[p].ids, NumberOf(run) \in 0..begun,
             Queues(proc[p].plan, begun, run), MayQueue(NumberOf(run))
      PROVE  WakePlan(proc[p])'
  <2>1. /\ left # <<>>
        /\ Wakes(left, begun) \/ (Still(s, begun) /\ Queues(left, begun, run))
    BY <1>7, QueueTail
  <2>2. CASE Wakes(left, begun)
    BY <1>1, <2>2 DEF WakePlan
  <2>3. CASE Still(s, begun) /\ Queues(left, begun, run)
    BY <1>4, <1>7, <2>3, <1>1, <2>1 DEF WakePlan
  <2>4. QED BY <2>1, <2>2, <2>3
<1>8. ASSUME NEW m, MaySleep(m), Schedules(proc[p].plan, begun, m)
      PROVE  WakePlan(proc[p])'
  BY <1>8, ScheduleTail, <1>4, <1>3, <1>1 DEF WakePlan
<1>9. ASSUME NEW m, MaySleep(m), FallsAsleep(proc[p].plan, begun),
             \E id \in DOMAIN Triggers : id[2] = m
      PROVE  WakePlan(proc[p])'
  <2>1. \/ StillPlan(left, begun)
        \/ Still(s, begun) /\ FallsAsleep(left, begun)
    BY <1>9, SleepTail
  <2>2. CASE Still(s, begun) /\ FallsAsleep(left, begun)
    BY <1>4, <1>9, <2>2, <1>3, <1>1 DEF WakePlan
  <2>3. QED BY <1>1, <2>1, <2>2 DEF WakePlan
<1>10. QED BY <1>1, <1>5, <1>6, <1>7, <1>8, <1>9, Zenon DEF WakePlan

LEMMA WakeStep ==
  ASSUME WakeInv, OneOperator, NEW p \in Operators, Carries(p), SoleInv'
  PROVE  WakeInv'
<1> DEFINE s == Head(proc[p].plan)
           n == Len(log) + 1
<1>1. /\ cut' = cut /\ IsPlan(log) /\ begun' = begun
      /\ log' = IF s.do = "event" THEN Append(log, s.entry) ELSE log
      /\ WakePlan(proc[p]) /\ proc[p].plan # <<>>
  BY DEF WakeInv, SoleInv, Carries
<1>2. SleepRows' /\ DOMAIN Triggers \subseteq DOMAIN Triggers'
  BY WakeRows
<1>3. \A q \in Operators : WakePlan(proc[q])'
  BY WakePlanLeft DEF OneOperator
<1>4. \A run : Awoken(run) /\ (\E i \in DOMAIN log : IsQueued(log[i]) /\ log[i].run = run) =>
        Awoken(run)'
  BY AwokenStays
<1>5. \A k, m : SleptBetween(k, m) => SleptBetween(k, m)'
  BY <1>2, SleptStays
<1>6. \A i \in DOMAIN log : IsQueued(log[i]) => Awoken(log[i].run) /\ NumberOf(log[i].run) \in 0..begun
  BY DEF WakeInv, WakeLog
<1>7. CASE s.do # "event"
  <2>1. log' = log
    BY <1>1, <1>7
  <2>2. WakeLog'
    BY <1>1, <1>4, <1>6, <2>1 DEF WakeInv, WakeLog
  <2>3. WokenOnce'
    BY <1>1, <1>5, <2>1 DEF WakeInv, WokenOnce, Again
  <2>4. QED BY <1>2, <1>3, <2>2, <2>3 DEF WakeInv
<1>8. CASE s.do = "event"
  <2>1. /\ DOMAIN log' = DOMAIN log \cup {n} /\ log'[n] = s.entry
        /\ \A i \in DOMAIN log : log'[i] = log[i] /\ i < n /\ i \in Nat
    BY <1>1, <1>8, AppendedLog
  <2>2. Still(s, begun) \/ QueuesSoundly(proc[p])
    BY <1>1, WakeHead, <1>8 DEF RecordsSoundly, WritesTo
  <2>3. s.entry.type # "soul.fork.created"
    BY <1>8, <2>2, StillTells DEF QueuesSoundly, IsQueued, OnceTypes
  <2>4. ASSUME IsQueued(s.entry)
        PROVE  \E run : /\ run = s.entry.run
                        /\ NumberOf(run) \in 0..begun
                        /\ MayQueue(NumberOf(run))
                        /\ Awoken(run)'
    <3>1. QueuesSoundly(proc[p])
      BY <1>8, <2>2, <2>4, StillTells DEF IsQueued, OnceTypes
    <3>2. PICK run : run = s.entry.run
      OBVIOUS
    <3>3. /\ RunKey(run) \in proc[p].ids
          /\ Wakes(Tail(proc[p].plan), begun) /\ Tail(proc[p].plan) # <<>>
      BY <3>1, <3>2 DEF QueuesSoundly
    <3>4. proc'[p].plan = Tail(proc[p].plan) /\ proc'[p].ids = proc[p].ids
      BY <3>3 DEF Carries
    <3>5. Awoken(run)'
      BY <1>1, <3>3, <3>4 DEF Awoken
    <3>6. QED BY <3>1, <3>2, <3>5 DEF QueuesSoundly
  <2>5. \A i \in DOMAIN log' : IsQueued(log'[i]) =>
          \E run : run = log'[i].run /\ Awoken(run)' /\ NumberOf(run) \in 0..begun
    <3>1. IsQueued(s.entry) =>
            \E run : run = s.entry.run /\ Awoken(run)' /\ NumberOf(run) \in 0..begun
      BY <2>4
    <3> HIDE DEF s
    <3>2. QED BY <1>4, <1>6, <2>1, <3>1
  <2> HIDE DEF s
  <2>6. WakeLog'
    BY <2>1, <2>3, <1>1, <2>5 DEF WakeInv, WakeLog
  <2>7. WokenOnce'
    <3>1. ASSUME NEW i \in DOMAIN log', NEW j \in DOMAIN log', i < j,
                 IsQueued(log'[i]), IsQueued(log'[j]), RunKey(log'[i].run) \notin cut'
          PROVE  \E k, m : /\ k = NumberOf(log'[i].run) /\ m = NumberOf(log'[j].run)
                           /\ SleptBetween(k, m)'
      <4>1. Len(log) \in Nat
        BY <1>1, PlanLength
      <4>2. i \in DOMAIN log /\ log'[i] = log[i]
        BY <2>1, <3>1, <4>1
      <4>3. CASE j \in DOMAIN log
        BY <1>1, <1>5, <2>1, <3>1, <4>2, <4>3 DEF WakeInv, WokenOnce, Again, IsQueued
      <4>4. CASE j = n
        <5>1. log'[j] = s.entry /\ MayQueue(NumberOf(s.entry.run))
          BY <2>1, <2>4, <3>1, <4>4
        <5>2. SleptBetween(NumberOf(log[i].run), NumberOf(s.entry.run))
          BY <1>1, <3>1, <4>2, <5>1 DEF MayQueue
        <5>3. QED BY <1>5, <4>2, <5>1, <5>2
      <4>5. QED BY <2>1, <4>3, <4>4
    <3>2. QED BY <3>1 DEF WokenOnce, Again, IsQueued
  <2>8. QED BY <1>2, <1>3, <2>6, <2>7 DEF WakeInv
<1>9. QED BY <1>7, <1>8

LEMMA WakeWaits ==
  ASSUME WakeInv, Waits, SoleInv'
  PROVE  WakeInv'
<1>1. \A q \in Operators : proc'[q].plan = proc[q].plan /\ proc'[q].ids = proc[q].ids
  BY DEF Waits, Procs
<1>2. UNCHANGED <<rows, log, cut, begun>>
  BY DEF Waits
<1>3. SleepRows' /\ Triggers' = Triggers /\ (\A k : SleptAfter(k)' = SleptAfter(k))
  BY <1>2 DEF WakeInv, SleepRows, Triggers, SleptAfter
<1>4. \A k, n : SleptBetween(k, n)' = SleptBetween(k, n)
  BY <1>3 DEF SleptBetween
<1>5. \A run : Awoken(run) => Awoken(run)'
  BY <1>1, <1>2, <1>3 DEF Awoken, Asleep
<1>6. \A n : (MayQueue(n) => MayQueue(n)') /\ (MaySleep(n) => MaySleep(n)')
  BY <1>2, <1>4 DEF MayQueue, MaySleep
<1>7. \A q \in Operators : WakePlan(proc[q])'
  BY <1>1, <1>2, <1>3, <1>6 DEF WakeInv, WakePlan
<1>8. WakeLog' /\ WokenOnce'
  BY <1>2, <1>4, <1>5 DEF WakeInv, WakeLog, WokenOnce, Again
<1>9. QED BY <1>3, <1>7, <1>8 DEF WakeInv

LEMMA WakeDies ==
  ASSUME WakeInv, OneOperator, NEW p \in Operators, Dies(p), SoleInv'
  PROVE  WakeInv'
<1>1. /\ proc'[p].plan = <<>> /\ cut' = cut \cup proc[p].ids
      /\ UNCHANGED <<rows, log, begun>>
  BY DEF Dies
<1>2. SleepRows' /\ Triggers' = Triggers
  BY <1>1 DEF WakeInv, SleepRows, Triggers
<1>3. ASSUME NEW run, Awoken(run)
      PROVE  Awoken(run)'
  BY <1>2, <1>1, <1>3 DEF SleptAfter, Awoken, Asleep, OneOperator
<1>4. \A q \in Operators : WakePlan(proc[q])'
  BY <1>1, StillNone DEF WakePlan, OneOperator
<1>5. WakeLog'
  BY <1>1, <1>3 DEF WakeInv, WakeLog
<1>6. WokenOnce'
  BY <1>1, <1>2 DEF WakeInv, WokenOnce, Again, SleptBetween
<1>7. QED BY <1>2, <1>4, <1>5, <1>6 DEF WakeInv

LEMMA WakeBegins ==
  ASSUME WakeInv, OneOperator, NEW p \in Operators, NEW plan, SoleBegins(p, plan), SoleInv',
         NEW n, n = begun + 1,
         \/ StillPlan(plan, n)
         \/ Schedules(plan, n, n)
         \/ \E run : /\ RunKey(run) \in Touched(plan)
                     /\ NumberOf(run) = n
                     /\ Queues(plan, n, run)
                     /\ Asleep
  PROVE  WakeInv'
<1>1. /\ proc[p].plan = <<>> /\ proc'[p].plan = plan /\ proc'[p].ids = Touched(plan)
      /\ begun' = n /\ UNCHANGED <<rows, log, cut>>
  BY DEF SoleBegins
<1>2. begun \in Nat /\ n \in 0..n /\ \A k : k \in 0..begun => k \in 0..n /\ k < n
  BY DEF WakeInv, SoleInv
<1>3. /\ Triggers' = Triggers
      /\ \A id \in DOMAIN Triggers : Numbered(id, Triggers[id], begun)
  BY <1>1 DEF Triggers, WakeInv, SleepRows
<1>4. SleepRows'
  BY <1>1, <1>2, <1>3 DEF WakeInv, SleepRows, Numbered
<1>5. ASSUME NEW run, Awoken(run)
      PROVE  RunKey(run) \in cut \/ ~Asleep \/ SleptAfter(NumberOf(run))
  BY <1>1, <1>5, NothingWakes DEF Awoken, OneOperator
<1>6. \A k : SleptAfter(k) => SleptAfter(k)' /\ SleptBetween(k, n)'
  BY <1>2, <1>3 DEF SleptAfter, SleptBetween, Numbered
<1>7. ASSUME NEW i \in DOMAIN log, IsQueued(log[i])
      PROVE  NumberOf(log[i].run) \in 0..begun /\ Awoken(log[i].run)
  BY <1>7 DEF WakeInv, WakeLog
<1>8. MaySleep(n)'
  BY <1>1, <1>2, <1>7 DEF MaySleep
<1>9. Asleep => MayQueue(n)'
  BY <1>5, <1>6, <1>7, <1>1 DEF MayQueue
<1>10. WakePlan(proc[p])'
  <2>1. CASE StillPlan(plan, n)
    BY <1>1, <2>1 DEF WakePlan
  <2>2. CASE Schedules(plan, n, n)
    BY <1>1, <1>8, <2>2 DEF WakePlan
  <2>3. ASSUME NEW run, RunKey(run) \in Touched(plan), NumberOf(run) = n, Queues(plan, n, run), Asleep
        PROVE  WakePlan(proc[p])'
    BY <1>9, <2>3, <1>1, <1>2 DEF WakePlan
  <2>4. QED BY <2>1, <2>2, <2>3
<1>11. \A run : Awoken(run) => Awoken(run)'
  <2>1. Asleep' = Asleep
    BY <1>1 DEF Asleep
  <2>2. QED BY <1>1, <1>5, <1>6, <2>1 DEF Awoken
<1>12. WakeLog'
  BY <1>1, <1>2, <1>7, <1>11 DEF WakeInv, WakeLog
<1>13. WokenOnce'
  BY <1>1, <1>3 DEF WakeInv, WokenOnce, Again, SleptBetween
<1>14. \A q \in Operators : WakePlan(proc[q])'
  BY <1>10 DEF OneOperator
<1>15. QED BY <1>4, <1>12, <1>13, <1>14 DEF WakeInv

\* The plans of the family: triggers, sleeps and wakeups.
LEMMA TriggersWritten ==
  ASSUME NEW ids, NEW triggers, NEW n,
         \A source \in DOMAIN ids : Numbered(ids[source], triggers[source], n)
  PROVE  /\ StillPlan(WriteTriggers(ids, triggers), n)
         /\ "manual" \in DOMAIN ids =>
              \E rest :
                /\ StillPlan(rest, n)
                /\ Ahead(WriteTriggers(ids, triggers), n,
                         Upsert("wakeups", ids["manual"], triggers["manual"]), rest)
<1> DEFINE written(source) ==
             IF source \in DOMAIN ids THEN WriteTrigger(ids[source], triggers[source]) ELSE <<>>
           edit == Upsert("wakeups", ids["manual"], triggers["manual"])
<1>1. ASSUME NEW source
      PROVE  StillPlan(written(source), n)
  BY StillFile, StillTrigger, StillTwo, StillNone DEF WriteTrigger
<1>2. WriteTriggers(ids, triggers) = (written("manual") \o written("deadline")) \o written("file")
  BY DEF WriteTriggers
<1>3. ASSUME "manual" \in DOMAIN ids
      PROVE  Ahead(written("manual"), n, edit, <<>>)
  <2> DEFINE file == Artifact(WakePath(ids["manual"]), triggers["manual"])
  <2>1. written("manual") = <<file, edit>> /\ <<file, edit>> = <<file>> \o (<<edit>> \o <<>>)
    BY <1>3 DEF WriteTrigger
  <2>2. StillPlan(<<file>>, n)
    BY StillFile, StillOne
  <2> HIDE DEF file, edit, written
  <2>3. Ahead(<<edit>> \o <<>>, n, edit, <<>>)
    BY None, AheadBegins
  <2>4. QED BY <2>1, <2>2, <2>3, AheadJoined
<1> HIDE DEF written, edit
<1>4. StillPlan(WriteTriggers(ids, triggers), n)
  BY <1>1, <1>2, StillJoined
<1>5. ASSUME "manual" \in DOMAIN ids
      PROVE  \E rest : StillPlan(rest, n) /\ Ahead(WriteTriggers(ids, triggers), n, edit, rest)
  <2> DEFINE one == <<>> \o written("deadline")
             two == one \o written("file")
  <2>1. StillPlan(one, n) /\ StillPlan(two, n)
    BY <1>1, StillNone, StillJoined
  <2>2. Ahead(written("manual") \o written("deadline"), n, edit, one)
    BY <1>1, <1>3, <1>5, AheadMore DEF StillPlan
  <2> HIDE DEF one
  <2>3. Ahead(WriteTriggers(ids, triggers), n, edit, two)
    BY <1>1, <1>2, <2>2, AheadMore DEF StillPlan
  <2>4. QED BY <2>1, <2>3
<1>6. QED BY <1>4, <1>5 DEF edit

\* The record is written last, after its artifact.
LEMMA RecordPrinted ==
  ASSUME NEW record, HasStatus(record), NEW n
  PROVE  WritesRecord(PrintJson(SleepPath, "hibernations", Hib, record), n, record)
<1> DEFINE file == Artifact(SleepPath, record)
           edit == Upsert("hibernations", Hib, record)
<1>1. /\ PrintJson(SleepPath, "hibernations", Hib, record) = <<file, edit>>
      /\ <<file, edit>> = <<file>> \o (<<edit>> \o <<>>)
  BY DEF PrintJson
<1>2. StillPlan(<<file>>, n)
  BY StillFile, StillOne
<1> HIDE DEF file, edit
<1>3. Ahead(<<edit>> \o <<>>, n, edit, <<>>)
  BY None, AheadBegins
<1>4. Ahead(<<file, edit>>, n, edit, <<>>)
  BY <1>1, <1>2, <1>3, AheadJoined
<1>5. QED BY <1>1, <1>4, StillNone DEF WritesRecord, edit

LEMMA RecordJoined ==
  ASSUME NEW plan, NEW n, NEW row, WritesRecord(plan, n, row), NEW first, StillPlan(first, n)
  PROVE  WritesRecord(first \o plan, n, row)
BY AheadJoined DEF WritesRecord

LEMMA RecordMore ==
  ASSUME NEW plan, NEW n, NEW row, WritesRecord(plan, n, row), NEW more, StillPlan(more, n)
  PROVE  WritesRecord(plan \o more, n, row)
<1>1. PICK rest : StillPlan(rest, n) /\ Ahead(plan, n, Upsert("hibernations", Hib, row), rest)
  BY DEF WritesRecord
<1>2. Ahead(plan \o more, n, Upsert("hibernations", Hib, row), rest \o more) /\ StillPlan(rest \o more, n)
  BY <1>1, AheadMore, StillJoined DEF StillPlan
<1>3. QED BY <1>2 DEF WritesRecord

LEMMA SleepSchedules ==
  ASSUME NEW more, NEW n, n = begun + 1, begun \in Nat
  PROVE  Schedules(SleepPlan({"manual"} \cup more), n, n)
<1> DEFINE sources == {"manual"} \cup more
           pack == Assemble(rows["memory-cards"], "resume", rows["memory-tombstones"])
           ids == [source \in sources |-> NewId(source)]
           triggers == [source \in sources |-> Trigger(source)]
           record == Sleeping({ids[source] : source \in sources})
           first == <<Upsert("context-packs", "ctx_resume", pack)>>
           written == WriteTriggers(ids, triggers)
           file == <<Artifact(SleepPath, record)>>
           printed == PrintJson(SleepPath, "hibernations", Hib, record)
           edit == Upsert("wakeups", ids["manual"], triggers["manual"])
<1>1. SleepPlan(sources) = ((first \o written) \o file) \o printed
  BY DEF SleepPlan
<1>2. ASSUME NEW source \in sources
      PROVE  Numbered(ids[source], triggers[source], n) /\ ids[source][2] = n
  <2>1. ids[source] = <<source, n>>
    BY DEF NewId
  <2>2. "since" \in DOMAIN triggers[source] /\ triggers[source].since = n
    BY DEF Trigger
  <2>3. n \in 0..n
    OBVIOUS
  <2> HIDE DEF ids, triggers
  <2>4. QED BY <2>1, <2>2, <2>3 DEF Numbered
<1>3. StillPlan(first, n) /\ StillPlan(file, n)
  <2>1. "context-packs" \notin {"soul-forks", "hibernations", "wakeups"}
    OBVIOUS
  <2> HIDE DEF pack, record
  <2>2. Still(Upsert("context-packs", "ctx_resume", pack), n)
    BY <2>1, StillEdit
  <2>3. QED BY <2>2, StillFile, StillOne
<1>4. HasStatus(record)
  BY DEF HasStatus, Sleeping
<1>5. DOMAIN ids = sources /\ "manual" \in sources
  OBVIOUS
<1> HIDE DEF pack, ids, triggers, record, first, file
<1>6. PICK rest : StillPlan(rest, n) /\ Ahead(written, n, edit, rest)
  BY <1>2, <1>5, TriggersWritten
<1>7. WritesRecord(printed, n, record)
  BY <1>4, RecordPrinted
<1> DEFINE plan == ((first \o written) \o file) \o printed
           left == (rest \o file) \o printed
<1>8. Ahead(plan, n, edit, left)
  <2> HIDE DEF written, printed, edit
  <2>1. IsPlan(printed) /\ IsPlan(file)
    BY <1>3, <1>7, AheadIsPlan DEF WritesRecord, StillPlan
  <2>2. Ahead(first \o written, n, edit, rest)
    BY <1>3, <1>6, AheadJoined
  <2>3. Ahead((first \o written) \o file, n, edit, rest \o file)
    BY <2>1, <2>2, AheadMore
  <2>4. QED BY <2>1, <2>3, AheadMore
<1>9. FallsAsleep(left, n)
  <2> HIDE DEF printed
  <2>1. StillPlan(rest \o file, n)
    BY <1>3, <1>6, StillJoined
  <2>2. WritesRecord(left, n, record)
    BY <1>7, <2>1, RecordJoined
  <2>3. QED BY <2>2 DEF FallsAsleep
<1>10. Numbered(ids["manual"], triggers["manual"], n) /\ ids["manual"][2] = n
  BY <1>2, <1>5
<1> HIDE DEF plan, left, sources
<1>11. Schedules(plan, n, n)
  BY <1>8, <1>9, <1>10 DEF Schedules, edit
<1>12. QED BY <1>1, <1>11 DEF plan, sources

\* A trigger or the record with another status.
LEMMA QueuePlanQueues ==
  ASSUME NEW run, NEW target, NEW id, NEW record, NEW trigger, NEW n,
         HasStatus(record), Numbered(id, trigger, n)
  PROVE  /\ Queues(QueuePlan(run, target, id, record, trigger), n, run)
         /\ RunKey(run) \in Touched(QueuePlan(run, target, id, record, trigger))
<1> DEFINE queued == [record EXCEPT !.status = "queued", !.used = @ + 1]
           done == [trigger EXCEPT !.status = "queued"]
           policy == "policy.decided"
           m1 == Manifest(run, "running", <<>>)
           m2 == Manifest(run, "running", <<policy>>)
           tells == RunEvent(run, "wakeup.queued", WakePath(id))
           m3 == Manifest(run, "running", Append(<<policy>>, "wakeup.queued"))
           m4 == Manifest(run, "blocked", <<policy, "wakeup.queued">>)
           f1 == Artifact(SleepPath, queued)
           f2 == Artifact(WakePath(id), done)
           edit == Upsert("hibernations", Hib, queued)
           last == Upsert("wakeups", id, done)
           five == <<m4, f1, f2, edit, last>>
           printed == PrintJson(<<"wake", target, id>>, "wakeups", id, done)
           managed == Managed(run, "wakeup.queued", WakePath(id), <<policy>>)
           plan == QueuePlan(run, target, id, record, trigger)
<1>1. plan = ((<<m1, m2>> \o managed) \o five) \o printed
  BY DEF QueuePlan
<1>2. managed = <<tells, m3>> /\ <<tells, m3>> = <<tells>> \o <<m3>>
  BY DEF Managed
<1>3. Numbered(id, done, n) /\ HasStatus(queued) /\ queued.status # "sleeping"
  BY DEF Numbered, HasStatus
<1>4. /\ Still(m1, n) /\ Still(m2, n) /\ Still(m3, n) /\ Still(m4, n) /\ Still(f1, n) /\ Still(f2, n)
      /\ Still(last, n)
  BY <1>3, StillFile, StillTrigger
<1>5. StillPlan(printed, n)
  BY <1>3, <1>4, StillFile, StillTwo DEF PrintJson
<1>6. five = <<m4, f1, f2>> \o (<<edit>> \o <<last>>)
  OBVIOUS
<1>7. m1 = Artifact(RunKey(run), [status |-> "running", events |-> <<>>])
  BY DEF Manifest, RunKey
<1> HIDE DEF queued, done, m1, m2, tells, m3, m4, f1, f2, last, five, printed, managed, plan
<1>8. WritesRecord(five, n, queued)
  <2>1. Ahead(<<edit>> \o <<last>>, n, edit, <<last>>) /\ StillPlan(<<last>>, n)
    BY <1>4, One, AheadBegins, StillOne
  <2>2. StillPlan(<<m4, f1, f2>>, n)
    BY <1>4, StillThree
  <2>3. Ahead(five, n, edit, <<last>>)
    BY <1>6, <2>1, <2>2, AheadJoined
  <2>4. QED BY <1>3, <2>1, <2>3 DEF WritesRecord
<1>9. WritesRecord((<<m3>> \o five) \o printed, n, queued)
  BY <1>4, <1>5, <1>8, StillOne, RecordJoined, RecordMore
<1>10. Ahead(plan, n, tells, (<<m3>> \o five) \o printed)
  <2>1. IsPlan(<<m3>>) /\ IsPlan(five) /\ IsPlan(printed)
    BY <1>5, <1>8, One, AheadIsPlan DEF StillPlan, WritesRecord
  <2>2. Ahead(managed, n, tells, <<m3>>)
    BY <1>2, <2>1, AheadBegins
  <2>3. Ahead(<<m1, m2>> \o managed, n, tells, <<m3>>)
    BY <1>4, <2>2, StillTwo, AheadJoined
  <2>4. Ahead((<<m1, m2>> \o managed) \o five, n, tells, <<m3>> \o five)
    BY <2>1, <2>3, AheadMore
  <2>5. QED BY <1>1, <2>1, <2>4, AheadMore
<1>11. Queues(plan, n, run)
  BY <1>3, <1>9, <1>10 DEF Queues, Wakes, tells
<1>12. m1 \in Range(plan)
  <2>1. IsPlan(five) /\ IsPlan(printed) /\ IsPlan(managed)
    BY <1>2, <1>5, <1>8, Two, AheadIsPlan DEF StillPlan, WritesRecord
  <2>2. IsPlan(<<m1, m2>>) /\ m1 \in Range(<<m1, m2>>)
    BY Two
  <2>3. QED BY <1>1, <2>1, <2>2, Joined
<1>13. QED BY <1>7, <1>11, <1>12, TouchedFile DEF plan

LEMMA TouchedJoined ==
  ASSUME NEW s, NEW t, IsPlan(s), IsPlan(t), NEW x \in Touched(t)
  PROVE  x \in Touched(s \o t)
<1> DEFINE about(step) ==
             \/ step.do = "edit" /\ \E id \in DOMAIN step.put \cup step.drop : x = <<step.in, id>>
             \/ step.do = "artifact" /\ x = step.at
<1>1. PICK i \in DOMAIN t : about(t[i])
  BY DEF Touched
<1>2. PICK j \in DOMAIN (s \o t) : (s \o t)[j] = t[i]
  <2>1. t[i] \in Range(s \o t)
    <3>1. t[i] \in Range(t)
      BY <1>1 DEF Range
    <3>2. QED BY <3>1, Joined
  <2>2. QED BY <2>1 DEF Range
<1>3. about((s \o t)[j])
  BY <1>1, <1>2
<1>4. QED BY <1>2, <1>3 DEF Touched

LEMMA QueuesJoined ==
  ASSUME NEW plan, NEW n, NEW run, Queues(plan, n, run), RunKey(run) \in Touched(plan),
         NEW first, StillPlan(first, n)
  PROVE  Queues(first \o plan, n, run) /\ RunKey(run) \in Touched(first \o plan)
BY AheadJoined, AheadIsPlan, TouchedJoined DEF Queues, StillPlan

LEMMA UpToFinite ==
  ASSUME NEW n \in Nat
  PROVE  IsFiniteSet(0..n)
BY FS_Interval

\* There is an oldest manual trigger, when there is one.
LEMMA OldestIsThere ==
  ASSUME SleepRows, begun \in Nat, \E id \in DOMAIN Triggers : Triggers[id].source = "manual"
  PROVE  OldestManual \in DOMAIN Triggers
<1> DEFINE manual == {id \in DOMAIN Triggers : Triggers[id].source = "manual"}
           S == {Triggers[id].since : id \in manual}
<1>1. \A id \in manual : Triggers[id].since \in 0..begun
  BY DEF SleepRows, Numbered
<1>2. S \in Indexes /\ S # {}
  <2>1. S \subseteq 0..begun
    BY <1>1
  <2>2. IsFiniteSet(0..begun)
    BY UpToFinite
  <2>3. QED BY <2>1, <2>2, FS_Subset DEF Indexes
<1> HIDE DEF S
<1>3. 1 \in 1..Cardinality(S)
  BY <1>2, FS_CardinalityType, FS_EmptySet DEF Indexes
<1>4. PICK least \in S : Cardinality(Below(S, least)) = 0
  BY <1>2, <1>3, RankTaken
<1>5. Below(S, least) = {}
  <2>1. IsFiniteSet(Below(S, least))
    BY <1>2, FS_Subset DEF Indexes, Below
  <2>2. QED BY <1>4, <2>1, FS_EmptySet
<1>6. \A other \in S : least <= other
  BY <1>2, <1>5 DEF Below, Indexes
<1>7. PICK id \in manual : Triggers[id].since = least
  BY <1>4 DEF S
<1>8. \A other \in manual : Triggers[id].since <= Triggers[other].since
  BY <1>6, <1>7 DEF S
<1>9. QED BY <1>7, <1>8 DEF OldestManual

\* The commands of the family.
LEMMA HibernationBegins ==
  ASSUME WakeInv, NEW p, HibernationStep(p), NEW n, n = begun + 1
  PROVE  \/ UNCHANGED <<rows, log, cut, begun, proc>>
         \/ \E plan :
              /\ Begin(p, plan)
              /\ \/ StillPlan(plan, n)
                 \/ Schedules(plan, n, n)
                 \/ \E run : /\ RunKey(run) \in Touched(plan)
                             /\ NumberOf(run) = n
                             /\ Queues(plan, n, run)
                             /\ Asleep
<1>1. begun \in Nat
  BY DEF WakeInv, SoleInv
<1>2. ASSUME NEW more, SleepRun(p, more)
      PROVE  \E plan : Begin(p, plan) /\ Schedules(plan, n, n)
  BY <1>2, <1>1, SleepSchedules DEF SleepRun
<1>3. ASSUME NEW target \in DOMAIN Triggers \cup {Hib}, NEW reply, Wake(p, target, reply)
      PROVE  \E plan :
               /\ Begin(p, plan)
               /\ \/ StillPlan(plan, n)
                  \/ \E run : /\ RunKey(run) \in Touched(plan)
                              /\ NumberOf(run) = n
                              /\ Queues(plan, n, run)
                              /\ Asleep
  <2> DEFINE id == TriggerOf(target)
             record == rows["hibernations"][Hib]
             status == Evaluated(record, Triggers[id])
             evaluated == [Triggers[id] EXCEPT !.status = status]
             path == <<"wake", target, id>>
             edit == Upsert("wakeups", id, evaluated)
             printed == PrintJson(path, "wakeups", id, evaluated)
             decided == RunEvent(NewRun, "policy.decided", <<>>)
             queue == QueuePlan(NewRun, target, id, record, Triggers[id])
             waking == <<decided>> \o IF reply = "expected" THEN queue ELSE <<>>
  <2>1. /\ Hib \in DOMAIN rows["hibernations"]
        /\ \E x \in DOMAIN Triggers : Triggers[x].source = "manual"
        /\ Begin(p, IF status # "eligible" THEN <<edit>> \o printed ELSE waking)
    BY <1>3 DEF Wake
  <2>2. id \in DOMAIN Triggers
    BY <1>1, <1>3, <2>1, OldestIsThere DEF TriggerOf, WakeInv
  <2>3. Numbered(id, Triggers[id], begun) /\ HasStatus(record)
    BY <2>1, <2>2 DEF WakeInv, SleepRows
  <2>4. status = "eligible" => Asleep
    BY <2>1 DEF Evaluated, Asleep
  <2>5. Numbered(id, Triggers[id], n) /\ Numbered(id, evaluated, n)
    <3>1. \A k \in 0..begun : k \in 0..n
      BY <1>1
    <3> HIDE DEF id, status
    <3>2. Numbered(id, Triggers[id], n)
      BY <2>3, <3>1 DEF Numbered
    <3>3. QED BY <3>2 DEF Numbered
  <2>6. NumberOf(NewRun) = n
    BY DEF NumberOf, NewRun, NewId
  <2> HIDE DEF id, record, evaluated, status
  <2>7. StillPlan(<<edit>> \o printed, n)
    BY <2>5, StillFile, StillTrigger, StillOne, StillTwo, StillJoined DEF PrintJson
  <2>8. StillPlan(<<decided>>, n)
    BY StillEvent, StillOne DEF OnceTypes
  <2>9. Queues(queue, n, NewRun) /\ RunKey(NewRun) \in Touched(queue)
    BY <2>3, <2>5, QueuePlanQueues
  <2> HIDE DEF edit, printed, decided, queue
  <2>10. StillPlan(<<decided>> \o <<>>, n)
    BY <2>8, StillNone, StillJoined
  <2>11. Queues(<<decided>> \o queue, n, NewRun) /\ RunKey(NewRun) \in Touched(<<decided>> \o queue)
    BY <2>8, <2>9, QueuesJoined
  <2>12. CASE status # "eligible"
    BY <2>1, <2>7, <2>12
  <2>13. CASE status = "eligible" /\ reply = "expected"
    BY <2>1, <2>4, <2>6, <2>11, <2>13
  <2>14. CASE status = "eligible" /\ reply # "expected"
    BY <2>1, <2>10, <2>14
  <2>15. QED BY <2>12, <2>13, <2>14
<1>4. WatchedFileChanges(p) => UNCHANGED <<rows, log, cut, begun, proc>>
  BY DEF WatchedFileChanges, Outside
<1>5. DeadlinePasses(p) => UNCHANGED <<rows, log, cut, begun, proc>>
  BY DEF DeadlinePasses, Outside
<1>6. QED BY <1>2, <1>3, <1>4, <1>5, Zenon DEF HibernationStep

LEMMA StepHibInv == OneOperator /\ HibInv /\ [Next]_govVars => HibInv'
<1> SUFFICES ASSUME OneOperator, HibInv, [Next]_govVars, family' = "hibernation" PROVE WakeInv'
  BY DEF HibInv
<1>1. family = "hibernation" /\ WakeInv /\ SoleInv /\ Shaped'
  BY NextMoves DEF Moves, HibInv, WakeInv, SoleInv
<1>2. ASSUME NEW p \in Procs, HibernationStep(p)
      PROVE  WakeInv'
  <2>1. PICK n : n = begun + 1
    OBVIOUS
  <2>2. CASE UNCHANGED <<rows, log, cut, begun, proc>>
    BY <1>1, <2>2, SoleWait, WakeWaits
  <2>3. ASSUME NEW plan, Begin(p, plan),
               \/ StillPlan(plan, n)
               \/ Schedules(plan, n, n)
               \/ \E run : /\ RunKey(run) \in Touched(plan)
                           /\ NumberOf(run) = n
                           /\ Queues(plan, n, run)
                           /\ Asleep
        PROVE  WakeInv'
    BY <2>3, AheadIsPlan, <1>1, SoleBegin, <2>1, WakeBegins DEF StillPlan, Schedules, Queues
  <2>4. QED BY <1>1, <1>2, <2>1, <2>2, <2>3, HibernationBegins
<1>3. ASSUME NEW p \in Procs, Write(p)
      PROVE  WakeInv'
  BY <1>1, <1>3, SoleWrites, WakeStep, WakeWaits
<1>4. ASSUME NEW p \in Procs, Kill(p)
      PROVE  WakeInv'
  BY <1>1, <1>4, SoleKill, WakeDies
<1>5. ASSUME UNCHANGED govVars
      PROVE  WakeInv'
  BY <1>1, <1>5, SoleWait, WakeWaits DEF govVars, files
<1>6. QED BY <1>1, <1>2, <1>3, <1>4, <1>5 DEF Next, FamilyStep

-----------------------------------------------------------------------------
(* The workspaces of the hibernation histories *)

\* A step that only puts triggers of the first n commands.
Numbers(s, n) ==
    s.do = "edit" /\ s.in = "wakeups" =>
      s.drop = {} /\ \A id \in DOMAIN s.put : Numbered(id, s.put[id], n)

LEMMA StillIsMute ==
  ASSUME NEW plan, NEW n, StillPlan(plan, n)
  PROVE  MutePlan(plan) /\ \A s \in Range(plan) : Numbers(s, n)
BY DEF StillPlan, MutePlan, Still, Numbers

LEMMA RecordIsMute ==
  ASSUME NEW plan, NEW n, NEW row, WritesRecord(plan, n, row)
  PROVE  MutePlan(plan) /\ \A s \in Range(plan) : Numbers(s, n)
<1> DEFINE edit == Upsert("hibernations", Hib, row)
<1>1. PICK rest : StillPlan(rest, n) /\ Ahead(plan, n, edit, rest)
  BY DEF WritesRecord
<1>2. Mute(edit) /\ Numbers(edit, n)
  BY RecordStep DEF Mute, Numbers
<1> HIDE DEF edit
<1>3. PICK k \in 1..Len(plan) :
        /\ plan[k] = edit
        /\ \A i \in 1..Len(plan) : /\ i < k => Still(plan[i], n)
                                   /\ k < i => plan[i] \in Range(rest)
  BY <1>1, AheadAt
<1>4. IsPlan(plan)
  BY <1>1, AheadIsPlan
<1>5. ASSUME NEW s \in Range(plan)
      PROVE  Mute(s) /\ Numbers(s, n)
  <2>1. PICK i \in 1..Len(plan) : plan[i] = s
    BY <1>4, PlanLength DEF Range
  <2>2. Len(plan) \in Nat
    BY <1>4, PlanLength
  <2>3. s = edit \/ Still(s, n)
    BY <1>1, <1>3, <2>1, <2>2 DEF StillPlan
  <2>4. QED BY <1>2, <2>3 DEF Still, Numbers
<1>6. QED BY <1>4, <1>5 DEF MutePlan

LEMMA RecordLast ==
  ASSUME NEW first, NEW rest, NEW n, NEW row, IsPlan(first), WritesRecord(rest, n, row)
  PROVE  LET plan == first \o rest
         IN \E i \in DOMAIN plan :
              /\ plan[i] = Upsert("hibernations", Hib, row)
              /\ \A j \in DOMAIN plan : j > i => Still(plan[j], n)
<1> DEFINE edit == Upsert("hibernations", Hib, row)
           plan == first \o rest
<1>1. PICK left : StillPlan(left, n) /\ Ahead(rest, n, edit, left)
  BY DEF WritesRecord
<1> HIDE DEF edit
<1>2. PICK k \in 1..Len(rest) :
        /\ rest[k] = edit
        /\ \A i \in 1..Len(rest) : /\ i < k => Still(rest[i], n)
                                   /\ k < i => rest[i] \in Range(left)
  BY <1>1, AheadAt
<1>3. IsPlan(rest) /\ IsPlan(plan)
  BY <1>1, AheadIsPlan, Joined
<1>4. Len(first) \in Nat /\ Len(rest) \in Nat /\ DOMAIN plan = 1..Len(plan)
  BY <1>3, PlanLength
<1>5. /\ Len(plan) = Len(first) + Len(rest)
      /\ \A i \in 1..Len(rest) : plan[Len(first) + i] = rest[i]
  BY <1>3, JoinedAt
<1> HIDE DEF plan
<1>6. Len(first) + k \in DOMAIN plan /\ plan[Len(first) + k] = edit
  BY <1>2, <1>4, <1>5
<1>7. ASSUME NEW j \in DOMAIN plan, j > Len(first) + k
      PROVE  Still(plan[j], n)
  <2> DEFINE i == j - Len(first)
  <2>1. i \in 1..Len(rest) /\ k < i /\ Len(first) + i = j
    BY <1>2, <1>4, <1>5, <1>7
  <2>2. plan[j] = rest[i]
    BY <1>5, <2>1
  <2> HIDE DEF i
  <2>3. QED BY <1>1, <1>2, <2>1, <2>2 DEF StillPlan
<1>8. QED BY <1>6, <1>7 DEF plan, edit

LEMMA SleepyRows ==
  ASSUME NEW first, NEW rest, NEW row, IsPlan(first), \A s \in Range(first) : Numbers(s, 0),
         WritesRecord(rest, 0, row)
  PROVE  LET after == CarriedOut(Awake, first \o rest)
         IN /\ {"hibernations", "wakeups"} \subseteq DOMAIN after.rows
            /\ \A id \in DOMAIN after.rows["wakeups"] :
                 Numbered(id, after.rows["wakeups"][id], 0)
            /\ Hib \in DOMAIN after.rows["hibernations"]
            /\ after.rows["hibernations"][Hib] = row
<1> DEFINE plan == first \o rest
           after == CarriedOut(Awake, plan)
           changes(name) == [i \in DOMAIN plan |-> RowChange(plan[i], name)]
<1>1. /\ Awake.rows["hibernations"] = Nothing /\ Awake.rows["wakeups"] = Nothing
      /\ {"hibernations", "wakeups"} \subseteq DOMAIN Awake.rows
  BY DEF Awake, HibernationRegistries
<1>2. /\ DOMAIN after.rows = DOMAIN Awake.rows
      /\ \A name \in DOMAIN Awake.rows : after.rows[name] = Changed(Awake.rows[name], changes(name))
  <2>1. "rows" \in DOMAIN Awake
    BY DEF Awake
  <2> HIDE DEF plan
  <2>2. after.rows = [name \in DOMAIN Awake.rows |-> Changed(Awake.rows[name], changes(name))]
    BY <2>1 DEF CarriedOut
  <2> HIDE DEF after, changes
  <2>3. QED BY <2>2
<1>3. IsPlan(rest) /\ MutePlan(rest) /\ \A s \in Range(rest) : Numbers(s, 0)
  BY RecordIsMute DEF MutePlan
<1>4. IsPlan(plan) /\ \A s \in Range(plan) : Numbers(s, 0)
  BY <1>3, Joined
<1>5. DOMAIN plan \subseteq Nat /\ \A i \in DOMAIN plan : Numbers(plan[i], 0)
  <2> HIDE DEF plan
  <2>1. DOMAIN plan = 1..Len(plan) /\ \A i \in 1..Len(plan) : plan[i] \in Range(plan)
    BY <1>4, PlanLength
  <2>2. QED BY <1>4, <2>1
<1>6. PICK i \in DOMAIN plan :
        /\ plan[i] = Upsert("hibernations", Hib, row)
        /\ \A j \in DOMAIN plan : j > i => Still(plan[j], 0)
  BY RecordLast
<1> HIDE DEF plan, after
<1>7. ASSUME NEW id \in DOMAIN Changed(Nothing, changes("wakeups"))
      PROVE  Numbered(id, Changed(Nothing, changes("wakeups"))[id], 0)
  <2>1. PICK j \in DOMAIN plan :
          /\ id \in DOMAIN RowChange(plan[j], "wakeups").put
          /\ Changed(Nothing, changes("wakeups"))[id] = RowChange(plan[j], "wakeups").put[id]
    BY <1>7, ChangedRow DEF Nothing
  <2>2. plan[j].do = "edit" /\ plan[j].in = "wakeups" /\ RowChange(plan[j], "wakeups").put = plan[j].put
    BY <2>1 DEF RowChange, NoChange, Nothing
  <2>3. QED BY <1>5, <2>1, <2>2 DEF Numbers
<1>8. /\ Hib \in DOMAIN Changed(Nothing, changes("hibernations"))
      /\ Changed(Nothing, changes("hibernations"))[Hib] = row
  <2> DEFINE table == changes("hibernations")
  <2>1. DOMAIN table = DOMAIN plan
    OBVIOUS
  <2>2. DOMAIN table[i].put = {Hib} /\ table[i].put[Hib] = row
    BY <1>6, RecordStep DEF RowChange
  <2>3. ASSUME NEW j \in DOMAIN table, j > i
        PROVE  Hib \notin DOMAIN table[j].put \cup table[j].drop
    BY <1>6, <2>3, <2>1 DEF Still, RowChange, NoChange, Nothing
  <2> HIDE DEF table
  <2>4. Hib \in DOMAIN Changed(Nothing, table) /\ Changed(Nothing, table)[Hib] = table[i].put[Hib]
    BY <1>5, <2>1, <2>2, <2>3, GivenLast
  <2>5. QED BY <2>2, <2>4 DEF table
<1>9. QED BY <1>1, <1>2, <1>7, <1>8 DEF after, plan

\* A plan that tells once of what must happen once, in a workspace that never did.
LEMMA ToldOnce ==
  ASSUME NEW s, MuteStart(s), NEW a, NEW b, NEW step, MutePlan(a), MutePlan(b)
  PROVE  LET told == CarriedOut(s, a \o (<<step>> \o b)).log
         IN /\ IsPlan(told)
            /\ \A i \in DOMAIN told : Once(told[i]) => told[i] = step.entry
            /\ \A i, j \in DOMAIN told : Once(told[i]) /\ Once(told[j]) => i = j
<1> DEFINE plan == a \o (<<step>> \o b)
           entries == EntriesOf(plan)
           told == s.log \o entries
           n == Cardinality(EventSteps(plan))
           at == Len(a) + 1
<1>1. CarriedOut(s, plan).log = told
  BY DEF CarriedOut, MuteStart
<1>2. /\ IsPlan(a) /\ IsPlan(b) /\ IsPlan(<<step>>) /\ IsPlan(<<step>> \o b) /\ IsPlan(plan)
      /\ Len(<<step>>) = 1 /\ <<step>>[1] = step
  BY One, Joined DEF MutePlan
<1>3. /\ Len(a) \in Nat /\ Len(b) \in Nat /\ DOMAIN plan = 1..Len(plan)
  BY <1>2, PlanLength
<1>4. /\ Len(<<step>> \o b) = 1 + Len(b) /\ (<<step>> \o b)[1] = step
      /\ \A i \in 1..Len(b) : (<<step>> \o b)[1 + i] = b[i]
  BY <1>2, JoinedAt
<1>5. /\ Len(plan) = Len(a) + (1 + Len(b))
      /\ \A i \in 1..Len(a) : plan[i] = a[i]
      /\ \A i \in 1..(1 + Len(b)) : plan[Len(a) + i] = (<<step>> \o b)[i]
  BY <1>2, <1>4, JoinedAt
<1>6. plan[at] = step
  BY <1>3, <1>4, <1>5
<1>7. ASSUME NEW i \in DOMAIN plan, i # at
      PROVE  Mute(plan[i])
  <2>1. CASE i \in 1..Len(a)
    BY <1>2, <1>5, <2>1, PlanLength DEF MutePlan
  <2>2. CASE i \notin 1..Len(a)
    <3> DEFINE j == i - at
    <3>1. PICK k, m : k = Len(a) /\ m = Len(b)
      OBVIOUS
    <3>2. j \in 1..Len(b) /\ 1 + j \in 1..(1 + Len(b)) /\ Len(a) + (1 + j) = i
      <4>1. k \in Nat /\ m \in Nat /\ i \in 1..(k + (1 + m)) /\ i # k + 1 /\ i \notin 1..k /\ at = k + 1
        BY <1>3, <1>5, <1>7, <2>2, <3>1
      <4>2. i - (k + 1) \in 1..m /\ 1 + (i - (k + 1)) \in 1..(1 + m) /\ k + (1 + (i - (k + 1))) = i
        BY <4>1
      <4> HIDE DEF at
      <4>3. QED BY <3>1, <4>1, <4>2
    <3>3. plan[i] = b[j]
      BY <1>4, <1>5, <3>2
    <3>4. QED BY <1>2, <3>2, <3>3, PlanLength DEF MutePlan
  <2>3. QED BY <2>1, <2>2
<1> HIDE DEF plan, at
<1>8. /\ n \in Nat /\ DOMAIN entries = 1..n /\ IsPlan(entries)
      /\ \E place \in [1..n -> DOMAIN plan] :
           /\ \A k \in 1..n : plan[place[k]].do = "event" /\ entries[k] = plan[place[k]].entry
           /\ \A k, l \in 1..n : place[k] = place[l] => k = l
  BY <1>2, EntriesOfEvents
<1>9. PICK place \in [1..n -> DOMAIN plan] :
        /\ \A k \in 1..n : plan[place[k]].do = "event" /\ entries[k] = plan[place[k]].entry
        /\ \A k, l \in 1..n : place[k] = place[l] => k = l
  BY <1>8
<1> HIDE DEF entries, n
<1>10. ASSUME NEW k \in 1..n, Once(entries[k])
       PROVE  place[k] = at /\ entries[k] = step.entry
  <2>1. place[k] = at
    BY <1>7, <1>9, <1>10 DEF Mute
  <2>2. QED BY <1>6, <1>9, <2>1
<1>11. /\ IsPlan(s.log) /\ IsPlan(told) /\ Len(s.log) \in Nat /\ Len(entries) = n
       /\ Len(told) = Len(s.log) + n
       /\ DOMAIN told = 1..Len(told) /\ DOMAIN s.log = 1..Len(s.log)
       /\ \A i \in 1..Len(s.log) : told[i] = s.log[i]
       /\ \A i \in 1..n : told[Len(s.log) + i] = entries[i]
  <2>1. IsPlan(s.log) /\ IsPlan(told)
    BY <1>8, Joined DEF MuteStart
  <2>2. Len(entries) = n
    BY <1>8, PlanLength
  <2>3. Len(s.log) \in Nat /\ DOMAIN s.log = 1..Len(s.log) /\ DOMAIN told = 1..Len(told)
    BY <2>1, PlanLength
  <2>4. /\ Len(told) = Len(s.log) + Len(entries)
        /\ \A i \in 1..Len(s.log) : told[i] = s.log[i]
        /\ \A i \in 1..Len(entries) : told[Len(s.log) + i] = entries[i]
    BY <1>8, <2>1, JoinedAt
  <2> HIDE DEF told
  <2>5. QED BY <2>1, <2>2, <2>3, <2>4
<1> HIDE DEF told
<1>12. ASSUME NEW i \in DOMAIN told, Once(told[i])
       PROVE  \E k \in 1..n : i = Len(s.log) + k /\ Once(entries[k]) /\ told[i] = entries[k]
  <2>1. i \notin 1..Len(s.log)
    BY <1>11, <1>12 DEF MuteStart
  <2> DEFINE k == i - Len(s.log)
  <2>2. k \in 1..n /\ i = Len(s.log) + k
    BY <1>8, <1>11, <2>1
  <2>3. QED BY <1>11, <1>12, <2>2
<1>13. ASSUME NEW i \in DOMAIN told, NEW j \in DOMAIN told, Once(told[i]), Once(told[j])
       PROVE  i = j /\ told[i] = step.entry
  <2>1. PICK k \in 1..n : i = Len(s.log) + k /\ Once(entries[k]) /\ told[i] = entries[k]
    BY <1>12, <1>13
  <2>2. PICK l \in 1..n : j = Len(s.log) + l /\ Once(entries[l]) /\ told[j] = entries[l]
    BY <1>12, <1>13
  <2>3. k = l
    BY <1>9, <1>10, <2>1, <2>2
  <2>4. QED BY <1>10, <2>1, <2>2, <2>3
<1>14. QED BY <1>1, <1>11, <1>13 DEF plan

\* A workspace with triggers from before the first command, and one wakeup at most,
\* after which the run does not sleep.
SleepyStart(s) ==
    /\ {"hibernations", "wakeups"} \subseteq DOMAIN s.rows
    /\ \A id \in DOMAIN s.rows["wakeups"] : Numbered(id, s.rows["wakeups"][id], 0)
    /\ IsPlan(s.log)
    /\ \A i \in DOMAIN s.log :
         Once(s.log[i]) => IsQueued(s.log[i]) /\ NumberOf(s.log[i].run) = 0
    /\ \A i, j \in DOMAIN s.log : Once(s.log[i]) /\ Once(s.log[j]) => i = j
    /\ Hib \in DOMAIN s.rows["hibernations"] =>
         LET row == s.rows["hibernations"][Hib]
         IN HasStatus(row) /\ (row.status = "sleeping" => \A i \in DOMAIN s.log : ~Once(s.log[i]))

LEMMA SleepyAwake == MuteStart(Awake) /\ SleepyStart(Awake)
<1> DEFINE e == Plain("run.started")
<1>1. DOMAIN Awake = {"rows", "artifacts", "log", "world"} /\ Awake.log = <<e>>
  BY DEF Awake
<1>2. ~Once(e)
  BY DEF Once, OnceTypes, Plain
<1> HIDE DEF e
<1>3. MuteStart(Awake)
  BY <1>1, <1>2, MuteSingle
<1>4. /\ Awake.rows["hibernations"] = Nothing /\ Awake.rows["wakeups"] = Nothing
      /\ {"hibernations", "wakeups"} \subseteq DOMAIN Awake.rows
  BY DEF Awake, HibernationRegistries
<1>5. QED BY <1>3, <1>4 DEF MuteStart, SleepyStart, Nothing

\* Put to sleep, and woken after that, whatever the triggers are.
LEMMA SleepyAsleep ==
  ASSUME NEW first, NEW printed, NEW row, StillPlan(first, 0), WritesRecord(printed, 0, row)
  PROVE  SleepyStart(CarriedOut(Awake, first \o printed))
<1> DEFINE plan == first \o printed
           after == CarriedOut(Awake, plan)
<1>1. IsPlan(first) /\ MutePlan(first) /\ \A s \in Range(first) : Numbers(s, 0)
  BY StillIsMute DEF StillPlan
<1>2. HasStatus(row) /\ MutePlan(plan)
  BY <1>1, RecordIsMute, MuteJoined DEF WritesRecord
<1>3. /\ {"hibernations", "wakeups"} \subseteq DOMAIN after.rows
      /\ \A id \in DOMAIN after.rows["wakeups"] : Numbered(id, after.rows["wakeups"][id], 0)
      /\ Hib \in DOMAIN after.rows["hibernations"]
      /\ after.rows["hibernations"][Hib] = row
  BY <1>1, SleepyRows
<1>4. MuteStart(after)
  BY <1>2, SleepyAwake, MuteCarriedOut
<1> HIDE DEF after
<1>5. SleepyStart(after)
  BY <1>2, <1>3, <1>4 DEF SleepyStart, MuteStart
<1>6. QED BY <1>5 DEF after

LEMMA SleepyWoken ==
  ASSUME NEW asleep, MutePlan(asleep), \A s \in Range(asleep) : Numbers(s, 0),
         NEW woken, NEW run, NumberOf(run) = 0, Queues(woken, 0, run)
  PROVE  SleepyStart(CarriedOut(Awake, asleep \o woken))
<1>1. PICK path, rest : Ahead(woken, 0, RunEvent(run, "wakeup.queued", path), rest) /\ Wakes(rest, 0)
  BY DEF Queues
<1>2. PICK row : row.status # "sleeping" /\ WritesRecord(rest, 0, row)
  BY <1>1 DEF Wakes
<1> DEFINE tells == RunEvent(run, "wakeup.queued", path)
<1>3. /\ Numbers(tells, 0) /\ tells.entry.run = run /\ IsQueued(tells.entry)
  BY DEF Numbers, RunEvent, IsQueued
<1> HIDE DEF tells
<1>4. PICK before : StillPlan(before, 0) /\ woken = before \o (<<tells>> \o rest)
  BY <1>1 DEF Ahead, tells
<1> DEFINE a == asleep \o before
           first == a \o <<tells>>
           plan == asleep \o woken
           after == CarriedOut(Awake, plan)
<1>5. /\ MutePlan(a) /\ IsPlan(a) /\ IsPlan(first) /\ IsPlan(<<tells>>) /\ IsPlan(rest)
      /\ IsPlan(asleep) /\ IsPlan(before) /\ MutePlan(rest)
      /\ \A s \in Range(first) : Numbers(s, 0)
  <2>1. MutePlan(before) /\ MutePlan(rest) /\ \A s \in Range(before) : Numbers(s, 0)
    BY <1>2, <1>4, StillIsMute, RecordIsMute
  <2>2. IsPlan(<<tells>>) /\ Range(<<tells>>) = {tells}
    BY One
  <2>3. IsPlan(asleep) /\ IsPlan(before) /\ IsPlan(rest)
    BY <2>1 DEF MutePlan
  <2>4. IsPlan(a) /\ Range(a) = Range(asleep) \cup Range(before)
    BY <2>3, Joined
  <2>5. MutePlan(a)
    BY <2>1, MuteJoined
  <2> HIDE DEF a
  <2>6. IsPlan(first) /\ Range(first) = Range(a) \cup Range(<<tells>>)
    BY <2>2, <2>4, Joined
  <2>7. QED BY <1>3, <2>1, <2>2, <2>3, <2>4, <2>5, <2>6
<1>6. plan = a \o (<<tells>> \o rest)
  <2> DEFINE more == <<tells>> \o rest
  <2>1. IsPlan(more) /\ plan = asleep \o (before \o more)
    BY <1>4, <1>5, Joined
  <2> HIDE DEF more, plan
  <2>2. IsPlan(asleep) /\ IsPlan(before)
    BY <1>5
  <2>3. (asleep \o before) \o more = asleep \o (before \o more)
    BY <2>1, <2>2, JoinedThrice
  <2>4. QED BY <2>1, <2>3 DEF more
<1>7. plan = first \o rest
  <2> HIDE DEF a, plan
  <2>1. (a \o <<tells>>) \o rest = a \o (<<tells>> \o rest)
    BY <1>5, JoinedThrice
  <2>2. QED BY <1>6, <2>1
<1>8. /\ {"hibernations", "wakeups"} \subseteq DOMAIN after.rows
      /\ \A id \in DOMAIN after.rows["wakeups"] : Numbered(id, after.rows["wakeups"][id], 0)
      /\ Hib \in DOMAIN after.rows["hibernations"]
      /\ after.rows["hibernations"][Hib] = row
  <2> HIDE DEF first, plan
  <2>1. QED BY <1>2, <1>5, <1>7, SleepyRows
<1>9. /\ IsPlan(after.log)
      /\ \A i \in DOMAIN after.log : Once(after.log[i]) => after.log[i] = tells.entry
      /\ \A i, j \in DOMAIN after.log : Once(after.log[i]) /\ Once(after.log[j]) => i = j
  <2> HIDE DEF a, plan
  <2>1. QED BY <1>5, <1>6, SleepyAwake, ToldOnce
<1>10. HasStatus(row)
  BY <1>2 DEF WritesRecord
<1> HIDE DEF after
<1>11. SleepyStart(after)
  BY <1>2, <1>3, <1>8, <1>9, <1>10 DEF SleepyStart
<1>12. QED BY <1>11 DEF after, plan

LEMMA SleepyStarts == \A s \in HibernationStarts : SleepyStart(s)
<1> DEFINE trigger(source) == [source |-> source, since |-> 0, status |-> "scheduled",
                               baseline |-> IF source = "file" THEN "watched" ELSE "none"]
           ids == [source \in {"manual", "deadline", "file"} |-> Earlier(source)]
           triggers == [source \in DOMAIN ids |-> trigger(source)]
           record == Sleeping({ids[source] : source \in DOMAIN ids})
           first == WriteTriggers(ids, triggers)
           printed == PrintJson(SleepPath, "hibernations", Hib, record)
           decided == <<RunEvent(Earlier("run"), "policy.decided", <<>>)>>
           queue == QueuePlan(Earlier("run"), Hib, Earlier("manual"), record, trigger("manual"))
<1>1. HibernationStarts =
        {Awake, CarriedOut(Awake, first \o printed),
         CarriedOut(Awake, (first \o printed) \o (decided \o queue))}
  BY DEF HibernationStarts
<1>2. HasStatus(record)
  BY DEF HasStatus, Sleeping
<1>3. \A source : Numbered(Earlier(source), trigger(source), 0)
  BY DEF Numbered, Earlier
<1>4. StillPlan(first, 0)
  <2>1. ASSUME NEW source \in DOMAIN ids
        PROVE  Numbered(ids[source], triggers[source], 0)
    <3>1. ids[source] = Earlier(source) /\ triggers[source] = trigger(source)
      OBVIOUS
    <3> HIDE DEF ids, triggers, trigger
    <3>2. QED BY <1>3, <3>1
  <2> HIDE DEF ids, triggers
  <2>2. QED BY <2>1, TriggersWritten
<1>5. WritesRecord(printed, 0, record)
  <2> HIDE DEF record
  <2>1. QED BY <1>2, RecordPrinted
<1>6. StillPlan(decided, 0)
  BY StillEvent, StillOne DEF OnceTypes
<1>7. Queues(queue, 0, Earlier("run"))
  <2>1. Numbered(Earlier("manual"), trigger("manual"), 0)
    BY <1>3
  <2> HIDE DEF record, trigger
  <2>2. QED BY <1>2, <2>1, QueuePlanQueues
<1>8. NumberOf(Earlier("run")) = 0
  BY DEF NumberOf, Earlier
<1> HIDE DEF first, printed, decided, queue
<1>9. Queues(decided \o queue, 0, Earlier("run"))
  BY <1>6, <1>7, AheadJoined DEF Queues
<1>10. MutePlan(first \o printed) /\ \A s \in Range(first \o printed) : Numbers(s, 0)
  <2>1. WritesRecord(first \o printed, 0, record)
    BY <1>4, <1>5, RecordJoined
  <2> HIDE DEF record
  <2>2. QED BY <2>1, RecordIsMute
<1>11. SleepyStart(CarriedOut(Awake, first \o printed))
  BY <1>4, <1>5, SleepyAsleep
<1>12. SleepyStart(CarriedOut(Awake, (first \o printed) \o (decided \o queue)))
  BY <1>8, <1>9, <1>10, SleepyWoken
<1>13. QED BY <1>1, <1>11, <1>12, SleepyAwake

LEMMA InitHibInv == Init => HibInv
<1> SUFFICES ASSUME Init, family = "hibernation" PROVE WakeInv
  BY DEF HibInv
<1>1. PICK s \in HibernationStarts : rows = s.rows /\ log = s.log
  BY DEF Init, Starts
<1>2. SleepyStart(s)
  BY SleepyStarts
<1>3. IsPlan(log) /\ begun = 0 /\ cut = {} /\ \A q \in Procs : proc[q].plan = <<>>
  BY <1>1, <1>2 DEF SleepyStart, Init, IdleProc
<1>4. SoleInv
  BY <1>3, SoleInit
<1>5. SleepRows
  BY <1>1, <1>2, <1>3 DEF SleepyStart, SleepRows, Triggers
<1>6. \A q \in Operators : WakePlan(proc[q])
  BY <1>3, StillNone DEF WakePlan, Procs
<1>7. ASSUME NEW i \in DOMAIN log
      PROVE  /\ log[i].type # "soul.fork.created"
             /\ IsQueued(log[i]) => NumberOf(log[i].run) = 0 /\ ~Asleep
  BY <1>1, <1>2 DEF SleepyStart, IsQueued, Once, OnceTypes, Asleep
<1>8. WakeLog
  BY <1>3, <1>7 DEF WakeLog, Awoken
<1>9. WokenOnce
  BY <1>1, <1>2, <1>3, PlanLength DEF SleepyStart, IsQueued, Once, OnceTypes, WokenOnce, Again
<1>10. QED BY <1>4, <1>5, <1>6, <1>8, <1>9 DEF WakeInv

-----------------------------------------------------------------------------
(* What must happen once *)

\* What must happen once, where nothing of the kind is ever told.
LEMMA MuteDone ==
  ASSUME MuteState
  PROVE  DoneOnce
BY DEF MuteState, MuteLog, Once, OnceTypes, DoneOnce, Again

LEMMA ForkDone ==
  ASSUME ForkInv
  PROVE  DoneOnce
BY DEF ForkInv, ForkLog, ForkedOnce, ForkKey, DoneOnce, Again

LEMMA WakeDone ==
  ASSUME WakeInv
  PROVE  DoneOnce
<1>1. \A i \in DOMAIN log : log[i].type # "soul.fork.created"
  BY DEF WakeInv, WakeLog
<1>2. \A id \in DOMAIN rows["wakeups"] : Triggers[id].since = id[2]
  BY DEF WakeInv, SleepRows, Numbered, Triggers
<1>3. ASSUME NEW i \in DOMAIN log, NEW j \in DOMAIN log,
             Again("wakeup.queued", i, j), <<"run", log[i].run>> \notin cut
      PROVE  \E id \in DOMAIN rows["wakeups"] :
               NumberOf(log[i].run) < Triggers[id].since /\ Triggers[id].since < NumberOf(log[j].run)
  BY <1>3, <1>2 DEF WakeInv, WokenOnce, RunKey, SleptBetween, Triggers
<1>4. QED BY <1>1, <1>3 DEF DoneOnce, Again

\* With one operator an agent identity is forked once, and a sleep is woken once,
\* unless the first was cut short after its event: for every number of commands and
\* kills (runSoulFork, runSleep, runWake and queueWakeup in packages/tui/src/cli.ts,
\* which look at the row and tell of the change before they write it).
THEOREM OnceAlwaysOnce ==
  ASSUME OneOperator
  PROVE  Spec => []DoneOnce
<1> DEFINE Inv == MuteInv /\ SoulInv /\ HibInv
<1>1. Init => Inv
  BY InitMuteInv, InitSoulInv, InitHibInv
<1>2. Inv /\ [Next]_govVars => Inv'
  BY StepMuteInv, StepSoulInv, StepHibInv
<1>3. Inv => DoneOnce
  BY MuteDone, ForkDone, WakeDone DEF MuteInv, SoulInv, HibInv, OnceFamilies
<1>4. QED BY <1>1, <1>2, <1>3, PTL DEF Spec

-----------------------------------------------------------------------------
(* Rows never run ahead of the ledger, where the event comes first *)

\* What a log, a step and a plan tell: types and artifacts.
TalesOf(entries) == {<<e.type, e.ref>> : e \in Range(entries)}
Tale(s) == IF s.do = "event" THEN {<<s.entry.type, s.entry.ref>>} ELSE {}
Tales(plan) == UNION {Tale(s) : s \in Range(plan)}

CardTales(id) ==
    {<<"memory.accepted", MemoryPath("accept", id)>>,
     <<"memory.fold.accepted", <<"dream", "accept", id>>>>}
TombTale(id) == <<"memory.deleted", MemoryPath("delete", id)>>
AnchorTale(id) == <<"persona.anchor.accepted", AnchorPath("accept", id)>>
ForkTale(agent) == <<"soul.fork.created", ForkPath(agent)>>

CardTables == {"memory-cards", "memory-tombstones"}
PersonaTables == {"persona-anchors", "persona-branches", "soul-forks"}

\* A row that follows from what is told.
Follows(name, id, row, L) ==
    /\ name = "memory-cards" => CardTales(id) \cap L # {}
    /\ name = "memory-tombstones" => TombTale(id) \in L
    /\ name = "persona-anchors" => HasStatus(row) /\ (row.status = "accepted" => AnchorTale(id) \in L)
    /\ name = "persona-branches" => \A anchor \in row.anchors : AnchorTale(anchor) \in L
    /\ name = "soul-forks" => ForkTale(id) \in L

FollowsTable(name, table, L) == \A id \in DOMAIN table : Follows(name, id, table[id], L)
FollowsStep(s, L) == s.do # "cards" /\ (s.do = "edit" => FollowsTable(s.in, s.put, L))
FollowsAll(plan, L) == IsPlan(plan) /\ \A s \in Range(plan) : FollowsStep(s, L)

\* A plan of two parts: the rows of the second may follow from what the first tells.
FollowsPlan(plan, L) ==
    \E a, b : plan = a \o b /\ FollowsAll(a, L) /\ FollowsAll(b, L \cup Tales(a))

\* What is left of a command; a report of the cards writes none of these rows.
FollowsLeft(plan, L) == plan = ExplainPlan \/ FollowsPlan(plan, L)

\* A table that was read follows too, however old it is.
FollowsHeld(r, names, L) ==
    r.plan # <<>> /\ Head(r.plan).do = "edit" /\ Head(r.plan).in \in names /\ r.held # <<>> =>
      FollowsTable(Head(r.plan).in, r.held[1], L)

FollowsInv(names) ==
    /\ Shaped
    /\ IsPlan(log)
    /\ names \subseteq DOMAIN rows
    /\ \A name \in names : FollowsTable(name, rows[name], TalesOf(log))
    /\ \A q \in Procs : /\ FollowsLeft(proc[q].plan, TalesOf(log))
                        /\ FollowsHeld(proc[q], names, TalesOf(log))

CardInv == family = "memory" => FollowsInv(CardTables)
PersonaInv == family = "soul" => FollowsInv(PersonaTables)

\* What is told stays told.
LEMMA FollowsMore ==
  ASSUME NEW L, NEW M, L \subseteq M
  PROVE  /\ \A name, id, row : Follows(name, id, row, L) => Follows(name, id, row, M)
         /\ \A name, table : FollowsTable(name, table, L) => FollowsTable(name, table, M)
         /\ \A plan : FollowsAll(plan, L) => FollowsAll(plan, M)
         /\ \A plan : FollowsPlan(plan, L) => FollowsPlan(plan, M)
         /\ \A plan : FollowsLeft(plan, L) => FollowsLeft(plan, M)
         /\ \A r, names : FollowsHeld(r, names, L) => FollowsHeld(r, names, M)
<1>1. \A name, id, row : Follows(name, id, row, L) => Follows(name, id, row, M)
  BY DEF Follows
<1>2. \A name, table : FollowsTable(name, table, L) => FollowsTable(name, table, M)
  BY <1>1 DEF FollowsTable
<1>3. \A plan : FollowsAll(plan, L) => FollowsAll(plan, M)
  BY <1>2 DEF FollowsAll, FollowsStep
<1>4. \A a, name, table :
        FollowsTable(name, table, L \cup Tales(a)) => FollowsTable(name, table, M \cup Tales(a))
  <2>1. ASSUME NEW a, NEW name, NEW table, FollowsTable(name, table, L \cup Tales(a))
        PROVE  FollowsTable(name, table, M \cup Tales(a))
    <3>1. PICK S, T : S = L \cup Tales(a) /\ T = M \cup Tales(a)
      OBVIOUS
    <3>2. S \subseteq T
      BY <3>1
    <3>3. \A id, row : Follows(name, id, row, S) => Follows(name, id, row, T)
      BY <3>2 DEF Follows
    <3>4. QED BY <2>1, <3>1, <3>3 DEF FollowsTable
  <2>2. QED BY <2>1
<1>5. \A plan : FollowsPlan(plan, L) => FollowsPlan(plan, M)
  BY <1>3, <1>4 DEF FollowsPlan, FollowsAll, FollowsStep
<1>6. \A r, names : FollowsHeld(r, names, L) => FollowsHeld(r, names, M)
  BY <1>2 DEF FollowsHeld
<1>7. \A plan : FollowsLeft(plan, L) => FollowsLeft(plan, M)
  BY <1>5 DEF FollowsLeft
<1>8. QED BY <1>1, <1>2, <1>3, <1>5, <1>6, <1>7

LEMMA FollowsJoined ==
  ASSUME NEW L, NEW s, NEW t, FollowsAll(s, L), FollowsAll(t, L)
  PROVE  FollowsAll(s \o t, L)
BY Joined DEF FollowsAll

LEMMA FollowsNone ==
  ASSUME NEW L
  PROVE  FollowsAll(<<>>, L)
BY None DEF FollowsAll

LEMMA FollowsOne ==
  ASSUME NEW L, NEW a, FollowsStep(a, L)
  PROVE  FollowsAll(<<a>>, L)
BY One DEF FollowsAll

LEMMA FollowsTwo ==
  ASSUME NEW L, NEW a, NEW b, FollowsStep(a, L), FollowsStep(b, L)
  PROVE  FollowsAll(<<a, b>>, L)
BY Two DEF FollowsAll

\* Steps that write no row, and no row that has to follow.
LEMMA FollowsWrites ==
  ASSUME NEW L, NEW path, NEW value, NEW run, NEW type
  PROVE  /\ FollowsStep(Artifact(path, value), L)
         /\ FollowsStep(RunEvent(run, type, path), L)
         /\ FollowsStep(Event(type, path), L)
         /\ \A name, id : FollowsStep(DropRow(name, id), L)
BY DEF FollowsStep, FollowsTable, Artifact, RunEvent, Event, DropRow, Nothing

LEMMA FollowsUpsert ==
  ASSUME NEW L, NEW name, NEW id, NEW row, Follows(name, id, row, L)
  PROVE  FollowsStep(Upsert(name, id, row), L)
BY DEF Single, FollowsStep, FollowsTable, Upsert, UpsertAll

LEMMA FollowsBeside ==
  ASSUME NEW L, NEW name, name \notin CardTables \cup PersonaTables
  PROVE  /\ \A id, row : Follows(name, id, row, L)
         /\ \A table : FollowsTable(name, table, L)
         /\ \A id, row : FollowsStep(Upsert(name, id, row), L)
         /\ \A items : FollowsStep(UpsertAll(name, items), L)
         /\ \A path, id, row : FollowsAll(PrintJson(path, name, id, row), L)
<1>1. \A id, row : Follows(name, id, row, L)
  BY DEF Follows, CardTables, PersonaTables
<1>2. \A table : FollowsTable(name, table, L)
  BY <1>1 DEF FollowsTable
<1>3. \A items : FollowsStep(UpsertAll(name, items), L)
  BY <1>2 DEF FollowsStep, UpsertAll
<1>4. \A id, row : FollowsStep(Upsert(name, id, row), L)
  BY <1>3 DEF Upsert
<1>5. \A path, id, row : FollowsAll(PrintJson(path, name, id, row), L)
  BY <1>4, FollowsWrites, FollowsTwo DEF PrintJson
<1>6. QED BY <1>1, <1>2, <1>3, <1>4, <1>5

LEMMA FollowsRecorded ==
  ASSUME NEW L, NEW type, NEW path, NEW value
  PROVE  /\ FollowsAll(Recorded(type, path, value), L)
         /\ <<type, path>> \in Tales(Recorded(type, path, value))
BY FollowsWrites, FollowsTwo, Two DEF Recorded, Tale, Event, RunEvent, Tales

LEMMA FollowsTold ==
  ASSUME NEW L, NEW run, NEW type, NEW path
  PROVE  /\ FollowsAll(<<RunEvent(run, type, path)>>, L)
         /\ <<type, path>> \in Tales(<<RunEvent(run, type, path)>>)
BY FollowsWrites, FollowsOne, One DEF Tale, RunEvent, Tales

LEMMA TalesJoined ==
  ASSUME NEW s, NEW t, IsPlan(s), IsPlan(t)
  PROVE  Tales(s \o t) = Tales(s) \cup Tales(t)
BY Joined DEF Tales

\* Plans of one part, and of two with something before them.
LEMMA FollowsPlain ==
  ASSUME NEW L, NEW plan, FollowsAll(plan, L)
  PROVE  FollowsPlan(plan, L)
<1>1. <<>> \o plan = plan
  BY ConcatEmptySeq DEF FollowsAll, IsPlan
<1>2. FollowsAll(plan, L \cup Tales(<<>>))
  BY FollowsMore
<1>3. QED BY <1>1, <1>2, FollowsNone DEF FollowsPlan

LEMMA FollowsAfter ==
  ASSUME NEW L, NEW first, NEW plan, FollowsAll(first, L), FollowsPlan(plan, L)
  PROVE  FollowsPlan(first \o plan, L)
<1>1. PICK a, b : plan = a \o b /\ FollowsAll(a, L) /\ FollowsAll(b, L \cup Tales(a))
  BY DEF FollowsPlan
<1>2. IsPlan(first) /\ IsPlan(a) /\ IsPlan(b)
  BY <1>1 DEF FollowsAll
<1>3. first \o plan = (first \o a) \o b
  BY <1>1, <1>2, JoinedThrice
<1>4. FollowsAll(first \o a, L)
  BY <1>1, FollowsJoined
<1>5. FollowsAll(b, L \cup Tales(first \o a))
  <2>1. L \cup Tales(a) \subseteq L \cup Tales(first \o a)
    BY <1>2, TalesJoined
  <2>2. QED BY <1>1, <2>1, FollowsMore
<1>6. QED BY <1>3, <1>4, <1>5 DEF FollowsPlan

\* One step on: it tells of what it tells, and the rest follows.
LEMMA FollowsTail ==
  ASSUME NEW L, NEW plan, FollowsPlan(plan, L), plan # <<>>
  PROVE  /\ FollowsStep(Head(plan), L)
         /\ FollowsPlan(Tail(plan), L \cup Tale(Head(plan)))
<1>1. PICK a, b : plan = a \o b /\ FollowsAll(a, L) /\ FollowsAll(b, L \cup Tales(a))
  BY DEF FollowsPlan
<1>2. IsPlan(a) /\ IsPlan(b)
  BY <1>1 DEF FollowsAll
<1>3. CASE a = <<>>
  <2>1. plan = b
    BY <1>1, <1>2, <1>3, ConcatEmptySeq DEF IsPlan
  <2>2. FollowsAll(plan, L)
    BY <1>3, None, <1>1, <2>1 DEF Tales
  <2>3. FollowsStep(Head(plan), L) /\ FollowsAll(Tail(plan), L)
    BY <2>2, Left DEF FollowsAll
  <2>4. FollowsPlan(Tail(plan), L)
    BY <2>3, FollowsPlain
  <2>5. QED BY <2>3, <2>4, FollowsMore
<1>4. CASE a # <<>>
  <2> DEFINE first == Head(a)
             left == Tail(a)
             M == L \cup Tale(first)
  <2>1. FollowsStep(first, L) /\ FollowsAll(left, L) /\ IsPlan(left)
    BY <1>1, <1>4, Left DEF FollowsAll
  <2>2. a = <<first>> \o left
    BY <1>2, <1>4 DEF IsPlan
  <2>3. IsPlan(<<first>>) /\ Tales(<<first>>) = Tale(first)
    BY One DEF Tales
  <2> HIDE DEF first, left
  <2>4. Tales(a) = Tale(first) \cup Tales(left)
    BY <2>1, <2>2, <2>3, TalesJoined
  <2>5. plan = <<first>> \o (left \o b)
    BY <1>1, <2>2, <1>2, <2>1, <2>3, JoinedThrice
  <2>6. Head(plan) = first /\ Tail(plan) = left \o b
    BY <1>2, <2>1, <2>5, Joined, StepFirst
  <2>7. FollowsAll(left, M)
    <3>1. L \subseteq M
      OBVIOUS
    <3>2. QED BY <2>1, <3>1, FollowsMore
  <2>8. FollowsAll(b, M \cup Tales(left))
    <3>1. M \cup Tales(left) = L \cup Tales(a)
      BY <2>4
    <3> HIDE DEF M
    <3>2. QED BY <1>1, <3>1
  <2>9. QED BY <2>1, <2>6, <2>7, <2>8 DEF FollowsPlan
<1>5. QED BY <1>3, <1>4

\* A step of one process, after which what it holds and what it writes follows.
LEMMA FollowsNext ==
  ASSUME NEW names, FollowsInv(names), Shaped', NEW p,
         IsPlan(log'), TalesOf(log) \subseteq TalesOf(log'), DOMAIN rows' = DOMAIN rows,
         \A name \in names : FollowsTable(name, rows'[name], TalesOf(log')),
         \A q \in Procs : q # p => proc'[q] = proc[q],
         FollowsLeft(proc'[p].plan, TalesOf(log')), FollowsHeld(proc'[p], names, TalesOf(log'))
  PROVE  FollowsInv(names)'
<1>1. ASSUME NEW q \in Procs
      PROVE  /\ FollowsLeft(proc'[q].plan, TalesOf(log'))
             /\ FollowsHeld(proc'[q], names, TalesOf(log'))
  <2>1. CASE q = p
    BY <2>1
  <2>2. CASE q # p
    BY <2>2, FollowsMore DEF FollowsInv
  <2>3. QED BY <2>1, <2>2
<1>2. names \subseteq DOMAIN rows'
  BY DEF FollowsInv
<1>3. QED BY <1>1, <1>2 DEF FollowsInv

\* One that tells of nothing, reads no table and changes none of these.
LEMMA FollowsSame ==
  ASSUME NEW names, FollowsInv(names), Shaped', NEW p,
         UNCHANGED log, DOMAIN rows' = DOMAIN rows, \A name \in names : rows'[name] = rows[name],
         \A q \in Procs : q # p => proc'[q] = proc[q],
         FollowsLeft(proc'[p].plan, TalesOf(log)), FollowsHeld(proc'[p], names, TalesOf(log))
  PROVE  FollowsInv(names)'
BY FollowsNext DEF FollowsInv

LEMMA TalesAppended ==
  ASSUME NEW s, IsPlan(s), NEW e
  PROVE  /\ IsPlan(Append(s, e))
         /\ TalesOf(Append(s, e)) = TalesOf(s) \cup {<<e.type, e.ref>>}
<1> DEFINE n == Len(s) + 1
<1>1. /\ IsPlan(Append(s, e))
      /\ DOMAIN Append(s, e) = DOMAIN s \cup {n}
      /\ Append(s, e)[n] = e
      /\ \A i \in DOMAIN s : Append(s, e)[i] = s[i]
  BY AppendedLog
<1> HIDE DEF n
<1>2. Range(Append(s, e)) = Range(s) \cup {e}
  <2> DEFINE t == Append(s, e)
  <2> HIDE DEF t
  <2>1. /\ DOMAIN t = DOMAIN s \cup {n} /\ t[n] = e /\ \A i \in DOMAIN s : t[i] = s[i]
    BY <1>1 DEF t
  <2>2. Range(t) = Range(s) \cup {e}
    BY <2>1 DEF Range
  <2>3. QED BY <2>2 DEF t
<1>3. QED BY <1>1, <1>2 DEF TalesOf

\* The next step of a plan is carried out.
LEMMA FollowsAdvance ==
  ASSUME NEW names, FollowsInv(names), NEW p \in Procs, ~Idle(p), Advance(p),
         Head(proc[p].plan).do \in {"artifact", "event", "edit"}
  PROVE  LET s == Head(proc[p].plan)
         IN /\ \A q \in Procs : q # p => proc'[q] = proc[q]
            /\ FollowsStep(s, TalesOf(log))
            /\ FollowsLeft(proc'[p].plan, TalesOf(log) \cup Tale(s))
            /\ \A L : FollowsHeld(proc'[p], names, L)
<1> DEFINE s == Head(proc[p].plan)
<1>1. FollowsPlan(proc[p].plan, TalesOf(log)) /\ proc[p].plan # <<>>
  BY DEF FollowsInv, Idle, FollowsLeft, ExplainPlan
<1>2. FollowsStep(s, TalesOf(log)) /\ FollowsPlan(Tail(proc[p].plan), TalesOf(log) \cup Tale(s))
  BY <1>1, FollowsTail
<1>3. /\ \A q \in Procs : q # p => proc'[q] = proc[q]
      /\ proc'[p].plan = Tail(proc[p].plan)
      /\ proc'[p].held = <<>>
  BY DEF FollowsInv, Shaped, ProcFields, Advance
<1> HIDE DEF s
<1>4. \A L : FollowsHeld(proc'[p], names, L)
  BY <1>3 DEF FollowsHeld
<1>5. QED BY <1>2, <1>3, <1>4 DEF s, FollowsLeft

LEMMA FollowsWritten ==
  ASSUME NEW names, FollowsInv(names), Shaped', NEW p \in Procs, Write(p)
  PROVE  FollowsInv(names)'
<1> DEFINE s == Head(proc[p].plan)
           L == TalesOf(log)
<1>1. CASE StoreArtifact(p)
  <2>1. ~Idle(p) /\ Advance(p) /\ s.do = "artifact" /\ UNCHANGED <<rows, log>>
    BY <1>1 DEF StoreArtifact, AtStep
  <2>2. /\ \A q \in Procs : q # p => proc'[q] = proc[q]
        /\ FollowsLeft(proc'[p].plan, L \cup Tale(s))
        /\ FollowsHeld(proc'[p], names, L)
    BY <2>1, FollowsAdvance
  <2>3. Tale(s) = {}
    BY <2>1 DEF Tale
  <2> HIDE DEF s, L
  <2>4. FollowsLeft(proc'[p].plan, L)
    <3>1. L \cup Tale(s) = L
      BY <2>3
    <3>2. QED BY <2>2, <3>1
  <2>5. QED BY <2>1, <2>2, <2>4, FollowsSame DEF L
<1>2. CASE AppendEvent(p)
  <2>1. ~Idle(p) /\ Advance(p) /\ s.do = "event" /\ UNCHANGED rows /\ log' = Append(log, s.entry)
    BY <1>2 DEF AppendEvent, AtStep
  <2>2. /\ \A q \in Procs : q # p => proc'[q] = proc[q]
        /\ FollowsLeft(proc'[p].plan, L \cup Tale(s))
        /\ FollowsHeld(proc'[p], names, L \cup Tale(s))
    BY <2>1, FollowsAdvance
  <2>3. IsPlan(log)
    BY DEF FollowsInv
  <2> HIDE DEF s, L
  <2>4. IsPlan(log') /\ TalesOf(log') = L \cup Tale(s)
    BY <2>1, <2>3, TalesAppended DEF Tale, L
  <2>5. L \subseteq TalesOf(log')
    BY <2>4
  <2>6. \A name \in names : FollowsTable(name, rows[name], L)
    BY DEF FollowsInv, L
  <2>7. \A name \in names : FollowsTable(name, rows'[name], TalesOf(log'))
    BY <2>1, <2>5, <2>6, FollowsMore
  <2>8. /\ FollowsLeft(proc'[p].plan, TalesOf(log'))
        /\ FollowsHeld(proc'[p], names, TalesOf(log'))
    BY <2>2, <2>4
  <2>9. QED BY <2>1, <2>2, <2>4, <2>5, <2>7, <2>8, FollowsNext DEF L
<1>3. CASE ReadTable(p)
  <2>1. s.do = "edit" /\ UNCHANGED <<rows, log>> /\ proc[p].plan # <<>>
    BY <1>3 DEF ReadTable, AtStep, Idle, files
  <2>2. /\ \A q \in Procs : q # p => proc'[q] = proc[q]
        /\ proc'[p].plan = proc[p].plan
        /\ proc'[p].held = <<rows[s.in]>>
    BY <1>3 DEF FollowsInv, Shaped, ProcFields, ReadTable
  <2>3. FollowsLeft(proc'[p].plan, L)
    BY <2>2 DEF FollowsInv
  <2>4. s.in \in names => FollowsTable(s.in, rows[s.in], L)
    BY DEF FollowsInv
  <2> HIDE DEF L
  <2>5. FollowsHeld(proc'[p], names, L)
    BY <2>2, <2>4 DEF FollowsHeld
  <2>6. QED BY <2>1, <2>2, <2>3, <2>5, FollowsSame DEF L
<1>4. CASE WriteTable(p)
  <2> DEFINE table == proc[p].held[1]
  <2>1. /\ ~Idle(p) /\ Advance(p) /\ s.do = "edit" /\ proc[p].held # <<>> /\ UNCHANGED log
        /\ rows' = [rows EXCEPT ![s.in] = Edited(table, s)]
    BY <1>4 DEF WriteTable, AtStep
  <2>2. /\ \A q \in Procs : q # p => proc'[q] = proc[q]
        /\ FollowsStep(s, L)
        /\ FollowsLeft(proc'[p].plan, L \cup Tale(s))
        /\ FollowsHeld(proc'[p], names, L)
    BY <2>1, FollowsAdvance
  <2>3. Tale(s) = {}
    BY <2>1 DEF Tale
  <2>4. FollowsHeld(proc[p], names, L) /\ names \subseteq DOMAIN rows
    BY DEF FollowsInv
  <2>5. s.in \in names => FollowsTable(s.in, table, L)
    BY <2>1, <2>4 DEF FollowsHeld, Idle
  <2>6. FollowsTable(s.in, s.put, L)
    BY <2>1, <2>2 DEF FollowsStep
  <2>7. \A name \in names : FollowsTable(name, rows[name], L)
    BY DEF FollowsInv
  <2> HIDE DEF s, L, table
  <2>8. s.in \in names => FollowsTable(s.in, Edited(table, s), L)
    <3>1. ASSUME s.in \in names, NEW id \in DOMAIN Edited(table, s)
          PROVE  Follows(s.in, id, Edited(table, s)[id], L)
      <4>1. \/ id \in DOMAIN s.put /\ Edited(table, s)[id] = s.put[id]
            \/ id \in DOMAIN table /\ Edited(table, s)[id] = table[id]
        <5>1. /\ DOMAIN Edited(table, s) = DOMAIN s.put \cup (DOMAIN table \ s.drop)
              /\ \A x \in DOMAIN s.put : Edited(table, s)[x] = s.put[x]
              /\ \A x \in DOMAIN table \ (s.drop \cup DOMAIN s.put) : Edited(table, s)[x] = table[x]
          BY EditedTable, ZenonT(30)
        <5>2. QED BY <3>1, <5>1
      <4>2. \A x \in DOMAIN s.put : Follows(s.in, x, s.put[x], L)
        BY <2>6 DEF FollowsTable
      <4>3. \A x \in DOMAIN table : Follows(s.in, x, table[x], L)
        BY <2>5, <3>1 DEF FollowsTable
      <4>4. QED BY <4>1, <4>2, <4>3
    <3>2. QED BY <3>1 DEF FollowsTable
  <2>9. /\ DOMAIN rows' = DOMAIN rows
        /\ \A name \in names : rows'[name] = IF name = s.in THEN Edited(table, s) ELSE rows[name]
    BY <2>1, <2>4
  <2>10. \A name \in names : FollowsTable(name, rows'[name], L)
    BY <2>7, <2>8, <2>9
  <2>11. L \cup Tale(s) = L
    BY <2>3
  <2>12. FollowsLeft(proc'[p].plan, L)
    BY <2>2, <2>11
  <2>13. IsPlan(log') /\ TalesOf(log') = L
    BY <2>1 DEF FollowsInv, L
  <2>14. L \subseteq TalesOf(log')
    BY <2>13
  <2>15. QED
    BY <2>2, <2>9, <2>10, <2>12, <2>13, <2>14, FollowsNext DEF L
<1>5. QED BY <1>1, <1>2, <1>3, <1>4 DEF Write

LEMMA FollowsDies ==
  ASSUME NEW names, FollowsInv(names), Shaped', NEW p \in Procs, Kill(p)
  PROVE  FollowsInv(names)'
<1>1. /\ UNCHANGED <<rows, log>>
      /\ \A q \in Procs : q # p => proc'[q] = proc[q]
      /\ proc'[p].plan = <<>>
  BY DEF FollowsInv, Shaped, Kill, CutShort, IdleProc, files
<1>2. FollowsLeft(proc'[p].plan, TalesOf(log)) /\ FollowsHeld(proc'[p], names, TalesOf(log))
  BY <1>1, FollowsNone, FollowsPlain DEF FollowsHeld, FollowsLeft
<1>3. QED BY <1>1, <1>2, FollowsSame

\* A plan that follows from what is told when the command begins.
FollowsBegins(p) == \E plan : FollowsPlan(plan, TalesOf(log)) /\ Begin(p, plan)

LEMMA FollowsBegun ==
  ASSUME NEW names, FollowsInv(names), Shaped', NEW p, FollowsBegins(p)
  PROVE  FollowsInv(names)'
<1>1. PICK plan : FollowsPlan(plan, TalesOf(log)) /\ Begin(p, plan)
  BY DEF FollowsBegins
<1>2. /\ UNCHANGED <<rows, log>>
      /\ p \in Procs
      /\ \A q \in Procs : q # p => proc'[q] = proc[q]
      /\ proc'[p].plan = plan /\ proc'[p].held = <<>>
  BY <1>1 DEF FollowsInv, Shaped, Begin, BeginWith, StartPlan, Procs, files
<1>3. FollowsLeft(proc'[p].plan, TalesOf(log)) /\ FollowsHeld(proc'[p], names, TalesOf(log))
  BY <1>1, <1>2 DEF FollowsHeld, FollowsLeft
<1>4. QED BY <1>2, <1>3, FollowsSame

-----------------------------------------------------------------------------
(* Cards and tombstones are in the ledger at every moment *)

LEMMA FollowsSecond ==
  ASSUME NEW L, NEW a, NEW b, FollowsAll(a, L), FollowsAll(b, L \cup Tales(a))
  PROVE  FollowsPlan(a \o b, L)
BY DEF FollowsPlan

LEMMA FollowsCards ==
  ASSUME NEW L, NEW id
  PROVE  /\ CardTales(id) \cap L # {} => \A card : FollowsStep(Upsert("memory-cards", id, card), L)
         /\ TombTale(id) \in L => \A tomb : FollowsStep(Upsert("memory-tombstones", id, tomb), L)
BY FollowsUpsert DEF Follows

BesideCards == {"memory-candidates", "memory-folds", "context-packs", "user-models", "episodic-timelines"}

LEMMA CardsBeside ==
  ASSUME NEW L, NEW name \in BesideCards
  PROVE  /\ \A id, row : FollowsStep(Upsert(name, id, row), L)
         /\ \A items : FollowsStep(UpsertAll(name, items), L)
         /\ \A path, id, row : FollowsAll(PrintJson(path, name, id, row), L)
BY FollowsBeside DEF BesideCards, CardTables, PersonaTables

LEMMA FollowsDerived ==
  ASSUME NEW L
  PROVE  FollowsAll(DerivePlan, L)
BY FollowsRecorded, FollowsNone, CardsBeside, FollowsOne, FollowsJoined
DEF CandidateRecord, BesideCards, DerivePlan

LEMMA FollowsAccepted ==
  ASSUME NEW L, NEW id, NEW candidate
  PROVE  FollowsPlan(AcceptCandidatePlan(id, candidate), L)
<1> DEFINE card == CardOf(id, candidate)
           told == Recorded("memory.accepted", MemoryPath("accept", id), card)
           reviewed == Upsert("memory-candidates", id, ReviewedCandidate(candidate))
           put == Upsert("memory-cards", id, card)
           M == L \cup Tales(told)
<1>1. FollowsAll(told, L) /\ <<"memory.accepted", MemoryPath("accept", id)>> \in Tales(told)
  BY FollowsRecorded
<1>2. CardTales(id) \cap M # {}
  BY <1>1 DEF CardTales
<1>3. AcceptCandidatePlan(id, candidate) = told \o <<reviewed, put>>
  BY DEF AcceptCandidatePlan
<1> HIDE DEF told, card, M
<1>4. FollowsStep(reviewed, M) /\ FollowsStep(put, M)
  BY <1>2, CardsBeside, FollowsCards DEF BesideCards
<1> HIDE DEF reviewed, put
<1>5. FollowsAll(<<reviewed, put>>, M)
  BY <1>4, FollowsTwo
<1>6. QED BY <1>1, <1>3, <1>5, FollowsSecond DEF M

LEMMA FollowsDeleted ==
  ASSUME NEW L, NEW id, NEW tombstone
  PROVE  FollowsPlan(DeletePlan(id, tombstone), L)
<1> DEFINE told == Recorded("memory.deleted", MemoryPath("delete", id), tombstone)
           drop == DropRow("memory-cards", id)
           put == Upsert("memory-tombstones", id, tombstone)
           M == L \cup Tales(told)
<1>1. FollowsAll(told, L) /\ <<"memory.deleted", MemoryPath("delete", id)>> \in Tales(told)
  BY FollowsRecorded
<1>2. TombTale(id) \in M
  BY <1>1 DEF TombTale
<1>3. DeletePlan(id, tombstone) = told \o <<drop, put>>
  BY DEF DeletePlan
<1> HIDE DEF told, M
<1>4. FollowsStep(drop, M) /\ FollowsStep(put, M)
  BY <1>2, FollowsWrites, FollowsCards
<1> HIDE DEF drop, put
<1>5. FollowsAll(<<drop, put>>, M)
  BY <1>4, FollowsTwo
<1>6. QED BY <1>1, <1>3, <1>5, FollowsSecond DEF M

LEMMA FollowsDreamt ==
  ASSUME NEW L, NEW id, NEW memory, NEW row
  PROVE  LET path == <<"dream", "accept", id>>
         IN FollowsPlan(<<Event("memory.fold.accepted", path), Upsert("memory-cards", id, memory)>>
                        \o PrintJson(path, "memory-folds", id, row), L)
<1> DEFINE path == <<"dream", "accept", id>>
           event == Event("memory.fold.accepted", path)
           put == Upsert("memory-cards", id, memory)
           printed == PrintJson(path, "memory-folds", id, row)
           M == L \cup Tales(<<event>>)
<1>1. FollowsAll(<<event>>, L) /\ <<"memory.fold.accepted", path>> \in Tales(<<event>>)
  BY FollowsTold DEF Event
<1>2. CardTales(id) \cap M # {}
  BY <1>1 DEF CardTales
<1>3. <<event, put>> = <<event>> \o <<put>>
  OBVIOUS
<1> HIDE DEF event, M
<1>4. FollowsAll(<<put>>, M)
  BY <1>2, FollowsCards, FollowsOne
<1>5. FollowsAll(printed, M)
  BY CardsBeside DEF BesideCards
<1> HIDE DEF put, printed, path
<1>6. FollowsAll(<<put>> \o printed, M)
  BY <1>4, <1>5, FollowsJoined
<1>7. FollowsPlan(<<event>> \o (<<put>> \o printed), L)
  BY <1>1, <1>6, FollowsSecond DEF M
<1>8. (<<event>> \o <<put>>) \o printed = <<event>> \o (<<put>> \o printed)
  BY <1>1, <1>4, <1>5, JoinedThrice DEF FollowsAll
<1>9. FollowsPlan(<<event, put>> \o printed, L)
  BY <1>3, <1>7, <1>8
<1>10. QED BY <1>9 DEF event, put, printed, path

LEMMA MemoryFollows ==
  ASSUME FollowsInv(CardTables), NEW p, MemoryCommand(p)
  PROVE  FollowsBegins(p)
<1> DEFINE L == TalesOf(log)
<1> HIDE DEF L
<1>1. ASSUME NEW plan, Begin(p, plan), FollowsPlan(plan, L) \/ FollowsAll(plan, L)
      PROVE  FollowsBegins(p)
  BY <1>1, FollowsPlain DEF FollowsBegins, L
<1>2. CASE DeriveCandidates(p)
  BY <1>1, <1>2, FollowsDerived DEF DeriveCandidates
<1>3. CASE EnsureEpisode(p)
  <2> DEFINE candidate == Derived["episode"]
             accepts == AcceptCandidatePlan("episode", candidate)
  <2>1. Begin(p, DerivePlan \o accepts)
    BY <1>3 DEF EnsureEpisode
  <2> HIDE DEF candidate
  <2>2. FollowsPlan(accepts, L) /\ FollowsAll(DerivePlan, L)
    BY FollowsAccepted, FollowsDerived
  <2> HIDE DEF accepts
  <2>3. FollowsPlan(DerivePlan \o accepts, L)
    BY <2>2, FollowsAfter
  <2>4. QED BY <1>1, <2>1, <2>3
<1>4. ASSUME NEW type, NEW path, NEW value, NEW id, NEW row,
             Begin(p, Recorded(type, path, value) \o <<Upsert("memory-candidates", id, row)>>)
      PROVE  FollowsBegins(p)
  BY CardsBeside, FollowsOne, FollowsRecorded, FollowsJoined, <1>1, <1>4 DEF BesideCards
<1>5. ASSUME NEW content, ProposeCandidate(p, content)
      PROVE  FollowsBegins(p)
  BY <1>4, <1>5 DEF ProposeCandidate
<1>6. ASSUME NEW id, RejectMemory(p, id)
      PROVE  FollowsBegins(p)
  BY <1>4, <1>6 DEF RejectMemory
<1>7. ASSUME NEW id, AcceptMemory(p, id) \/ DeleteMemory(p, id)
      PROVE  FollowsBegins(p)
  BY <1>1, <1>7, FollowsAccepted, FollowsDeleted DEF AcceptMemory, DeleteMemory
<1>8. ASSUME NEW id \in DOMAIN rows["memory-cards"], NEW context, BlockMemory(p, id, context)
      PROVE  FollowsBegins(p)
  <2>1. CardTales(id) \cap L # {}
    BY DEF FollowsInv, FollowsTable, Follows, CardTables, L
  <2> DEFINE row == [rows["memory-cards"][id] EXCEPT !.blocked = @ \cup {context}]
             told == Recorded("memory.blocked", MemoryPath("block", id), row)
             put == Upsert("memory-cards", id, row)
  <2>2. Begin(p, told \o <<put>>)
    BY <1>8 DEF BlockMemory
  <2> HIDE DEF row
  <2>3. FollowsAll(told, L) /\ FollowsStep(put, L)
    BY <2>1, FollowsRecorded, FollowsCards
  <2> HIDE DEF told, put
  <2>4. FollowsAll(told \o <<put>>, L)
    BY <2>3, FollowsOne, FollowsJoined
  <2>5. QED BY <1>1, <2>2, <2>4
<1>9. ASSUME NEW type, NEW path, NEW id, NEW row,
             Begin(p, <<Event(type, path)>> \o PrintJson(path, "memory-folds", id, row))
      PROVE  FollowsBegins(p)
  BY CardsBeside, FollowsWrites, FollowsOne, FollowsJoined, <1>1, <1>9 DEF BesideCards
<1>10. CASE DreamRun(p)
  BY <1>9, <1>10 DEF DreamRun
<1>11. ASSUME NEW id, DreamReject(p, id)
       PROVE  FollowsBegins(p)
  BY <1>9, <1>11 DEF DreamReject
<1>12. ASSUME NEW id, NEW yes, DreamAccept(p, id, yes)
       PROVE  FollowsBegins(p)
  <2> DEFINE path == <<"dream", "accept", id>>
  <2>1. \E memory, row :
          Begin(p, <<Event("memory.fold.accepted", path), Upsert("memory-cards", id, memory)>>
                   \o PrintJson(path, "memory-folds", id, row))
    BY <1>12, Zenon DEF DreamAccept
  <2>2. QED BY <1>1, <2>1, FollowsDreamt
<1>13. QED
  BY <1>2, <1>3, <1>5, <1>6, <1>7, <1>8, <1>10, <1>11, <1>12 DEF MemoryCommand

\* The reports write beside the cards and the tombstones.
LEMMA MemoryReports ==
  ASSUME FollowsInv(CardTables), Shaped', NEW p \in Procs, MemoryStep(p), ~MemoryCommand(p)
  PROVE  FollowsInv(CardTables)'
<1> DEFINE pack == [do |-> "pack"]
<1>1. \A L : FollowsLeft(<<pack>>, L) /\ FollowsLeft(<<>>, L)
  <2>1. \A L : FollowsStep(pack, L)
    BY DEF FollowsStep
  <2> HIDE DEF pack
  <2>2. QED BY <2>1, FollowsOne, FollowsNone, FollowsPlain DEF FollowsLeft
<1>2. ASSUME NEW path, NEW name \in BesideCards, NEW id, NEW row, WritesReport(path, name, id, row)
      PROVE  DOMAIN rows' = DOMAIN rows /\ \A n \in CardTables : rows'[n] = rows[n]
  BY <1>2 DEF BesideCards, CardTables, FollowsInv, WritesReport
<1>3. CASE ExplainContext(p)
  <2>1. \E view : BeginReport(p, ExplainPlan, view)
    BY <1>3 DEF ExplainContext, ExplainPlan
  <2>2. /\ UNCHANGED <<rows, log>>
        /\ \A q \in Procs : q # p => proc'[q] = proc[q]
        /\ proc'[p].plan = ExplainPlan /\ proc'[p].held = <<>>
    BY <2>1 DEF FollowsInv, Shaped, BeginReport, StartPlan, files
  <2>3. FollowsLeft(proc'[p].plan, TalesOf(log))
    BY <2>2 DEF FollowsLeft
  <2>4. FollowsHeld(proc'[p], CardTables, TalesOf(log))
    BY <2>2 DEF FollowsHeld
  <2>5. QED BY <2>2, <2>3, <2>4, FollowsSame
<1>4. CASE LookAtCards(p)
  <2>1. /\ UNCHANGED <<rows, log>>
        /\ \A q \in Procs : q # p => proc'[q] = proc[q]
        /\ proc'[p].plan = Tail(proc[p].plan)
        /\ proc[p].plan # <<>> /\ Head(proc[p].plan).do = "cards"
    BY <1>4 DEF FollowsInv, Shaped, ProcFields, LookAtCards, AtStep, Idle, files
  <2>2. ~FollowsPlan(proc[p].plan, TalesOf(log))
    BY <2>1, FollowsTail DEF FollowsStep
  <2>3. proc[p].plan = ExplainPlan
    BY <2>2 DEF FollowsInv, FollowsLeft
  <2>4. proc'[p].plan = <<pack>>
    BY <2>1, <2>3 DEF ExplainPlan
  <2>5. FollowsHeld(proc'[p], CardTables, TalesOf(log))
    BY <2>4 DEF FollowsHeld
  <2> HIDE DEF pack
  <2>6. QED BY <1>1, <2>1, <2>4, <2>5, FollowsSame
<1>5. CASE PackContext(p)
  <2>1. /\ UNCHANGED log
        /\ \A q \in Procs : q # p => proc'[q] = proc[q]
        /\ proc'[p].plan = <<>>
    BY <1>5 DEF FollowsInv, Shaped, ProcFields, PackContext
  <2>2. \E row : WritesReport(<<"context", "explain", "ctx">>, "context-packs", "ctx", row)
    BY <1>5 DEF PackContext
  <2>3. DOMAIN rows' = DOMAIN rows /\ \A n \in CardTables : rows'[n] = rows[n]
    BY <1>2, <2>2 DEF BesideCards
  <2>4. FollowsLeft(proc'[p].plan, TalesOf(log))
    BY <1>1, <2>1
  <2>5. FollowsHeld(proc'[p], CardTables, TalesOf(log))
    BY <2>1 DEF FollowsHeld
  <2>6. QED BY <2>1, <2>3, <2>4, <2>5, FollowsSame
<1>6. CASE UserModel(p) \/ Timeline(p)
  <2>1. \E name \in BesideCards : \E path, id, row : Report(p, path, name, id, row)
    <3>1. "user-models" \in BesideCards /\ "episodic-timelines" \in BesideCards
      BY DEF BesideCards
    <3>2. UserModel(p) => \E path, id, row : Report(p, path, "user-models", id, row)
      BY Zenon DEF UserModel
    <3>3. Timeline(p) => \E path, id, row : Report(p, path, "episodic-timelines", id, row)
      BY Zenon DEF Timeline
    <3>4. QED BY <1>6, <3>1, <3>2, <3>3
  <2> PICK name \in BesideCards : \E path, id, row : Report(p, path, name, id, row)
    BY <2>1
  <2> PICK path, id, row : Report(p, path, name, id, row)
    OBVIOUS
  <2>2. WritesReport(path, name, id, row) /\ UNCHANGED <<log, proc>>
    BY DEF Report
  <2>3. DOMAIN rows' = DOMAIN rows /\ \A n \in CardTables : rows'[n] = rows[n]
    BY <1>2, <2>2
  <2>4. FollowsLeft(proc'[p].plan, TalesOf(log)) /\ FollowsHeld(proc'[p], CardTables, TalesOf(log))
    BY <2>2 DEF FollowsInv
  <2>5. QED BY <2>2, <2>3, <2>4, FollowsSame
<1>7. QED BY <1>3, <1>4, <1>5, <1>6 DEF MemoryStep

\* Time that passes.
LEMMA FollowsWaits ==
  ASSUME NEW names, FollowsInv(names), UNCHANGED govVars
  PROVE  FollowsInv(names)'
BY DEF FollowsInv, Shaped, govVars, files

LEMMA StepCardInv == CardInv /\ [Next]_govVars => CardInv'
<1> SUFFICES ASSUME CardInv, [Next]_govVars, family' = "memory" PROVE FollowsInv(CardTables)'
  BY DEF CardInv
<1>1. family = "memory" /\ FollowsInv(CardTables) /\ Shaped'
  BY NextMoves DEF Moves, CardInv, FollowsInv
<1>2. ASSUME NEW p \in Procs, MemoryStep(p)
      PROVE  FollowsInv(CardTables)'
  BY <1>1, <1>2, MemoryFollows, FollowsBegun, MemoryReports
<1>3. ASSUME NEW p \in Procs, Write(p) \/ Kill(p)
      PROVE  FollowsInv(CardTables)'
  BY <1>1, <1>3, FollowsWritten, FollowsDies
<1>4. QED BY <1>1, <1>2, <1>3, FollowsWaits DEF Next, FamilyStep

-----------------------------------------------------------------------------
(* Personas and forks are in the ledger at every moment *)

BesidePersonas == {"persona-states", "persona-resets", "inheritance-policies", "replay-records"}

LEMMA PersonasBeside ==
  ASSUME NEW L, NEW name \in BesidePersonas
  PROVE  /\ \A id, row : FollowsStep(Upsert(name, id, row), L)
         /\ \A path, id, row : FollowsAll(PrintJson(path, name, id, row), L)
BY FollowsBeside DEF BesidePersonas, CardTables, PersonaTables

\* What the tables of the persona ask of a row.
LEMMA FollowsPersona ==
  ASSUME NEW L, NEW id, NEW row
  PROVE  /\ Follows("persona-anchors", id, row, L) <=>
              HasStatus(row) /\ (row.status = "accepted" => AnchorTale(id) \in L)
         /\ Follows("persona-branches", id, row, L) <=>
              \A anchor \in row.anchors : AnchorTale(anchor) \in L
         /\ Follows("soul-forks", id, row, L) <=> ForkTale(id) \in L
BY DEF Follows

\* An anchor that is printed follows.
LEMMA FollowsPrinted ==
  ASSUME NEW L, NEW path, NEW name, NEW id, NEW row, Follows(name, id, row, L)
  PROVE  FollowsAll(PrintJson(path, name, id, row), L)
BY FollowsWrites, FollowsUpsert, FollowsTwo DEF PrintJson

\* The anchors of a branch are the accepted ones, the one under review included.
LEMMA FollowsBranch ==
  ASSUME NEW L, NEW table, FollowsTable("persona-anchors", table, L), NEW id, NEW row,
         NEW M, L \subseteq M, AnchorTale(id) \in M
  PROVE  Follows("persona-branches", "default", BranchOf(Over(Single(id, row), table)), M)
<1> DEFINE over == Over(Single(id, row), table)
           branch == BranchOf(over)
<1>1. /\ DOMAIN over = {id} \cup DOMAIN table
      /\ \A x \in DOMAIN table \ {id} : over[x] = table[x]
  BY DEF Over, Single
<1> HIDE DEF over
<1>2. branch.anchors = {x \in DOMAIN over : over[x].status = "accepted"}
  BY DEF BranchOf
<1>3. ASSUME NEW anchor \in branch.anchors
      PROVE  AnchorTale(anchor) \in M
  <2>1. CASE anchor = id
    BY <2>1
  <2>2. CASE anchor # id
    BY <1>1, <1>2, <2>2, FollowsPersona DEF FollowsTable
  <2>3. QED BY <2>1, <2>2
<1> HIDE DEF branch
<1>4. Follows("persona-branches", "default", branch, M)
  BY <1>3, FollowsPersona
<1>5. QED BY <1>4 DEF branch, over

LEMMA FollowsAnchored ==
  ASSUME NEW L, NEW table, FollowsTable("persona-anchors", table, L), NEW id, NEW accepted,
         HasStatus(accepted)
  PROVE  FollowsPlan(AcceptPlan(id, accepted, BranchOf(Over(Single(id, accepted), table))), L)
<1> DEFINE path == AnchorPath("accept", id)
           branch == BranchOf(Over(Single(id, accepted), table))
           event == Event("persona.anchor.accepted", path)
           put == Upsert("persona-branches", "default", branch)
           printed == PrintJson(path, "persona-anchors", id, accepted)
           M == L \cup Tales(<<event>>)
<1>1. FollowsAll(<<event>>, L) /\ <<"persona.anchor.accepted", path>> \in Tales(<<event>>)
  BY FollowsTold DEF Event
<1>2. AnchorTale(id) \in M /\ L \subseteq M
  BY <1>1 DEF AnchorTale
<1>3. <<event, put>> = <<event>> \o <<put>>
  OBVIOUS
<1> HIDE DEF event, M
<1>4. FollowsAll(<<put>>, M)
  BY <1>2, FollowsBranch, FollowsUpsert, FollowsOne
<1>5. FollowsAll(printed, M)
  BY <1>2, FollowsPersona, FollowsPrinted
<1>6. AcceptPlan(id, accepted, branch) = <<event, put>> \o printed
  BY DEF AcceptPlan, event
<1> HIDE DEF put, printed, path, branch
<1>7. FollowsAll(<<put>> \o printed, M)
  BY <1>4, <1>5, FollowsJoined
<1>8. FollowsPlan(<<event>> \o (<<put>> \o printed), L)
  BY <1>1, <1>7, FollowsSecond DEF M
<1>9. (<<event>> \o <<put>>) \o printed = <<event>> \o (<<put>> \o printed)
  BY <1>1, <1>4, <1>5, JoinedThrice DEF FollowsAll
<1>10. FollowsPlan(AcceptPlan(id, accepted, branch), L)
  BY <1>3, <1>6, <1>8, <1>9
<1>11. QED BY <1>10 DEF branch

LEMMA FollowsForked ==
  ASSUME NEW L, NEW agent, NEW run, NEW row
  PROVE  FollowsPlan(<<RunEvent(run, "soul.fork.created", ForkPath(agent))>>
                     \o PrintJson(ForkPath(agent), "soul-forks", agent, row), L)
<1> DEFINE event == RunEvent(run, "soul.fork.created", ForkPath(agent))
           printed == PrintJson(ForkPath(agent), "soul-forks", agent, row)
           M == L \cup Tales(<<event>>)
<1>1. FollowsAll(<<event>>, L) /\ <<"soul.fork.created", ForkPath(agent)>> \in Tales(<<event>>)
  BY FollowsTold
<1>2. ForkTale(agent) \in M
  BY <1>1 DEF ForkTale
<1> HIDE DEF event, M
<1>3. FollowsAll(printed, M)
  BY <1>2, FollowsPersona, FollowsPrinted
<1> HIDE DEF printed
<1>4. QED BY <1>1, <1>3, FollowsSecond DEF M, event, printed

LEMMA SoulFollows ==
  ASSUME FollowsInv(PersonaTables), NEW p, SoulStep(p)
  PROVE  FollowsBegins(p)
<1> DEFINE L == TalesOf(log)
<1>1. FollowsTable("persona-anchors", PersonaTable, L)
  BY DEF FollowsInv, PersonaTables, PersonaTable
<1>2. ASSUME NEW id \in DOMAIN PersonaTable
      PROVE  HasStatus(PersonaTable[id])
  BY <1>1, FollowsPersona DEF FollowsTable
<1> HIDE DEF L
<1>3. ASSUME NEW plan, Begin(p, plan), FollowsPlan(plan, L) \/ FollowsAll(plan, L)
      PROVE  FollowsBegins(p)
  BY <1>3, FollowsPlain DEF FollowsBegins, L
<1>4. ASSUME NEW type, NEW path, NEW id, NEW row, HasStatus(row), row.status # "accepted",
             Begin(p, <<Event(type, path)>> \o PrintJson(path, "persona-anchors", id, row))
      PROVE  FollowsBegins(p)
  <2>1. FollowsAll(PrintJson(path, "persona-anchors", id, row), L)
    BY <1>4, FollowsPersona, FollowsPrinted
  <2>2. FollowsAll(<<Event(type, path)>>, L)
    BY FollowsWrites, FollowsOne
  <2>3. FollowsAll(<<Event(type, path)>> \o PrintJson(path, "persona-anchors", id, row), L)
    BY <2>1, <2>2, FollowsJoined
  <2>4. QED BY <1>3, <1>4, <2>3
<1>5. ASSUME NEW id, NEW s, ProposeAnchor(p, id, s)
      PROVE  FollowsBegins(p)
  <2> DEFINE anchor == [status |-> "pending", sensitive |-> s, approved |-> FALSE]
             path == AnchorPath("propose", id)
  <2>1. Begin(p, <<Event("persona.anchor.proposed", path)>>
                 \o PrintJson(path, "persona-anchors", id, anchor))
    BY <1>5 DEF ProposeAnchor
  <2>2. HasStatus(anchor) /\ anchor.status # "accepted"
    BY DEF HasStatus
  <2> HIDE DEF anchor, path
  <2>3. QED BY <1>4, <2>1, <2>2
<1>6. ASSUME NEW id, RejectAnchor(p, id)
      PROVE  FollowsBegins(p)
  <2> DEFINE path == AnchorPath("reject", id)
             row == [PersonaTable[id] EXCEPT !.status = "rejected"]
  <2>1. /\ Begin(p, <<Event("persona.anchor.rejected", path)>>
                    \o PrintJson(path, "persona-anchors", id, row))
        /\ id \in DOMAIN PersonaTable
    BY <1>6 DEF RejectAnchor
  <2>2. HasStatus(row) /\ row.status # "accepted"
    BY <1>2, <2>1 DEF HasStatus
  <2> HIDE DEF row, path
  <2>3. QED BY <1>4, <2>1, <2>2
<1>7. ASSUME NEW id, NEW yes, AcceptAnchor(p, id, yes)
      PROVE  FollowsBegins(p)
  <2> DEFINE row == PersonaTable[id]
             accepted == [row EXCEPT !.status = "accepted", !.approved = @ \/ row.sensitive]
             plan == AcceptPlan(id, accepted, BranchOf(Over(Single(id, accepted), PersonaTable)))
  <2>1. id \in DOMAIN PersonaTable /\ Begin(p, plan)
    BY <1>7 DEF AcceptAnchor
  <2>2. HasStatus(accepted)
    BY <1>2, <2>1 DEF HasStatus
  <2> HIDE DEF accepted
  <2>3. FollowsPlan(plan, L)
    BY <1>1, <2>2, FollowsAnchored
  <2>4. QED BY <1>3, <2>1, <2>3
<1>8. CASE ListAnchors(p)
  <2> DEFINE file == Artifact(AnchorPath("list", "list"), PersonaTable)
             edit == UpsertAll("persona-anchors", PersonaTable)
  <2>1. Begin(p, <<file, edit>>)
    BY <1>8 DEF ListAnchors
  <2>2. FollowsStep(file, L)
    BY FollowsWrites
  <2>3. FollowsStep(edit, L)
    BY <1>1 DEF FollowsStep, UpsertAll
  <2> HIDE DEF file, edit
  <2>4. QED BY <1>3, <2>1, <2>2, <2>3, FollowsTwo
<1>9. CASE ResetPersona(p)
  <2> DEFINE path == <<"persona", "reset", NewId("reset")>>
             event == Event("persona.reset.applied", path)
             put(active) == Upsert("persona-states", "local", [anchors |-> active])
             printed(reset) == PrintJson(path, "persona-resets", NewId("reset"), reset)
  <2>1. \E active, reset : Begin(p, <<event, put(active)>> \o printed(reset))
    BY <1>9, Zenon DEF ResetPersona
  <2>2. FollowsStep(event, L) /\ \A active : FollowsStep(put(active), L)
    BY FollowsWrites, PersonasBeside DEF BesidePersonas
  <2>3. \A reset : FollowsAll(printed(reset), L)
    BY PersonasBeside DEF BesidePersonas
  <2> HIDE DEF event, put, printed
  <2>4. PICK active, reset : Begin(p, <<event, put(active)>> \o printed(reset))
    BY <2>1
  <2>5. FollowsAll(<<event, put(active)>> \o printed(reset), L)
    BY <2>2, <2>3, FollowsTwo, FollowsJoined
  <2>6. QED BY <1>3, <2>4, <2>5
<1>10. ASSUME NEW agent, NEW yes, ForkSoul(p, agent, yes)
       PROVE  FollowsBegins(p)
  <2> DEFINE record == [status |-> "passed"]
             file == Artifact(<<"replay", "run", "checkpoint">>, record)
             replayed == Upsert("replay-records", "checkpoint", record)
             policy == Upsert("inheritance-policies", "default", [default |-> "private"])
             first == <<file, replayed, policy>>
             forks == <<RunEvent(NewRun, "soul.fork.created", ForkPath(agent))>>
                      \o PrintJson(ForkPath(agent), "soul-forks", agent, Fork(agent))
  <2>1. Begin(p, first \o IF world.sensitive /\ ~yes THEN <<>> ELSE forks)
    BY <1>10 DEF ForkSoul, ForkPath
  <2>2. FollowsStep(file, L) /\ FollowsStep(replayed, L) /\ FollowsStep(policy, L)
    BY FollowsWrites, PersonasBeside DEF BesidePersonas
  <2> HIDE DEF file, replayed, policy
  <2>3. FollowsAll(first, L)
    BY <2>2, Three DEF FollowsAll
  <2>4. FollowsPlan(forks, L) /\ FollowsPlan(<<>>, L)
    BY FollowsForked, FollowsNone, FollowsPlain
  <2> HIDE DEF first, forks
  <2>5. FollowsPlan(first \o forks, L) /\ FollowsPlan(first \o <<>>, L)
    BY <2>3, <2>4, FollowsAfter
  <2>6. QED BY <1>3, <2>1, <2>5
<1>11. QED BY <1>5, <1>6, <1>7, <1>8, <1>9, <1>10, Zenon DEF SoulStep

LEMMA StepPersonaInv == PersonaInv /\ [Next]_govVars => PersonaInv'
<1> SUFFICES ASSUME PersonaInv, [Next]_govVars, family' = "soul" PROVE FollowsInv(PersonaTables)'
  BY DEF PersonaInv
<1>1. family = "soul" /\ FollowsInv(PersonaTables) /\ Shaped'
  BY NextMoves DEF Moves, PersonaInv, FollowsInv
<1>2. ASSUME NEW p \in Procs, SoulStep(p)
      PROVE  FollowsInv(PersonaTables)'
  BY <1>1, <1>2, SoulFollows, FollowsBegun
<1>3. ASSUME NEW p \in Procs, Write(p) \/ Kill(p)
      PROVE  FollowsInv(PersonaTables)'
  BY <1>1, <1>3, FollowsWritten, FollowsDies
<1>4. QED BY <1>1, <1>2, <1>3, FollowsWaits DEF Next, FamilyStep

-----------------------------------------------------------------------------
(* The workspaces the histories of cards and of personas start from *)

\* Every event of a plan that was carried out is in its entries.
LEMMA EveryEventEntered ==
  ASSUME NEW plan, IsPlan(plan), NEW i \in EventSteps(plan)
  PROVE  plan[i].entry \in Range(EntriesOf(plan))
<1> DEFINE S == EventSteps(plan)
           n == Cardinality(S)
           k == Cardinality(Below(S, i)) + 1
           at(m) == CHOOSE j \in S : Cardinality({h \in S : h < j}) = m - 1
<1>1. S \in Indexes /\ n \in Nat /\ S \in SUBSET DOMAIN plan /\ IsFiniteSet(S)
  BY IndexesOf, FS_CardinalityType DEF EventSteps, Indexes
<1>2. EntriesOf(plan) = [m \in 1..n |-> plan[at(m)].entry]
  BY DEF EntriesOf
<1>3. i \in S
  OBVIOUS
<1> HIDE DEF S
<1>4. Cardinality(Below(S, i)) \in Nat /\ Cardinality(Below(S, i)) < n
  BY <1>1, <1>3, FS_Subset, FS_CardinalityType DEF Below, Indexes
<1>5. k \in 1..n /\ k - 1 = Cardinality(Below(S, i))
  BY <1>1, <1>4
<1>6. at(k) = i
  <2>1. Cardinality({h \in S : h < i}) = k - 1
    BY <1>5 DEF Below
  <2>2. at(k) \in S /\ Cardinality({h \in S : h < at(k)}) = k - 1
    BY <1>3, <2>1
  <2>3. at(k) \in S /\ Cardinality(Below(S, at(k))) = Cardinality(Below(S, i))
    BY <1>5, <2>2 DEF Below
  <2> HIDE DEF at, k
  <2>4. QED BY <1>1, <1>3, <2>3, RanksDiffer
<1>7. k \in DOMAIN EntriesOf(plan) /\ EntriesOf(plan)[k] = plan[i].entry
  BY <1>2, <1>5, <1>6
<1> HIDE DEF k
<1>8. QED BY <1>7 DEF Range

LEMMA TalesEntered ==
  ASSUME NEW plan, IsPlan(plan)
  PROVE  Tales(plan) \subseteq TalesOf(EntriesOf(plan))
<1>1. SUFFICES ASSUME NEW s \in Range(plan), NEW tale \in Tale(s)
               PROVE  tale \in TalesOf(EntriesOf(plan))
  BY DEF Tales
<1>2. PICK i \in DOMAIN plan : plan[i] = s
  BY DEF Range
<1>3. s.do = "event" /\ tale = <<s.entry.type, s.entry.ref>>
  BY DEF Tale
<1>4. s.entry \in Range(EntriesOf(plan))
  BY <1>2, <1>3, EveryEventEntered DEF EventSteps
<1>5. QED BY <1>3, <1>4 DEF TalesOf

\* Nothing of a workspace runs ahead of its ledger.
ToldStart(s) ==
    /\ DOMAIN s = {"rows", "artifacts", "log", "world"}
    /\ IsPlan(s.log)
    /\ CardTables \subseteq DOMAIN s.rows
    /\ \A name \in CardTables : FollowsTable(name, s.rows[name], TalesOf(s.log))

\* A plan that tells of all its rows.
TellsAll(plan) == FollowsAll(plan, Tales(plan))

LEMMA TellsPlanned ==
  ASSUME NEW plan, FollowsPlan(plan, {})
  PROVE  TellsAll(plan)
<1>1. PICK a, b : plan = a \o b /\ FollowsAll(a, {}) /\ FollowsAll(b, {} \cup Tales(a))
  BY DEF FollowsPlan
<1>2. IsPlan(a) /\ IsPlan(b)
  BY <1>1 DEF FollowsAll
<1>3. IsPlan(plan) /\ Tales(plan) = Tales(a) \cup Tales(b)
  BY <1>1, <1>2, Joined, TalesJoined
<1>4. {} \subseteq Tales(plan) /\ {} \cup Tales(a) \subseteq Tales(plan)
  BY <1>3
<1>5. FollowsAll(a, Tales(plan)) /\ FollowsAll(b, Tales(plan))
  BY <1>1, <1>4, FollowsMore
<1>6. QED BY <1>1, <1>5, FollowsJoined DEF TellsAll

LEMMA TellsJoined ==
  ASSUME NEW s, NEW t, TellsAll(s), TellsAll(t)
  PROVE  TellsAll(s \o t)
<1> DEFINE L == Tales(s \o t)
<1>1. Tales(s) \subseteq L /\ Tales(t) \subseteq L
  BY TalesJoined DEF TellsAll, FollowsAll
<1> HIDE DEF L
<1>2. FollowsAll(s, L) /\ FollowsAll(t, L)
  BY <1>1, FollowsMore DEF TellsAll
<1>3. FollowsAll(s \o t, L)
  BY <1>2, FollowsJoined
<1>4. QED BY <1>3 DEF TellsAll, L

LEMMA ToldCarriedOut ==
  ASSUME NEW s, ToldStart(s), NEW plan, TellsAll(plan)
  PROVE  ToldStart(CarriedOut(s, plan))
<1> DEFINE entries == EntriesOf(plan)
           after == CarriedOut(s, plan)
           tables(name) == [i \in DOMAIN plan |-> RowChange(plan[i], name)]
           L == TalesOf(after.log)
<1>1. IsPlan(plan) /\ FollowsAll(plan, Tales(plan))
  BY DEF TellsAll, FollowsAll
<1>2. /\ DOMAIN after = DOMAIN s
      /\ DOMAIN after.rows = DOMAIN s.rows
      /\ \A name \in DOMAIN s.rows : after.rows[name] = Changed(s.rows[name], tables(name))
      /\ after.log = s.log \o entries
  BY DEF CarriedOut, ToldStart
<1>3. IsPlan(entries)
  BY <1>1, EntriesOfEvents
<1>4. IsPlan(after.log) /\ Range(after.log) = Range(s.log) \cup Range(entries)
  BY <1>2, <1>3, Joined DEF ToldStart
<1>5. L = TalesOf(s.log) \cup TalesOf(entries)
  BY <1>4 DEF TalesOf
<1>6. TalesOf(s.log) \subseteq L /\ Tales(plan) \subseteq L
  BY <1>1, <1>5, TalesEntered
<1>7. FollowsAll(plan, L)
  BY <1>1, <1>6, FollowsMore
<1> HIDE DEF L, after, entries
<1>8. ASSUME NEW name \in CardTables
      PROVE  FollowsTable(name, after.rows[name], L)
  <2> DEFINE table == s.rows[name]
             changes == tables(name)
  <2>1. after.rows[name] = Changed(table, changes)
    BY <1>2 DEF ToldStart
  <2>2. FollowsTable(name, table, L)
    BY <1>6, FollowsMore DEF ToldStart
  <2>3. \A i \in DOMAIN plan : FollowsStep(plan[i], L)
    BY <1>7 DEF FollowsAll, Range
  <2>4. \A i \in DOMAIN changes : FollowsTable(name, changes[i].put, L)
    BY <2>3 DEF RowChange, NoChange, Nothing, FollowsStep, FollowsTable
  <2> HIDE DEF table, changes
  <2>5. ASSUME NEW id \in DOMAIN Changed(table, changes)
        PROVE  Follows(name, id, Changed(table, changes)[id], L)
    BY ChangedRow, <2>2, <2>4 DEF FollowsTable
  <2>6. QED BY <2>1, <2>5 DEF FollowsTable
<1>9. ToldStart(after)
  BY <1>2, <1>4, <1>8 DEF ToldStart, L
<1>10. QED BY <1>9 DEF after

LEMMA ToldFresh ==
  ASSUME NEW types \in {UnverifiedRun, VerifiedRun}, NEW sensitivity
  PROVE  ToldStart(FreshMemory(types, sensitivity))
<1> DEFINE s == FreshMemory(types, sensitivity)
<1>1. MuteStart(s)
  BY MuteFresh
<1>2. /\ CardTables \subseteq DOMAIN s.rows
      /\ \A name \in CardTables : DOMAIN s.rows[name] = {}
  BY DEF FreshMemory, CardTables, MemoryRegistries, Nothing
<1> HIDE DEF s
<1>3. ToldStart(s)
  BY <1>1, <1>2 DEF MuteStart, ToldStart, FollowsTable
<1>4. QED BY <1>3 DEF s

LEMMA FollowsAcceptance ==
  ASSUME NEW L, NEW id, NEW candidate
  PROVE  FollowsPlan(AcceptancePlan(id, candidate), L)
<1> DEFINE card == CardOf(id, candidate)
           created == Recorded("memory.candidate.created", MemoryPath("candidates", id), candidate)
           told == Recorded("memory.accepted", MemoryPath("accept", id), card)
           reviewed == Upsert("memory-candidates", id, [candidate EXCEPT !.status = "accepted"])
           put == Upsert("memory-cards", id, card)
           M == L \cup Tales(created \o told)
<1>1. /\ FollowsAll(created, L) /\ FollowsAll(told, L)
      /\ <<"memory.accepted", MemoryPath("accept", id)>> \in Tales(told)
  BY FollowsRecorded
<1>2. AcceptancePlan(id, candidate) = (created \o told) \o <<reviewed, put>>
  BY DEF AcceptancePlan
<1> HIDE DEF created, told, card, M
<1>3. FollowsAll(created \o told, L) /\ Tales(created \o told) = Tales(created) \cup Tales(told)
  BY <1>1, FollowsJoined, TalesJoined DEF FollowsAll
<1>4. CardTales(id) \cap M # {}
  BY <1>1, <1>3 DEF CardTales, M
<1>5. FollowsStep(reviewed, M) /\ FollowsStep(put, M)
  BY <1>4, CardsBeside, FollowsCards DEF BesideCards
<1> HIDE DEF reviewed, put
<1>6. FollowsAll(<<reviewed, put>>, M)
  BY <1>5, FollowsTwo
<1>7. QED BY <1>2, <1>3, <1>6, FollowsSecond DEF M

LEMMA ToldMemory == \A s \in MemoryStarts : ToldStart(s)
<1>1. ASSUME NEW types \in {UnverifiedRun, VerifiedRun}, NEW sensitivity
      PROVE  ToldStart(FreshMemory(types, sensitivity))
  BY ToldFresh
<1>2. \A sensitivity : ToldStart(Accepted(sensitivity))
  BY FollowsAcceptance, TellsPlanned, <1>1, TellsJoined, ToldCarriedOut DEF Accepted, VerifiedRun
<1>3. ToldStart(DeletedAndProposed)
  <2> DEFINE accepted == Accepted("private")
             candidate == Candidate("verified", {2}, "private", {"external_send"})
             card == accepted.rows["memory-cards"]["verification"]
             deletes == DeletePlan("verification", Tombstone("verification", card))
             told == Recorded("memory.candidate.created",
                              MemoryPath("candidates", "verification"), candidate)
             put == <<Upsert("memory-candidates", "verification", candidate)>>
  <2>1. FollowsPlan(deletes, {})
    BY FollowsDeleted
  <2>2. FollowsAll(told, {}) /\ FollowsAll(put, {})
    BY FollowsRecorded, CardsBeside, FollowsOne DEF BesideCards
  <2>3. DeletedAndProposed = CarriedOut(accepted, (deletes \o told) \o put)
    BY DEF DeletedAndProposed
  <2> HIDE DEF accepted, deletes, told, put
  <2>4. TellsAll(deletes) /\ TellsAll(told) /\ TellsAll(put)
    BY <2>1, <2>2, FollowsPlain, TellsPlanned
  <2>5. TellsAll((deletes \o told) \o put)
    BY <2>4, TellsJoined
  <2>6. ToldStart(accepted)
    BY <1>2 DEF accepted
  <2>7. QED BY <2>3, <2>5, <2>6, ToldCarriedOut
<1>4. QED BY <1>1, <1>2, <1>3 DEF MemoryStarts, UnverifiedRun

\* A history starts with no command under way.
LEMMA FollowsIdle ==
  ASSUME Init, NEW names, IsPlan(log), names \subseteq DOMAIN rows,
         \A name \in names : FollowsTable(name, rows[name], TalesOf(log))
  PROVE  FollowsInv(names)
BY FollowsNone, FollowsPlain, InitShaped DEF Init, IdleProc, FollowsLeft, FollowsHeld, FollowsInv

LEMMA InitCardInv == Init => CardInv
<1> SUFFICES ASSUME Init, family = "memory" PROVE FollowsInv(CardTables)
  BY DEF CardInv
<1>1. PICK s \in MemoryStarts : rows = s.rows /\ log = s.log
  BY DEF Init, Starts
<1>2. ToldStart(s)
  BY ToldMemory
<1>3. QED BY <1>1, <1>2, FollowsIdle DEF ToldStart

LEMMA InitPersonaInv == Init => PersonaInv
<1> SUFFICES ASSUME Init, family = "soul" PROVE FollowsInv(PersonaTables)
  BY DEF PersonaInv
<1>1. PICK s \in SoulStarts : rows = s.rows /\ log = s.log
  BY DEF Init, Starts
<1> DEFINE e == [type |-> "run.started", ref |-> <<>>, run |-> Earlier("run")]
<1>2. log = <<e>>
  BY <1>1 DEF SoulStarts
<1>3. /\ PersonaTables \subseteq DOMAIN rows
      /\ \A name \in PersonaTables : DOMAIN rows[name] = {}
  BY <1>1 DEF SoulStarts, SoulRegistries, PersonaTables, Nothing
<1> HIDE DEF e
<1>4. IsPlan(log)
  BY <1>2, One
<1>5. \A name \in PersonaTables : FollowsTable(name, rows[name], TalesOf(log))
  BY <1>3 DEF FollowsTable
<1>6. QED BY <1>3, <1>4, <1>5, FollowsIdle

LEMMA TalesAreTold ==
  ASSUME NEW type, NEW path, <<type, path>> \in TalesOf(log)
  PROVE  Told(type, path)
<1>1. PICK e \in Range(log) : <<type, path>> = <<e.type, e.ref>>
  BY DEF TalesOf
<1>2. PICK i \in DOMAIN log : log[i] = e
  BY DEF Range
<1>3. log[i].type = type /\ log[i].ref = path
  BY <1>1, <1>2
<1>4. QED BY <1>3 DEF Told

LEMMA CardsFollow == CardInv => (family = "memory" => CardsAreTold)
<1> SUFFICES ASSUME FollowsInv(CardTables) PROVE CardsAreTold
  BY DEF CardInv
<1> DEFINE L == TalesOf(log)
<1>1. /\ FollowsTable("memory-cards", rows["memory-cards"], L)
      /\ FollowsTable("memory-tombstones", rows["memory-tombstones"], L)
  BY DEF FollowsInv, CardTables
<1>2. ASSUME NEW id \in DOMAIN rows["memory-cards"]
      PROVE  \/ <<"memory.accepted", MemoryPath("accept", id)>> \in L
             \/ <<"memory.fold.accepted", <<"dream", "accept", id>>>> \in L
  BY <1>1 DEF FollowsTable, Follows, CardTales
<1>3. ASSUME NEW id \in DOMAIN rows["memory-tombstones"]
      PROVE  <<"memory.deleted", MemoryPath("delete", id)>> \in L
  BY <1>1 DEF FollowsTable, Follows, TombTale
<1>4. QED BY <1>2, <1>3, TalesAreTold DEF CardsAreTold

LEMMA PersonasFollow == PersonaInv => (family = "soul" => PersonasAreTold)
<1> SUFFICES ASSUME FollowsInv(PersonaTables) PROVE PersonasAreTold
  BY DEF PersonaInv
<1> DEFINE L == TalesOf(log)
<1>1. /\ FollowsTable("persona-branches", rows["persona-branches"], L)
      /\ FollowsTable("soul-forks", rows["soul-forks"], L)
  BY DEF FollowsInv, PersonaTables
<1>2. ASSUME NEW name \in DOMAIN rows["persona-branches"],
             NEW id \in rows["persona-branches"][name].anchors
      PROVE  <<"persona.anchor.accepted", AnchorPath("accept", id)>> \in L
  BY <1>1 DEF FollowsTable, Follows, AnchorTale
<1>3. ASSUME NEW agent \in DOMAIN rows["soul-forks"]
      PROVE  <<"soul.fork.created", <<"soul", "fork", agent>>>> \in L
  BY <1>1 DEF FollowsTable, Follows, ForkTale, ForkPath
<1>4. QED BY <1>2, <1>3, TalesAreTold DEF PersonasAreTold

\* However many operators review memories at once, and wherever their commands
\* are killed, a card in the registry was accepted, by itself or as the fold of a
\* dream, in an event of the ledger, and a tombstone has its deletion there:
\* acceptMemoryCandidate, dream accept and memory delete append the event before
\* they upsert the row.
THEOREM CardsAlwaysTold == Spec => [](family = "memory" => CardsAreTold)
<1>1. Spec => []CardInv
  BY InitCardInv, StepCardInv, PTL DEF Spec
<1>2. QED BY <1>1, CardsFollow, PTL

\* The anchors a persona is computed from were accepted, and the identities in
\* the registry of forks were forked, in events of the ledger, however many
\* operators review anchors and fork agents at once: anchors accept and soul
\* fork append the event before they upsert what follows from it.
THEOREM PersonasAlwaysTold == Spec => [](family = "soul" => PersonasAreTold)
<1>1. Spec => []PersonaInv
  BY InitPersonaInv, StepPersonaInv, PTL DEF Spec
<1>2. QED BY <1>1, PersonasFollow, PTL
=============================================================================
