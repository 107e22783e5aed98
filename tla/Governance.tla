----------------------------- MODULE Governance -----------------------------
(* The governance commands of one workspace: each history is about one      *)
(* family of commands, since no command of a family reads what another      *)
(* family writes (the quarantine of a capsule is in Capsules).  The chat,    *)
(* which is the prompt commands in one, has histories of its own.            *)
EXTENDS Capsules, Hibernation, Prompts, Rehearsals, Soul

CONSTANTS
    Families        \* the families of commands that are checked

\* There are eight, each with the workspaces its histories start from.
ASSUME FamiliesAssumption ==
    Families \subseteq
      {"memory", "security", "capsules", "sandbox", "hibernation", "soul", "prompts", "chat"}

Starts(f) ==
    CASE f = "memory" -> MemoryStarts
      [] f = "security" -> SecurityStarts
      [] f = "capsules" -> CapsuleStarts
      [] f = "sandbox" -> SandboxStarts
      [] f = "hibernation" -> HibernationStarts
      [] f = "soul" -> SoulStarts
      [] f = "prompts" -> PromptStarts
      [] f = "chat" -> {NoPrompts}

Init ==
    /\ family \in Families
    /\ \E s \in Starts(family) :
         rows = s.rows /\ artifacts = s.artifacts /\ log = s.log /\ world = s.world
    /\ proc = [p \in Procs |-> IdleProc]
    /\ begun = 0
    /\ reports = 0
    /\ kills = 0
    /\ cut = {}

FamilyStep(p) ==
    \/ family = "memory" /\ MemoryStep(p)
    \/ family = "security" /\ SecurityStep(p)
    \/ family = "capsules" /\ CapsuleStep(p)
    \/ family = "sandbox" /\ SandboxStep(p)
    \/ family = "hibernation" /\ HibernationStep(p)
    \/ family = "soul" /\ SoulStep(p)
    \/ family = "prompts" /\ PromptStep(p)
    \/ family = "chat" /\ ChatStep(p)

Next == \E p \in Procs : FamilyStep(p) \/ Write(p) \/ Kill(p)
Spec == Init /\ [][Next]_govVars

-----------------------------------------------------------------------------

\* A finding about something a killed command was writing.
IsCut(finding) == <<finding.in, finding.id>> \in cut

\* The signal a security event is about.
SignalOf(e) ==
    CASE e.type \in {"poisoning.detected", "poisoning.acknowledged"} -> e.ref[3]
      [] e.type \in {"honeypot.trial.completed", "poisoning.regression.created"} ->
            PayloadOf(e).signal
      [] OTHER -> Earlier("signal")

\* An artifact that two events tell of.
Repeated(type, path) == Cardinality(EventsFor(type, path)) > 1

\* A request that was answered in two terminals, or in one that was killed.
AnsweredTwice(id) ==
    \/ Repeated("agent.model.responded", AgentPath("model-response", id))
    \/ AgentPath("model-response", id) \in cut

\* Events of the prompt evidence that are known to fail the audit: the request was
\* answered twice or, for a proposal, the prompt was bound again after it.
PromptAuditMisses(e) ==
    \/ e.type = "agent.response.audit.recorded" /\ AnsweredTwice(e.ref[3])
    \/ /\ e.type = "agent.tool.request.proposed"
       /\ LET id == PayloadOf(e).request
          IN AnsweredTwice(id)
             \/ Repeated("agent.runtime.bound", AgentPath("runtime", Requested(id)))

Told(type, path) == \E i \in DOMAIN log : log[i].type = type /\ log[i].ref = path

\* Where the event comes first a row never runs ahead of the ledger, whatever
\* is killed: cards, tombstones, the anchors a persona is computed from.
CardsAreTold ==
    /\ \A id \in DOMAIN rows["memory-cards"] :
         \/ Told("memory.accepted", MemoryPath("accept", id))
         \/ Told("memory.fold.accepted", <<"dream", "accept", id>>)
    /\ \A id \in DOMAIN rows["memory-tombstones"] :
         Told("memory.deleted", MemoryPath("delete", id))
PersonasAreTold ==
    /\ \A name \in DOMAIN rows["persona-branches"] :
         \A id \in rows["persona-branches"][name].anchors :
           Told("persona.anchor.accepted", AnchorPath("accept", id))
    /\ \A agent \in DOMAIN rows["soul-forks"] :
         Told("soul.fork.created", <<"soul", "fork", agent>>)

\* The registries are a function of the ledger and the artifacts: once no
\* command is under way an audit, of the registries or of the evidence of the
\* events, finds only what a killed command left half written and the few
\* changes it is known not to follow.  Cards, tombstones, personas and forks
\* are in the ledger at every moment.
AuditsExplained ==
    /\ family = "memory" => CardsAreTold
    /\ family = "soul" => PersonasAreTold
    /\ Quiet =>
      CASE family = "memory" -> \A f \in MemoryFindings : IsCut(f) \/ MemoryAuditMisses(f)
        [] family = "security" ->
             /\ \A f \in SurfaceFindings : IsCut(f)
             /\ \A e \in SecurityFindings :
                  <<"run", e.run>> \in cut \/ ScanPath(SignalOf(e)) \in cut
        [] family = "capsules" ->
             /\ \A f \in CapsuleFindings : IsCut(f) \/ CapsuleAuditMisses(f)
             /\ \A f \in StoreFindings : IsCut(f) \/ StoreAuditMisses(f)
             /\ \A f \in ReplayFindings : IsCut(f)
        [] family = "sandbox" -> \A f \in SandboxFindings : IsCut(f) \/ SandboxAuditMisses(f)
        [] family = "hibernation" ->
             \A f \in HibernationFindings : IsCut(f) \/ HibernationAuditMisses(f)
        [] family \in {"prompts", "chat"} ->
             \A e \in PromptFindings : <<"run", e.run>> \in cut \/ PromptAuditMisses(e)
        [] OTHER -> TRUE

\* A context pack that is assembled while memories are deleted selects none
\* whose tombstone was there when the command began.
PacksAreClean ==
    \A p \in Readers : "pack" \in DOMAIN proc[p].view =>
      \A i \in DOMAIN proc[p].view.pack :
        proc[p].view.pack[i].selected \cap proc[p].view.deleted = {}

\* The number of the command that opened a run.
NumberOf(run) == run[2]

\* Two events of a type, one after the other.
Again(type, i, j) ==
    /\ i < j
    /\ log[i].type = type
    /\ log[j].type = type

\* What must happen once happens once: an agent identity is forked once, unless
\* its fork was cut short, and a sleep is woken once: between two wakeups the run
\* was put to sleep again, unless the first was cut short after its event.
DoneOnce ==
    \A i, j \in DOMAIN log :
      /\ Again("soul.fork.created", i, j) /\ log[i].ref = log[j].ref =>
           <<"soul-forks", log[i].ref[3]>> \in cut
      /\ Again("wakeup.queued", i, j) /\ <<"run", log[i].run>> \notin cut =>
           \E id \in DOMAIN rows["wakeups"] :
             NumberOf(log[i].run) < Triggers[id].since /\ Triggers[id].since < NumberOf(log[j].run)

\* What is published, or archived as published, has passed its replays and its
\* trial, and was approved when it asked for more tools.
PublishedHasEvidence ==
    family = "capsules" =>
      \A name \in {"capsules", "capsule-versions"} : \A id \in DOMAIN rows[name] :
        LET capsule == rows[name][id]
        IN capsule.lifecycle = "published" =>
             /\ capsule.tests = "passed"
             /\ capsule.trial \notin {"none", "failed"}
             /\ capsule.asks => capsule.approval = "approved"

\* A promotion writes what was rehearsed over what it was rehearsed against,
\* unless somebody edits the file while the promotion is under way.
PromotionAsRehearsed ==
    [][\A p \in Operators : AtStep(p, "commit") /\ proc'[p].plan = Tail(proc[p].plan) =>
         LET rehearsal == rows["rehearsals"][proc[p].view.promoting]
         IN /\ world'.target = rehearsal.proposed
            /\ world.target = rehearsal.original \/ proc[p].view.edited]_govVars

\* A provider is asked the very prompt that was bound, whatever has happened
\* to the memories since, and one terminal asks it once for each request
\* unless it is killed before the answer is told.
AnswersBoundPrompt ==
    family \in {"prompts", "chat"} =>
      /\ \A id \in IdsOf("model-response") :
           artifacts[AgentPath("model-response", id)].prompt = Requested(id)
      /\ \A i, j \in DOMAIN log :
           /\ i < j
           /\ log[i].type = "agent.model.responded"
           /\ log[j].type = "agent.model.responded"
           /\ log[i].ref = log[j].ref
           => "elsewhere" \in {log[i].run[1], log[j].run[1]}

Conforms(id) == artifacts[AgentPath("model-response", id)].answer = "conforming"
Replaced(id) == \E q \in Procs : AgentPath("model-response", id) \in proc[q].ids

\* A tool is proposed only while the answer on record is one that conforms: an
\* audit does not carry over to another answer to the same request.  It is then
\* executed only while that is so, or while a second terminal is replacing the
\* answer: the execution looks at the audit and not at the answer again.
ToolsFollowConformingAnswers ==
    [][\A p \in Operators : Idle(p) /\ ~Idle(p)' =>
         /\ "proposes" \in DOMAIN proc'[p].view => Conforms(proc'[p].view.proposes)
         /\ "executes" \in DOMAIN proc'[p].view =>
              Conforms(proc'[p].view.executes) \/ Replaced(proc'[p].view.executes)]_govVars
=============================================================================
