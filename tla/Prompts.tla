------------------------------- MODULE Prompts -------------------------------
(* From a prompt to a tool, each step with its artifact and its run: a prompt *)
(* is bound, a model request prepared from it, the request answered and the   *)
(* answer audited; an audit that passed lets an operator record a proposal,   *)
(* and a proposal whose evidence is whole lets him read the file he names.    *)
(* A second process may answer the same request, or change the memory the     *)
(* prompt is assembled from.                                                  *)
EXTENDS Registries

CONSTANTS
    Tasks,          \* tasks an operator gives
    Answers         \* answers of a provider: "conforming" to the audit, or not

\* assemblePromptPlanForRun: the task, with the memories and the run's events.
PromptOf(task) == task \o world.memory

AgentPath(kind, id) == <<"agent", kind, id>>

\* A run of its own for the one event of an artifact.
OwnRun(run, type, path, value) == <<Artifact(path, value)>> \o Governed(run, type, path)

-----------------------------------------------------------------------------
(* prompt bind-runtime and prompt prepare-model-request                     *)

\* The id of an invocation is made of the hash of its prompt.
BindPlan(run, prompt) == OwnRun(run, "agent.runtime.bound", AgentPath("runtime", prompt), prompt)

BindRuntime(p, task) == Begin(p, BindPlan(NewRun, PromptOf(task)))

EventsFor(type, path) == {i \in DOMAIN log : log[i].type = type /\ log[i].ref = path}
ToldOf(type, path) == EventsFor(type, path) # {}

PreparePlan(run, id, prompt) ==
    OwnRun(run, "agent.model.requested", AgentPath("model-request", id), prompt)

PrepareRequest(p, prompt) ==
    /\ ToldOf("agent.runtime.bound", AgentPath("runtime", prompt))
    /\ Begin(p, PreparePlan(NewRun, NewId("request"), prompt))

-----------------------------------------------------------------------------
(* prompt invoke-model: the answer and its audit have the id of the request *)

Verdict(answer) == IF answer = "conforming" THEN "pass" ELSE "needs_revision"

\* An answer and its audit have a run each, and so have the steps of a chat.
AuditRun(run) == <<"audit", run>>

\* Only hashes of the answer are kept, in the response and in its audit.
AnswerPlan(run, id, prompt, answer) ==
    OwnRun(run, "agent.model.responded", AgentPath("model-response", id),
           [prompt |-> prompt, answer |-> answer])
    \o OwnRun(AuditRun(run), "agent.response.audit.recorded", AgentPath("response-audit", id),
              [answer |-> answer, status |-> Verdict(answer)])

Requested(id) == artifacts[AgentPath("model-request", id)]

\* Variant of MayAnswer: the prompt is not compared with the bound one.
MayAnswerDrifted(id, prompt) ==
    /\ ToldOf("agent.model.requested", AgentPath("model-request", id))
    /\ ~ToldOf("agent.model.responded", AgentPath("model-response", id))

\* The prompt is assembled again and must be the one that was bound.
MayAnswer(id, prompt) ==
    /\ ToldOf("agent.model.requested", AgentPath("model-request", id))
    /\ ~ToldOf("agent.model.responded", AgentPath("model-response", id))
    /\ prompt = Requested(id)

InvokeModel(p, id, task, answer) ==
    /\ MayAnswer(id, PromptOf(task))
    /\ Begin(p, AnswerPlan(NewRun, id, PromptOf(task), answer))

\* The same command in a second terminal.
InvokeElsewhere(p, id, task, answer) ==
    /\ MayAnswer(id, PromptOf(task))
    /\ BeginReport(p, AnswerPlan(<<"elsewhere", reports + 1>>, id, PromptOf(task), answer), Nothing)

\* model chat: bind, prepare and invoke in one command.
Chat(p, task, answer) ==
    LET prompt == PromptOf(task)
        id == NewId("request")
    IN Begin(p, BindPlan(NewId("bind"), prompt) \o PreparePlan(NewId("ask"), id, prompt)
                \o <<[do |-> "assemble", task |-> task, bound |-> prompt]>>
                \o AnswerPlan(NewRun, id, prompt, answer))

\* assertPromptMatchesBoundRequest, just before the provider is called.  The answer
\* is recorded with the prompt of the request: here the two are the same.
AssembleAgain(p) ==
    /\ AtStep(p, "assemble")
    /\ LET s == Head(proc[p].plan)
       IN IF PromptOf(s.task) = s.bound THEN Advance(p) /\ UNCHANGED cut ELSE CutShort(p)
    /\ UNCHANGED <<family, files, begun, reports, kills>>

\* A memory is accepted or deleted: prompts are assembled from other memories.
MemoryChanges(p) ==
    /\ Outside(p, [world EXCEPT !.memory = "_later"])
    /\ UNCHANGED proc

-----------------------------------------------------------------------------
(* The evidence of each event: auditAgentResponseAuditEvidence and           *)
(* auditPromptModelArtifactEvidence.                                         *)

\* eventMapByPayloadRef: of several events of one artifact the last.
LastFor(type, path) == CHOOSE i \in EventsFor(type, path) : \A j \in EventsFor(type, path) : j <= i

\* singleEventRunEvidence
OwnRunMatched(e) == RunEvidence(e.run, "completed", <<e.type>>)

ChainTold(id) ==
    LET request == AgentPath("model-request", id)
    IN /\ ToldOf("agent.model.responded", AgentPath("model-response", id))
       /\ ToldOf("agent.model.requested", request)
       /\ ToldOf("agent.runtime.bound", AgentPath("runtime", artifacts[request]))

\* Variant of AnswerAudited: the hashes of the answer are not compared.
AnswerPresent(id) == AgentPath("model-response", id) \in DOMAIN artifacts

\* validateResponseArtifactForAudit: the audited answer is the recorded one.
AnswerAudited(id) ==
    /\ AgentPath("model-response", id) \in DOMAIN artifacts
    /\ artifacts[AgentPath("model-response", id)].answer =
         artifacts[AgentPath("response-audit", id)].answer

\* The events a proposal cites: the first audit event that is matched.
EvidenceCited(id) ==
    LET audits == EventsFor("agent.response.audit.recorded", AgentPath("response-audit", id))
    IN [bound |-> LastFor("agent.runtime.bound", AgentPath("runtime", Requested(id))),
        requested |-> LastFor("agent.model.requested", AgentPath("model-request", id)),
        responded |-> LastFor("agent.model.responded", AgentPath("model-response", id)),
        audited |-> CHOOSE i \in audits : \A j \in audits : i <= j]

\* The events the audit of a proposal finds: the last of each.
EvidenceFound(id) ==
    [EvidenceCited(id) EXCEPT !.audited =
       LastFor("agent.response.audit.recorded", AgentPath("response-audit", id))]

\* A request is for the prompt of the invocation it names.
RequestMatched(id) ==
    LET path == AgentPath("runtime", Requested(id))
    IN ToldOf("agent.runtime.bound", path) /\ artifacts[path] = Requested(id)

ResponseMatched(id) == ToldOf("agent.model.requested", AgentPath("model-request", id))

AuditMatched(id) == ChainTold(id) /\ AnswerAudited(id)

\* The audit passed: validateProposalResponseAuditLink
AuditPassed(id) == artifacts[AgentPath("response-audit", id)].status = "pass"

ProposalMatched(proposal) ==
    /\ ChainTold(proposal.request)
    /\ proposal.evidence = EvidenceFound(proposal.request)
    /\ AuditPassed(proposal.request)

Matched(e) ==
    /\ OwnRunMatched(e)
    /\ CASE e.type = "agent.runtime.bound" -> TRUE
         [] e.type = "agent.model.requested" -> RequestMatched(e.ref[3])
         [] e.type = "agent.model.responded" -> ResponseMatched(e.ref[3])
         [] e.type = "agent.response.audit.recorded" -> AuditMatched(e.ref[3])
         [] e.type = "agent.tool.request.proposed" -> ProposalMatched(PayloadOf(e))

ChainEvents ==
    {"agent.runtime.bound", "agent.model.requested", "agent.model.responded",
     "agent.response.audit.recorded", "agent.tool.request.proposed"}

PromptFindings == {e \in {log[i] : i \in DOMAIN log} : e.type \in ChainEvents /\ ~Matched(e)}

-----------------------------------------------------------------------------
(* prompt propose-tool-request and prompt execute-tool-request              *)

\* The first finding of the audit, sorted by status, must be a match: all are.
AuditEvidenceMatched(id) ==
    /\ ToldOf("agent.response.audit.recorded", AgentPath("response-audit", id))
    /\ \A i \in EventsFor("agent.response.audit.recorded", AgentPath("response-audit", id)) :
         Matched(log[i])

\* Variant of MayPropose: the verdict of the audit is not looked at.
MayProposeAny(id) ==
    /\ AgentPath("response-audit", id) \in DOMAIN artifacts
    /\ AuditEvidenceMatched(id)

MayPropose(id) ==
    /\ AgentPath("response-audit", id) \in DOMAIN artifacts
    /\ AuditPassed(id)
    /\ AuditEvidenceMatched(id)

ProposePlan(run, id, proposal) ==
    OwnRun(run, "agent.tool.request.proposed", AgentPath("tool-request-proposal", id), proposal)

ProposeTool(p, id) ==
    /\ MayPropose(id)
    /\ BeginWith(p, ProposePlan(NewRun, NewId("proposal"),
                                [request |-> id, evidence |-> EvidenceCited(id)]),
                 [proposes |-> id])

\* The decision of the supervisor about the read is a fresh one.
ToolEvents(decision) ==
    IF decision = "allow"
    THEN <<"tool.requested", "risk.composed", "policy.decided", "lease.issued", "tool.result">>
    ELSE <<"tool.requested", "risk.composed", "policy.decided", "tool.result">>

\* The path is stated again and is the one of the proposal.
ExecuteTool(p, id, decision) ==
    /\ AgentPath("tool-request-proposal", id) \in DOMAIN artifacts
    /\ ToldOf("agent.tool.request.proposed", AgentPath("tool-request-proposal", id))
    /\ \A i \in EventsFor("agent.tool.request.proposed", AgentPath("tool-request-proposal", id)) :
         Matched(log[i])
    /\ LET types == ToolEvents(decision)
       IN BeginWith(p,
            <<Manifest(NewRun, "running", <<>>)>>
            \o [i \in DOMAIN types |-> RunEvent(NewRun, types[i], <<>>)]
            \o <<Manifest(NewRun, "running", types),
                 Manifest(NewRun, IF decision = "allow" THEN "completed" ELSE "blocked", types)>>,
            [executes |-> artifacts[AgentPath("tool-request-proposal", id)].request])

-----------------------------------------------------------------------------

NoPrompts ==
    [rows |-> Nothing, artifacts |-> Nothing,
     log |-> <<[type |-> "run.completed", ref |-> <<>>, run |-> Earlier("start")]>>,
     world |-> [memory |-> ""]]

\* Nothing yet, a request that waits for its answer, and an answer that
\* passed its audit.
PromptStarts ==
    {NoPrompts} \cup UNION {
      LET id == Earlier("request")
          asked == BindPlan(Earlier("bind"), task) \o PreparePlan(Earlier("ask"), id, task)
      IN {CarriedOut(NoPrompts, asked),
          CarriedOut(NoPrompts, asked \o AnswerPlan(Earlier("run"), id, task, "conforming"))}
      : task \in Tasks}

IdsOf(kind) == {path[3] : path \in {q \in DOMAIN artifacts : q[1] = "agent" /\ q[2] = kind}}

Staged(p) ==
    \/ \E task \in Tasks : BindRuntime(p, task)
    \/ \E prompt \in IdsOf("runtime") : PrepareRequest(p, prompt)
    \/ \E id \in IdsOf("model-request"), task \in Tasks, answer \in Answers :
         InvokeModel(p, id, task, answer) \/ InvokeElsewhere(p, id, task, answer)

Tools(p) ==
    \/ \E id \in IdsOf("response-audit") : ProposeTool(p, id)
    \/ \E id \in IdsOf("tool-request-proposal"), d \in {"allow", "deny"} : ExecuteTool(p, id, d)

PromptStep(p) == Staged(p) \/ MemoryChanges(p) \/ Tools(p)

ChatStep(p) ==
    \/ \E task \in Tasks, answer \in Answers :
         \/ Chat(p, task, answer)
         \/ \E id \in IdsOf("model-request") : InvokeModel(p, id, task, answer)
    \/ AssembleAgain(p)
    \/ MemoryChanges(p)
    \/ Tools(p)
=============================================================================
