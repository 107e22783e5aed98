--------------------------- MODULE ContentSecurity ---------------------------
(* Tainted content: scans, poisoning signals, honeypot trials and fixtures,  *)
(* browser observations and the message queues.  Here the record comes       *)
(* first: artifact and row are written before the event that tells of them.  *)
EXTENDS Registries

CONSTANTS
    Verdicts        \* replies of the supervisor: "expected", or any other

SecurityRegistries ==
    {"content-assessments", "poisoning-signals", "honeypot-trials",
     "poisoning-regression-fixtures", "browser-observations", "im-inbox", "im-outbox"}

\* persistSecurityRecord and persistSurfaceRecord
Persist(command, topic, name, id, value) ==
    <<Artifact(<<command, topic, id>>, value), Upsert(name, id, value)>>

-----------------------------------------------------------------------------
(* security scan                                                            *)

\* scanUntrustedContent: what is kept of the content is its hash and its rules.
Assessment(content) ==
    [content |-> content, status |-> IF content = "injected" THEN "suspicious" ELSE "clean"]

\* signalFromAssessment
Signal(assessment, id) ==
    [assessment |-> id, content |-> assessment.content, status |-> "detected", fixture |-> FALSE]

\* The run of a scan after the supervisor has denied the tainted source.
ScanDenied(run, id, assessment) ==
    LET policy == "policy.decided"
        assessed == "security.content.assessed"
        detected == "poisoning.detected"
        told == Managed(run, policy, <<>>, <<>>)
                \o Managed(run, assessed, <<"security", "scan", id>>, <<policy>>)
        signal == NewId("signal")
    IN IF assessment.status = "clean"
       THEN told \o <<Manifest(run, "completed", <<policy, assessed>>)>>
       ELSE told
            \o Persist("security", "scan", "poisoning-signals", signal, Signal(assessment, id))
            \o Managed(run, detected, <<"security", "scan", signal>>, <<policy, assessed>>)
            \o <<Manifest(run, "blocked", <<policy, assessed, detected>>)>>

\* The assessment is persisted before its run exists and before the policy.
ScanContent(p, content, verdict) ==
    LET id == NewId("assessment")
        assessment == Assessment(content)
    IN Begin(p, Persist("security", "scan", "content-assessments", id, assessment)
                \o <<Manifest(NewRun, "running", <<>>)>>
                \o IF verdict = "expected" THEN ScanDenied(NewRun, id, assessment)
                   ELSE <<Manifest(NewRun, "failed", <<>>)>>)

\* Variant of Acknowledge: the acknowledged signal replaces the artifact of its scan.
AcknowledgeInPlace(p, id) ==
    /\ id \in DOMAIN rows["poisoning-signals"]
    /\ LET signal == [rows["poisoning-signals"][id] EXCEPT !.status = "acknowledged"]
       IN Begin(p, Persist("security", "scan", "poisoning-signals", id, signal)
                   \o Governed(NewRun, "poisoning.acknowledged", <<"security", "scan", id>>))

\* security ack
Acknowledge(p, id) ==
    /\ id \in DOMAIN rows["poisoning-signals"]
    /\ LET signal == [rows["poisoning-signals"][id] EXCEPT !.status = "acknowledged"]
       IN Begin(p, Persist("security", "ack", "poisoning-signals", id, signal)
                   \o Governed(NewRun, "poisoning.acknowledged", <<"security", "ack", id>>))

\* security trial: the containment trial of a signal, with decoys only.
TrialPlan(id, subject) ==
    LET trial == NewId("honeypot")
    IN Persist("security", "trial", "honeypot-trials", trial,
               [signal |-> id, content |-> rows["poisoning-signals"][id].content,
                subject |-> subject])
       \o Governed(NewRun, "honeypot.trial.completed", <<"security", "trial", trial>>)

RunTrial(p, id) ==
    /\ id \in DOMAIN rows["poisoning-signals"]
    /\ Begin(p, TrialPlan(id, "content"))

\* security fixture
CreateFixture(p, id) ==
    /\ id \in DOMAIN rows["poisoning-signals"]
    /\ LET signal == [rows["poisoning-signals"][id] EXCEPT !.fixture = TRUE]
           fixture == [signal |-> id, content |-> signal.content]
       IN Begin(p, Persist("security", "fixture", "poisoning-signals", id, signal)
                   \o Persist("security", "fixture", "poisoning-regression-fixtures",
                              <<"fixture", id>>, fixture)
                   \o Governed(NewRun, "poisoning.regression.created",
                               <<"security", "fixture", <<"fixture", id>>>>))

-----------------------------------------------------------------------------
(* surface: browser observations and message queues                         *)

\* The run of a surface command whose policy the supervisor has told.
SurfaceRun(topic, name, id, value, type, status) ==
    Managed(NewRun, "policy.decided", <<>>, <<>>)
    \o Persist("surface", topic, name, id, value)
    \o Managed(NewRun, type, <<"surface", topic, id>>, <<"policy.decided">>)
    \o <<Manifest(NewRun, status, <<"policy.decided", type>>)>>

\* The id is a hash of the page: the same page is observed again under it.
ObserveBrowser(p, page, verdict) ==
    Begin(p, <<Manifest(NewRun, "running", <<>>)>>
             \o IF verdict = "expected"
                THEN SurfaceRun("browser-observe", "browser-observations", page,
                                [policy |-> NewRun], "browser.observation.ingested", "completed")
                ELSE <<Manifest(NewRun, "failed", <<>>)>>)

\* createImInboxItem: the risk of a message by where it came from.
Disposition(visibility, mentioned, role) ==
    CASE visibility = "dm" /\ role # "unknown" -> "queued"
      [] visibility = "group" /\ mentioned /\ role # "unknown" -> "queued"
      [] OTHER -> IF role = "unknown" THEN "pairing_required" ELSE "observe_only"

\* surface im-inbox: no policy is asked, a message cannot authorize anything.
ReceiveMessage(p, visibility, mentioned, role) ==
    LET item == [disposition |-> Disposition(visibility, mentioned, role)]
    IN Begin(p, Persist("surface", "im-inbox", "im-inbox", "message", item)
                \o Governed(NewRun, "im.inbox.received", <<"surface", "im-inbox", "message">>))

\* surface im-outbox: the verdict asks for a message and denies a public one.
QueueMessage(p, visibility, verdict) ==
    LET public == visibility = "public"
        item == [policy |-> NewRun, delivery |-> IF public THEN "blocked" ELSE "queued"]
    IN Begin(p, <<Manifest(NewRun, "running", <<>>)>>
                \o IF verdict = "expected"
                   THEN SurfaceRun("im-outbox", "im-outbox", "answer_" \o visibility, item,
                                   "im.outbox.queued", IF public THEN "completed" ELSE "blocked")
                   ELSE <<Manifest(NewRun, "failed", <<>>)>>)

-----------------------------------------------------------------------------
(* auditSurfaceRegistryRebuild                                              *)

SurfaceEvents ==
    ("browser.observation.ingested" :> "browser-observations") @@
    ("im.inbox.received" :> "im-inbox") @@ ("im.outbox.queued" :> "im-outbox")

ApplySurfaceEvent(expected, event) ==
    [expected EXCEPT ![SurfaceEvents[event.type]] = (event.ref[3] :> PayloadOf(event)) @@ @]

SurfaceFindings ==
    LET registries == {SurfaceEvents[type] : type \in DOMAIN SurfaceEvents}
        expected == Rebuilt(DOMAIN SurfaceEvents, ApplySurfaceEvent,
                            [name \in registries |-> Nothing])
    IN UNION {Findings(name, expected[name]) : name \in registries}

-----------------------------------------------------------------------------
(* auditSecurityFixtureEvidence: each event of a signal against the events   *)
(* and artifacts that must have come before it, and against its own run.     *)

EventsTold(type) == {log[i] : i \in {j \in DOMAIN log : log[j].type = type}}

ScanPath(id) == <<"security", "scan", id>>

Detected(id) == ScanPath(id) \in {e.ref : e \in EventsTold("poisoning.detected")}

Acknowledged(id) ==
    <<"security", "ack", id>> \in {e.ref : e \in EventsTold("poisoning.acknowledged")}

AssessmentMatched(e) ==
    LET types == <<"policy.decided", "security.content.assessed">>
    IN RunEvidence(e.run, "completed", types)
       \/ RunEvidence(e.run, "blocked", Append(types, "poisoning.detected"))

\* signalAssessmentMismatches and securityDetectedRunEvidence
SignalMatched(e) ==
    LET signal == PayloadOf(e)
    IN /\ ScanPath(signal.assessment) \in {a.ref : a \in EventsTold("security.content.assessed")}
       /\ artifacts[ScanPath(signal.assessment)] =
            [content |-> signal.content, status |-> "suspicious"]
       /\ signal.status = "detected"
       /\ RunEvidence(e.run, "blocked",
                      <<"policy.decided", "security.content.assessed", "poisoning.detected">>)

\* ackSignalMismatches
AckMatched(e) ==
    LET ack == PayloadOf(e)
    IN /\ Detected(e.ref[3])
       /\ artifacts[ScanPath(e.ref[3])].status = "detected"
       /\ artifacts[ScanPath(e.ref[3])].content = ack.content
       /\ artifacts[ScanPath(e.ref[3])].assessment = ack.assessment
       /\ ack.status = "acknowledged"
       /\ RunEvidence(e.run, "completed", <<e.type>>)

\* trialSignalMismatches and fixtureSignalMismatches
FollowUpMatched(e) ==
    LET record == PayloadOf(e)
    IN /\ Detected(record.signal) \/ Acknowledged(record.signal)
       /\ artifacts[ScanPath(record.signal)].content = record.content
       /\ RunEvidence(e.run, "completed", <<e.type>>)

EvidenceMatched(e) ==
    CASE e.type = "security.content.assessed" -> AssessmentMatched(e)
      [] e.type = "poisoning.detected" -> SignalMatched(e)
      [] e.type = "poisoning.acknowledged" -> AckMatched(e)
      [] e.type \in {"honeypot.trial.completed", "poisoning.regression.created"} ->
            FollowUpMatched(e)

EvidenceEvents ==
    {"security.content.assessed", "poisoning.detected", "poisoning.acknowledged",
     "honeypot.trial.completed", "poisoning.regression.created"}

SecurityFindings ==
    {e \in UNION {EventsTold(type) : type \in EvidenceEvents} : ~EvidenceMatched(e)}

-----------------------------------------------------------------------------

SecurityStarts ==
    {[rows |-> [name \in SecurityRegistries |-> Nothing], artifacts |-> Nothing,
      log |-> <<[type |-> "run.started", ref |-> <<>>, run |-> Earlier("run")]>>, world |-> Nothing]}

SecurityStep(p) ==
    \/ \E content \in {"plain", "injected"}, v \in Verdicts : ScanContent(p, content, v)
    \/ \E id \in DOMAIN rows["poisoning-signals"] : Acknowledge(p, id)
    \/ \E id \in DOMAIN rows["poisoning-signals"] : RunTrial(p, id)
    \/ \E id \in DOMAIN rows["poisoning-signals"] : CreateFixture(p, id)
    \/ \E v \in Verdicts : ObserveBrowser(p, "page", v)
    \/ \E vis \in {"dm", "group"}, m \in BOOLEAN, role \in {"owner", "unknown"} :
         ReceiveMessage(p, vis, m, role)
    \/ \E vis \in {"dm", "public"}, v \in Verdicts : QueueMessage(p, vis, v)
=============================================================================
