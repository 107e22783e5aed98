----------------------------- MODULE Hibernation -----------------------------
(* A run is put to sleep with triggers and a context pack, and a wakeup      *)
(* queues its resumption when the trigger is eligible and a fresh policy     *)
(* decision says "queue".  The event comes before the rows.                  *)
EXTENDS MemoryOS

CONSTANTS
    Replies         \* replies of the supervisor: "expected", or any other

HibernationRegistries ==
    {"memory-cards", "memory-tombstones", "context-packs", "hibernations", "wakeups"}

Hib == Earlier("hibernate")
Triggers == rows["wakeups"]

\* baseTrigger and its callers: every sleep names its triggers afresh.
Trigger(source) ==
    [source |-> source, since |-> begun + 1, status |-> "scheduled",
     baseline |-> IF source = "file" THEN world.file ELSE "none"]

\* hibernateRun
Sleeping(triggers) == [status |-> "sleeping", triggers |-> triggers, used |-> 0]

MaxWakeups == 3

SleepPath == <<"sleep", "run", Hib>>
WakePath(id) == <<"wake", Hib, id>>

WriteTrigger(id, trigger) == <<Artifact(WakePath(id), trigger), Upsert("wakeups", id, trigger)>>

\* The triggers in the order of runSleep.
WriteTriggers(ids, triggers) ==
    LET written(source) ==
          IF source \in DOMAIN ids THEN WriteTrigger(ids[source], triggers[source]) ELSE <<>>
    IN written("manual") \o written("deadline") \o written("file")

\* runSleep: pack, triggers, then the record; sleeping again starts afresh.
SleepPlan(sources) ==
    LET pack == Assemble(rows["memory-cards"], "resume", rows["memory-tombstones"])
        ids == [source \in sources |-> NewId(source)]
        record == Sleeping({ids[source] : source \in sources})
    IN <<Upsert("context-packs", "ctx_resume", pack)>>
       \o WriteTriggers(ids, [source \in sources |-> Trigger(source)])
       \o <<Artifact(SleepPath, record)>>
       \o PrintJson(SleepPath, "hibernations", Hib, record)

SleepRun(p, more) ==
    /\ StrongProvenance({"memory-cards", "memory-tombstones"})
    /\ Begin(p, SleepPlan({"manual"} \cup more))

-----------------------------------------------------------------------------
(* wake                                                                     *)

TriggerFires(trigger) ==
    CASE trigger.source = "manual" -> TRUE
      [] trigger.source = "deadline" -> world.due
      [] trigger.source = "file" -> world.file # trigger.baseline

\* Variant of Evaluated: whether the run still sleeps is not looked at.
EvaluatedAwake(record, trigger) ==
    IF record.used >= MaxWakeups THEN "discarded"
    ELSE IF TriggerFires(trigger) THEN "eligible" ELSE "scheduled"

\* evaluateWakeup: the record decides, the status of the trigger does not.
Evaluated(record, trigger) ==
    IF record.status # "sleeping" THEN "discarded"
    ELSE IF record.used >= MaxWakeups THEN "discarded"
    ELSE IF TriggerFires(trigger) THEN "eligible" ELSE "scheduled"

\* The trigger of a wake command: the one it names, or the oldest manual one.
OldestManual ==
    CHOOSE id \in DOMAIN Triggers :
      /\ Triggers[id].source = "manual"
      /\ \A other \in DOMAIN Triggers :
           Triggers[other].source = "manual" => Triggers[id].since <= Triggers[other].since

TriggerOf(target) == IF target = Hib THEN OldestManual ELSE target

\* runWake and queueWakeup after the policy: run, event, files and rows.
QueuePlan(run, target, id, record, trigger) ==
    LET queued == [record EXCEPT !.status = "queued", !.used = @ + 1]
        done == [trigger EXCEPT !.status = "queued"]
        policy == "policy.decided"
    IN <<Manifest(run, "running", <<>>), Manifest(run, "running", <<policy>>)>>
       \o Managed(run, "wakeup.queued", WakePath(id), <<policy>>)
       \o <<Manifest(run, "blocked", <<policy, "wakeup.queued">>),
            Artifact(SleepPath, queued), Artifact(WakePath(id), done),
            Upsert("hibernations", Hib, queued), Upsert("wakeups", id, done)>>
       \o PrintJson(<<"wake", target, id>>, "wakeups", id, done)

Wake(p, target, reply) ==
    /\ Hib \in DOMAIN rows["hibernations"]
    /\ \E id \in DOMAIN Triggers : Triggers[id].source = "manual"
    /\ LET id == TriggerOf(target)
           record == rows["hibernations"][Hib]
           status == Evaluated(record, Triggers[id])
           evaluated == [Triggers[id] EXCEPT !.status = status]
       IN Begin(p,
            IF status # "eligible"
            THEN <<Upsert("wakeups", id, evaluated)>>
                 \o PrintJson(<<"wake", target, id>>, "wakeups", id, evaluated)
            ELSE <<RunEvent(NewRun, "policy.decided", <<>>)>>
                 \o IF reply = "expected" THEN QueuePlan(NewRun, target, id, record, Triggers[id]) ELSE <<>>)

\* The watched file changes, or the deadline passes.
WatchedFileChanges(p) ==
    /\ Outside(p, [world EXCEPT !.file = "changed"])
    /\ UNCHANGED proc

DeadlinePasses(p) ==
    /\ Outside(p, [world EXCEPT !.due = TRUE])
    /\ UNCHANGED proc

-----------------------------------------------------------------------------
(* auditHibernationRegistryRebuild: from the artifacts, with no event.      *)

HibernationFindings ==
    Findings("hibernations", Records("sleep")) \cup Findings("wakeups", Records("wake"))

\* A trigger that was woken by its own name has two files, and the one that
\* counts is written only by such a command.
HibernationAuditMisses(finding) ==
    finding.in = "wakeups" /\ <<"wake", finding.id, finding.id>> \in DOMAIN artifacts

-----------------------------------------------------------------------------

Awake ==
    LET card == [content |-> "completed", sources |-> {1}, sensitivity |-> "private",
                 blocked |-> {}, from |-> {"episode"}]
    IN [rows |-> [[name \in HibernationRegistries |-> Nothing] EXCEPT !["memory-cards"] =
                    Single("episode", card)],
        artifacts |-> Nothing, log |-> <<Plain("run.started")>>,
        world |-> [file |-> "watched", due |-> FALSE]]

\* A run that has not slept, one that sleeps with all its triggers, and one
\* that has been woken by hand.
HibernationStarts ==
    LET trigger(source) == [source |-> source, since |-> 0, status |-> "scheduled",
                            baseline |-> IF source = "file" THEN "watched" ELSE "none"]
        ids == [source \in {"manual", "deadline", "file"} |-> Earlier(source)]
        record == Sleeping({ids[source] : source \in DOMAIN ids})
        asleep == WriteTriggers(ids, [source \in DOMAIN ids |-> trigger(source)])
                  \o PrintJson(SleepPath, "hibernations", Hib, record)
        woken == <<RunEvent(Earlier("run"), "policy.decided", <<>>)>>
                 \o QueuePlan(Earlier("run"), Hib, Earlier("manual"), record, trigger("manual"))
    IN {Awake, CarriedOut(Awake, asleep), CarriedOut(Awake, asleep \o woken)}

HibernationStep(p) ==
    \/ \E more \in SUBSET {"deadline", "file"} : SleepRun(p, more)
    \/ \E target \in DOMAIN Triggers \cup {Hib}, reply \in Replies : Wake(p, target, reply)
    \/ WatchedFileChanges(p)
    \/ DeadlinePasses(p)
=============================================================================
