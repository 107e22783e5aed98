-------------------------------- MODULE Soul --------------------------------
(* Persona anchors and their review, the persona branch and state that are   *)
(* computed from them, and forks of an agent from a checkpoint.  The event   *)
(* comes first, then the computed row, then what the command prints.         *)
EXTENDS Registries

CONSTANTS
    Anchors,        \* anchors, all of one persona branch
    Agents          \* identities a fork may be given

SoulRegistries ==
    {"persona-anchors", "persona-branches", "persona-states", "persona-resets", "soul-forks",
     "inheritance-policies", "replay-records", "checkpoints", "memory-cards"}

PersonaTable == rows["persona-anchors"]

AnchorPath(topic, id) == <<"anchors", topic, id>>

\* proposePersonaAnchor: proposed again, an anchor is pending again.
ProposeAnchor(p, id, sensitive) ==
    LET anchor == [status |-> "pending", sensitive |-> sensitive, approved |-> FALSE]
        path == AnchorPath("propose", id)
    IN Begin(p, <<Event("persona.anchor.proposed", path)>>
                \o PrintJson(path, "persona-anchors", id, anchor))

\* createPersonaBranch: the accepted anchors, the one under review included.
\* (An anchor whose time is over is left out: no anchor is that old here.)
BranchOf(table) == [anchors |-> {id \in DOMAIN table : table[id].status = "accepted"}]

\* Variant of AcceptPlan: the branch is written before the event.
AcceptPlanBranchFirst(id, accepted, branch) ==
    <<Upsert("persona-branches", "default", branch),
      Event("persona.anchor.accepted", AnchorPath("accept", id))>>
    \o PrintJson(AnchorPath("accept", id), "persona-anchors", id, accepted)

AcceptPlan(id, accepted, branch) ==
    <<Event("persona.anchor.accepted", AnchorPath("accept", id)),
      Upsert("persona-branches", "default", branch)>>
    \o PrintJson(AnchorPath("accept", id), "persona-anchors", id, accepted)

\* acceptPersonaAnchor: a sensitive anchor needs its own approval.
AcceptAnchor(p, id, approveSensitive) ==
    /\ id \in DOMAIN PersonaTable
    /\ PersonaTable[id].status = "pending"
    /\ PersonaTable[id].sensitive => approveSensitive
    /\ LET accepted == [PersonaTable[id] EXCEPT !.status = "accepted", !.approved = @ \/ PersonaTable[id].sensitive]
       IN Begin(p, AcceptPlan(id, accepted, BranchOf(Over(Single(id, accepted), PersonaTable))))

RejectAnchor(p, id) ==
    /\ id \in DOMAIN PersonaTable
    /\ PersonaTable[id].status = "pending"
    /\ LET path == AnchorPath("reject", id)
       IN Begin(p, <<Event("persona.anchor.rejected", path)>>
                   \o PrintJson(path, "persona-anchors", id,
                                [PersonaTable[id] EXCEPT !.status = "rejected"]))

\* anchors list: what it prints is written back into the registry.
ListAnchors(p) ==
    Begin(p, <<Artifact(AnchorPath("list", "list"), PersonaTable),
               UpsertAll("persona-anchors", PersonaTable)>>)

-----------------------------------------------------------------------------
(* persona reset                                                            *)

\* applyPersonaReset
ResetPersona(p) ==
    /\ "default" \in DOMAIN rows["persona-branches"]
    /\ LET active == rows["persona-branches"]["default"].anchors
           states == rows["persona-states"]
           before == IF "local" \in DOMAIN states THEN states["local"].anchors ELSE {}
           reset == [activated |-> active, deactivated |-> before \ active]
           path == <<"persona", "reset", NewId("reset")>>
       IN Begin(p, <<Event("persona.reset.applied", path),
                     Upsert("persona-states", "local", [anchors |-> active])>>
                   \o PrintJson(path, "persona-resets", NewId("reset"), reset))

-----------------------------------------------------------------------------
(* soul fork                                                                *)

\* forkSoul: the memories whose sensitivity the policy lets through.
Fork(agent) ==
    LET cards == rows["memory-cards"]
        inherited == {id \in DOMAIN cards : cards[id].sensitivity = "private"}
    IN [agent |-> agent, inherited |-> inherited, excluded |-> DOMAIN cards \ inherited]

\* Variant of MayFork: the identity may be in use.
MayForkAgain(agent) == "checkpoint" \in DOMAIN rows["checkpoints"]

MayFork(agent) ==
    /\ "checkpoint" \in DOMAIN rows["checkpoints"]
    /\ agent \notin DOMAIN rows["soul-forks"]

\* Sensitive history without approval: refused after the first records.
ForkSoul(p, agent, approveSensitive) ==
    /\ MayFork(agent)
    /\ LET path == <<"soul", "fork", agent>>
           record == [status |-> "passed"]
       IN Begin(p, <<Artifact(<<"replay", "run", "checkpoint">>, record),
                     Upsert("replay-records", "checkpoint", record),
                     Upsert("inheritance-policies", "default", [default |-> "private"])>>
                   \o IF world.sensitive /\ ~approveSensitive THEN <<>>
                      ELSE <<RunEvent(NewRun, "soul.fork.created", path)>>
                           \o PrintJson(path, "soul-forks", agent, Fork(agent)))

-----------------------------------------------------------------------------

SoulStarts ==
    LET card(s) == [sensitivity |-> s]
    IN {[rows |-> [[name \in SoulRegistries |-> Nothing] EXCEPT
                     !["checkpoints"] = Single("checkpoint", [run |-> Earlier("run")]),
                     !["memory-cards"] = [id \in {"open", "hidden"} |-> card(IF id = "open" THEN "private" ELSE "secret")]],
         artifacts |-> Nothing,
         log |-> <<[type |-> "run.started", ref |-> <<>>, run |-> Earlier("run")]>>,
         world |-> [sensitive |-> s]] : s \in BOOLEAN}

SoulStep(p) ==
    \/ \E id \in Anchors, s \in BOOLEAN : ProposeAnchor(p, id, s) \/ AcceptAnchor(p, id, s)
    \/ \E id \in Anchors : RejectAnchor(p, id)
    \/ ListAnchors(p)
    \/ ResetPersona(p)
    \/ \E agent \in Agents, yes \in BOOLEAN : ForkSoul(p, agent, yes)
=============================================================================
