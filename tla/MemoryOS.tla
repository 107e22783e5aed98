------------------------------ MODULE MemoryOS ------------------------------
(* Memory candidates, cards and tombstones, the folds of `dream`, and the   *)
(* context packs that planning and hibernation assemble from the cards.     *)
(* A lifecycle command writes its artifact, then its event, then its rows.  *)
EXTENDS Registries

CONSTANTS
    NoteContents    \* contents an operator gives a candidate of a source event

MemoryRegistries ==
    {"memory-candidates", "memory-cards", "memory-tombstones", "memory-folds", "context-packs",
     "user-models", "episodic-timelines"}

MemoryPath(topic, id) == <<"memory", topic, id>>

\* The events of the run the candidates are derived from.
EventsOf(types) == {i \in DOMAIN log : log[i].type \in types}
RunEvents == EventsOf({"run.started", "verification.recorded", "run.completed"})

Candidate(content, sources, sensitivity, blocked) ==
    [content |-> content, sources |-> sources, sensitivity |-> sensitivity,
     blocked |-> blocked, status |-> "pending"]

\* deriveMemoryCandidatesFromEvents: the candidates the run's events give.
Derived ==
    LET completed == EventsOf({"run.completed"})
        verification == EventsOf({"verification.recorded"})
    IN (IF completed = {} THEN Nothing
        ELSE "episode" :> Candidate("completed", {1} \cup verification \cup completed,
                                    world.sensitivity, {"external_send"}))
       @@ (IF verification = {} THEN Nothing
           ELSE "verification" :> Candidate("verified", verification,
                                            world.sensitivity, {"external_send"}))

\* One artifact and event each, then the rows.
CandidateRecord(id) ==
    IF id \in DOMAIN Derived
    THEN Recorded("memory.candidate.created", MemoryPath("candidates", id), Derived[id])
    ELSE <<>>
DerivePlan ==
    CandidateRecord("episode") \o CandidateRecord("verification")
    \o <<UpsertAll("memory-candidates", Derived)>>

\* memory candidates --from-run
DeriveCandidates(p) == Derived # Nothing /\ Begin(p, DerivePlan)

\* memory candidates --source-event: the event is in the ledger.
ProposeCandidate(p, content) ==
    LET candidate == Candidate(content, {1}, "private", {})
    IN Begin(p, Recorded("memory.candidate.created", MemoryPath("candidates", "note"), candidate)
                \o <<Upsert("memory-candidates", "note", candidate)>>)

\* acceptMemoryCandidate: the card of a candidate.
CardOf(id, candidate) ==
    [content |-> candidate.content, sources |-> candidate.sources,
     sensitivity |-> candidate.sensitivity, blocked |-> candidate.blocked, from |-> {id}]

\* Variant of ReviewedCandidate: the candidate can be accepted again.
StillPending(candidate) == candidate

\* acceptCandidateFromRegistry
ReviewedCandidate(candidate) == [candidate EXCEPT !.status = "accepted"]

AcceptCandidatePlan(id, candidate) ==
    LET card == CardOf(id, candidate)
    IN Recorded("memory.accepted", MemoryPath("accept", id), card)
       \o <<Upsert("memory-candidates", id, ReviewedCandidate(candidate)),
            Upsert("memory-cards", id, card)>>

AcceptMemory(p, id) ==
    /\ id \in DOMAIN rows["memory-candidates"]
    /\ rows["memory-candidates"][id].status = "pending"
    /\ Begin(p, AcceptCandidatePlan(id, rows["memory-candidates"][id]))

\* ensureModelChatMemoryProvenance: without a card of the episode its candidate
\* is derived afresh and accepted, whatever became of an earlier one.
EnsureEpisode(p) ==
    /\ "episode" \in DOMAIN Derived \ DOMAIN rows["memory-cards"]
    /\ Begin(p, DerivePlan \o AcceptCandidatePlan("episode", Derived["episode"]))

\* A candidate can be rejected in any status, its card stays.
RejectMemory(p, id) ==
    /\ id \in DOMAIN rows["memory-candidates"]
    /\ LET rejected == [rows["memory-candidates"][id] EXCEPT !.status = "rejected"]
       IN Begin(p, Recorded("memory.rejected", MemoryPath("reject", id), rejected)
                   \o <<Upsert("memory-candidates", id, rejected)>>)

\* createMemoryDeleteTombstone
Tombstone(id, card) == [target |-> id, sources |-> card.sources]

DeletePlan(id, tombstone) ==
    Recorded("memory.deleted", MemoryPath("delete", id), tombstone)
    \o <<DropRow("memory-cards", id), Upsert("memory-tombstones", id, tombstone)>>

DeleteMemory(p, id) ==
    /\ id \in DOMAIN rows["memory-cards"]
    /\ Begin(p, DeletePlan(id, Tombstone(id, rows["memory-cards"][id])))

BlockMemory(p, id, context) ==
    /\ id \in DOMAIN rows["memory-cards"]
    /\ LET blocked == [rows["memory-cards"][id] EXCEPT !.blocked = @ \cup {context}]
       IN Begin(p, Recorded("memory.blocked", MemoryPath("block", id), blocked)
                   \o <<Upsert("memory-cards", id, blocked)>>)

-----------------------------------------------------------------------------
(* dream: folds of the cards of a run.  The event comes first; its          *)
(* artifact is written by the printJson that ends the command.              *)

\* The fold is named after the cards it folds, here after their number.
FoldName(ids) == IF Cardinality(ids) = 2 THEN "fold_of_two" ELSE "fold_of_more"

HighestSensitivity(cards) ==
    IF \E card \in cards : card.sensitivity = "secret" THEN "secret" ELSE "private"

\* proposeMemoryFold
FoldOf(ids) ==
    LET table == rows["memory-cards"]
        cards == {table[id] : id \in ids}
    IN [memory |-> [content |-> "folded",
                    sources |-> UNION {card.sources : card \in cards},
                    sensitivity |-> HighestSensitivity(cards),
                    blocked |-> UNION {card.blocked : card \in cards},
                    from |-> UNION {card.from : card \in cards}],
        id |-> FoldName(ids),
        status |-> "pending"]

DreamRun(p) ==
    LET table == rows["memory-cards"]
        ids == {id \in DOMAIN table : table[id].sources \cap RunEvents # {}}
        fold == FoldOf(ids)
    IN /\ Cardinality(ids) >= 2
       /\ Begin(p, <<Event("memory.fold.proposed", <<"dream", "run", fold.id>>)>>
                   \o PrintJson(<<"dream", "run", fold.id>>, "memory-folds", fold.id, fold))

\* acceptMemoryFold: a fold of a secret card needs its own approval.
DreamAccept(p, id, approveSensitive) ==
    /\ id \in DOMAIN rows["memory-folds"]
    /\ LET fold == rows["memory-folds"][id]
           accepted == [fold EXCEPT !.status = "accepted"]
           path == <<"dream", "accept", id>>
       IN /\ fold.status = "pending"
          /\ fold.memory.sensitivity = "secret" => approveSensitive
          /\ Begin(p, <<Event("memory.fold.accepted", path),
                        Upsert("memory-cards", id, fold.memory)>>
                      \o PrintJson(path, "memory-folds", id, accepted))

DreamReject(p, id) ==
    /\ id \in DOMAIN rows["memory-folds"]
    /\ rows["memory-folds"][id].status = "pending"
    /\ LET path == <<"dream", "reject", id>>
       IN Begin(p, <<Event("memory.fold.rejected", path)>>
                   \o PrintJson(path, "memory-folds", id,
                                [rows["memory-folds"][id] EXCEPT !.status = "rejected"]))

-----------------------------------------------------------------------------
(* Context packs: the cards are read, then the tombstones, then the pack is *)
(* written.  Another process may write between the reads.                   *)

Deleted(tombstones) == {tombstones[id].target : id \in DOMAIN tombstones}

\* Variant of Excluded: the tombstones are not consulted.
ExcludedAlive(id, card, context, deleted) ==
    context \in card.blocked \/ card.sensitivity = "secret"

Excluded(id, card, context, deleted) ==
    \/ id \in deleted
    \/ context \in card.blocked
    \/ card.sensitivity = "secret"

\* assembleContextPack
Assemble(cards, context, tombstones) ==
    LET out == {id \in DOMAIN cards : Excluded(id, cards[id], context, Deleted(tombstones))}
    IN [selected |-> DOMAIN cards \ out, excluded |-> out,
        origins |-> UNION {cards[id].from : id \in DOMAIN cards \ out},
        sources |-> UNION {cards[id].sources : id \in DOMAIN cards}]

\* context explain: the view keeps what was deleted when the report began.
ExplainContext(p) ==
    /\ StrongProvenance({"memory-cards", "memory-tombstones"})
    /\ BeginReport(p, <<[do |-> "cards"], [do |-> "pack"]>>,
                   [deleted |-> Deleted(rows["memory-tombstones"]), pack |-> <<>>])

LookAtCards(p) ==
    /\ AtStep(p, "cards")
    /\ proc' = [proc EXCEPT ![p].plan = Tail(@), ![p].held = <<rows["memory-cards"]>>]
    /\ UNCHANGED <<family, files, begun, reports, kills, cut>>

PackContext(p) ==
    /\ AtStep(p, "pack")
    /\ LET pack == Assemble(proc[p].held[1], "planning", rows["memory-tombstones"])
       IN /\ WritesReport(<<"context", "explain", "ctx">>, "context-packs", "ctx", pack)
          /\ proc' = [proc EXCEPT ![p].plan = <<>>, ![p].held = <<>>, ![p].view.pack = <<pack>>]
    /\ UNCHANGED <<family, log, world, begun, reports, kills, cut>>

\* memory user-model reads the cards only, tombstones are not consulted.
UserModel(p) ==
    LET cards == rows["memory-cards"]
        model == [memories |-> {id \in DOMAIN cards : cards[id].sources # {}},
                  sources |-> UNION {cards[id].sources : id \in DOMAIN cards}]
    IN /\ StrongProvenance({"memory-cards"})
       /\ Report(p, <<"memory", "user-model", "user_model_local">>, "user-models",
                 "user_model_local", model)

\* memory timeline
Timeline(p) ==
    /\ RunEvents # {}
    /\ Report(p, <<"memory", "timeline", "episode">>, "episodic-timelines", "episode",
              [sources |-> RunEvents])

-----------------------------------------------------------------------------
(* auditMemoryRegistryRebuild: the events replayed over their artifacts.    *)

MemoryEvents ==
    {"memory.candidate.created", "memory.accepted", "memory.rejected", "memory.blocked",
     "memory.deleted"}

ApplyMemoryEvent(expected, event) ==
    LET id == event.ref[3]
        value == PayloadOf(event)
    IN CASE event.type \in {"memory.candidate.created", "memory.rejected"} ->
              [expected EXCEPT !.candidates = (id :> value) @@ @]
         [] event.type = "memory.accepted" ->
              [expected EXCEPT
                 !.candidates = IF id \in DOMAIN @ THEN [@ EXCEPT ![id].status = "accepted"] ELSE @,
                 !.cards = (id :> value) @@ @]
         [] event.type = "memory.blocked" -> [expected EXCEPT !.cards = (id :> value) @@ @]
         [] event.type = "memory.deleted" ->
              [expected EXCEPT !.cards = Without(@, {value.target}),
                               !.tombstones = (id :> value) @@ @]

RebuiltMemory ==
    Rebuilt(MemoryEvents, ApplyMemoryEvent,
            [candidates |-> Nothing, cards |-> Nothing, tombstones |-> Nothing])

MemoryFindings ==
    Findings("memory-candidates", RebuiltMemory.candidates)
    \cup Findings("memory-cards", RebuiltMemory.cards)
    \cup Findings("memory-tombstones", RebuiltMemory.tombstones)

\* Folds are accepted under an event the memory audit does not read.
MemoryAuditMisses(finding) ==
    /\ finding.in = "memory-cards"
    /\ finding.id \in DOMAIN rows["memory-folds"]

-----------------------------------------------------------------------------
(* The workspaces the histories of this family start from: a completed run, *)
(* with or without a verification, and the one where its memories have been *)
(* accepted.                                                                *)

Plain(type) == [type |-> type, ref |-> <<>>, run |-> Earlier("run")]

FreshMemory(types, sensitivity) ==
    [rows |-> [name \in MemoryRegistries |-> Nothing],
     artifacts |-> Nothing,
     log |-> [i \in DOMAIN types |-> Plain(types[i])],
     world |-> [sensitivity |-> sensitivity]]

AcceptancePlan(id, candidate) ==
    LET card == CardOf(id, candidate)
    IN Recorded("memory.candidate.created", MemoryPath("candidates", id), candidate)
       \o Recorded("memory.accepted", MemoryPath("accept", id), card)
       \o <<Upsert("memory-candidates", id, [candidate EXCEPT !.status = "accepted"]),
            Upsert("memory-cards", id, card)>>

\* The memories of a run that was verified, both accepted.
Accepted(sensitivity) ==
    LET types == <<"run.started", "verification.recorded", "run.completed">>
    IN CarriedOut(FreshMemory(types, sensitivity),
         AcceptancePlan("episode", Candidate("completed", {1, 2, 3}, sensitivity, {"external_send"}))
         \o AcceptancePlan("verification", Candidate("verified", {2}, sensitivity, {"external_send"})))

\* One of them deleted and, since its candidate is derived again, pending.
DeletedAndProposed ==
    LET accepted == Accepted("private")
        candidate == Candidate("verified", {2}, "private", {"external_send"})
        card == accepted.rows["memory-cards"]["verification"]
    IN CarriedOut(accepted,
         DeletePlan("verification", Tombstone("verification", card))
         \o Recorded("memory.candidate.created", MemoryPath("candidates", "verification"), candidate)
         \o <<Upsert("memory-candidates", "verification", candidate)>>)

MemoryStarts ==
    {FreshMemory(<<"run.started", "run.completed">>, "private"), Accepted("secret"),
     DeletedAndProposed}

MemoryCommand(p) ==
    \/ DeriveCandidates(p)
    \/ EnsureEpisode(p)
    \/ \E content \in NoteContents : ProposeCandidate(p, content)
    \/ \E id \in DOMAIN rows["memory-candidates"] : AcceptMemory(p, id)
    \/ \E id \in DOMAIN rows["memory-candidates"] : RejectMemory(p, id)
    \/ \E id \in DOMAIN rows["memory-cards"] : DeleteMemory(p, id)
    \/ \E id \in DOMAIN rows["memory-cards"], c \in {"planning", "external_send"} : BlockMemory(p, id, c)
    \/ DreamRun(p)
    \/ \E id \in DOMAIN rows["memory-folds"], yes \in BOOLEAN : DreamAccept(p, id, yes)
    \/ \E id \in DOMAIN rows["memory-folds"] : DreamReject(p, id)

MemoryStep(p) ==
    \/ MemoryCommand(p)
    \/ ExplainContext(p) \/ LookAtCards(p) \/ PackContext(p)
    \/ UserModel(p)
    \/ Timeline(p)
=============================================================================
