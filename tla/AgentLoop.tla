------------------------------- MODULE AgentLoop -------------------------------
(***************************************************************************)
(* The agent loop (packages/harness-core/src/agent-loop.ts, with            *)
(* tool-settlement.ts, consent.ts, vcs/subagent.ts and the approval         *)
(* callback of runModelAgentLoop in packages/tui/src/cli.ts): the model is  *)
(* asked turn by turn, each tool call it answers with is settled, decided   *)
(* by policy, approved by the user where policy asks, carried out, told to  *)
(* the ledger and the run manifest, and replied to.  An agent_spawn call    *)
(* runs a loop of its own in a copy of the workspace, its parent waiting.   *)
(*                                                                          *)
(* Level 1 is the loop of the command, level l + 1 the child of level l.    *)
(* The workspace of a level is one file, its content the set of the calls   *)
(* and outside edits that it shows.                                         *)
(***************************************************************************)
EXTENDS Naturals, Sequences, FiniteSets, SequencesExt

CONSTANTS
    Kinds,           \* the tool calls the model makes
    MaxDepth,        \* maxLoopDepth: the turns of a loop
    MaxNesting,      \* bound: levels
    MaxTurnCalls,    \* bound: calls of one answer
    MaxCalls,        \* bound: calls of all loops together
    MaxFaults,       \* bound: appends, records and acts that fail
    MaxOutside       \* bound: edits of the main workspace by others

AllKinds ==
    {"malformed",    \* an unknown tool, or an argument is missing
     "refused",      \* policy denies: a read, scan or fetch out of bounds
     "observe",      \* policy allows: read, list, search or fetch
     "write", "edit",
     "outside",      \* a write to a path outside the workspace
     "exec", "spawn"}

ASSUME AgentAssumption ==
    /\ Kinds \subseteq AllKinds
    /\ MaxDepth \in Nat /\ MaxNesting \in Nat \ {0} /\ MaxTurnCalls \in Nat
    /\ MaxCalls \in Nat /\ MaxFaults \in Nat /\ MaxOutside \in Nat

VARIABLES
    pc,              \* pc[l]: where the loop of level l is
    turn,            \* depth: its turns so far
    convo,           \* state.conversation
    todo,            \* the calls of the last answer that are not replied to
    tracker,         \* the ToolSettlementTracker: bound and settled call ids
    asked,           \* the content of the call in hand, as the user is shown it
    acted,           \* how the act in hand went
    journal,         \* the events of the run in the ledger
    recorded,        \* how many of them the run manifest lists
    manifest,        \* its status
    consents,        \* consents[l]: artifact name -> the call it is about
    file,            \* file[l]: the workspace of level l
    interactive,     \* the command asks the user
    grants,          \* the tools the user allowed always
    stdin,           \* "open", "closed", and "ended" once the loop was told
    granted,         \* history: the approvals given
    acts,            \* history: what was carried out
    calls,           \* history: how many calls the models made
    faults,          \* history: how many faults
    outside          \* history: how many outside edits

memory == <<pc, turn, convo, todo, tracker, asked, acted>>
disk == <<journal, recorded, manifest, consents>>
user == <<interactive, grants, stdin>>
history == <<granted, acts, calls, faults, outside>>
vars == <<memory, disk, file, user, history>>

Levels == 1..MaxNesting
Ended == {"over", "threw"}

\* Calls whose policy decision is "ask".
Asking == {"write", "edit", "outside", "exec", "spawn"}

\* The tool name an always grant goes by.
Tool(kind) ==
    CASE kind \in {"write", "outside"} -> "file_write"
      [] kind = "edit" -> "file_edit"
      [] kind = "exec" -> "shell_exec"
      [] kind = "spawn" -> "agent_spawn"

Event(type, of) == [type |-> type, of |-> of]
Said(role, of, ok) == [role |-> role, of |-> of, ok |-> ok]

NoTracker == [bound |-> <<>>, settled |-> {}]
InHand(l) == Head(todo[l])
Behind(l) == recorded[l] < Len(journal[l])

Start(l) == IF l = 1 THEN "start" ELSE "off"

Init ==
    /\ pc = [l \in Levels |-> Start(l)]
    /\ turn = [l \in Levels |-> 0]
    /\ convo = [l \in Levels |-> <<>>]
    /\ todo = [l \in Levels |-> <<>>]
    /\ tracker = [l \in Levels |-> NoTracker]
    /\ asked = [l \in Levels |-> {}]
    /\ acted = [l \in Levels |-> TRUE]
    /\ journal = [l \in Levels |-> <<>>]
    /\ recorded = [l \in Levels |-> 0]
    /\ manifest = [l \in Levels |-> IF l = 1 THEN "running" ELSE "none"]
    /\ consents = [l \in Levels |-> <<>>]
    /\ file = [l \in Levels |-> {}]
    /\ interactive \in BOOLEAN
    /\ grants = {}
    /\ stdin = "open"
    /\ granted = {} /\ acts = {} /\ calls = 0 /\ faults = 0 /\ outside = 0

-----------------------------------------------------------------------------
(* What a step tells the ledger *)

\* The settlement of a call, tool-settlement.ts.
Settles(l, call) ==
    /\ call.id \in DOMAIN tracker[l].bound
    /\ tracker[l].bound[call.id] = turn[l]
    /\ call.id \notin tracker[l].settled

\* Variant of Settle: a call that settled may settle again.
SettleAgain(t, id) == t

Settle(t, id) == [t EXCEPT !.settled = @ \cup {id}]

Register(t, ids, in) ==
    [t EXCEPT !.bound = [id \in ids \cup DOMAIN @ |-> IF id \in ids THEN in ELSE @[id]]]

\* The policy events of a call, and what follows them before anybody acts.
DecisionEvents(call) ==
    [e \in 1..3 |-> Event(<<"tool.requested", "risk.composed", "policy.decided">>[e], call.serial)]

\* Variant of ApprovalEvents: the lease is issued before the consent is recorded.
LeaseFirst(call) ==
    <<Event("lease.issued", call.serial), Event("consent.recorded", call.serial),
      Event("policy.decided", call.serial)>>

\* A write outside the workspace is denied after its approval, and gets no lease.
ApprovalEvents(call) ==
    <<Event("consent.recorded", call.serial), Event("policy.decided", call.serial)>>
    \o (IF call.kind = "outside" THEN <<>> ELSE <<Event("lease.issued", call.serial)>>)

\* The events the next step of level l appends when a failure of one of them
\* is not caught by the step itself.
Segment(l) ==
    CASE pc[l] = "start" -> <<Event("input.admitted", 0), Event("context.epoch.recorded", 0)>>
      [] pc[l] = "turn" ->
            <<Event(IF turn[l] < MaxDepth THEN "agent.model.requested"
                    ELSE "agent.loop.depth_exceeded", 0)>>
      [] pc[l] = "model" -> <<Event("agent.model.responded", 0)>>
      [] pc[l] = "answered" -> <<Event("agent.loop.completed", 0)>>
      [] pc[l] = "settle" ->
            <<Event(IF Settles(l, InHand(l)) THEN "tool.settled" ELSE "tool.denied",
                    InHand(l).serial)>>
      [] pc[l] = "decide" ->
            IF InHand(l).kind = "malformed" THEN <<>> ELSE DecisionEvents(InHand(l))
      [] pc[l] = "lease" -> <<Event("lease.issued", InHand(l).serial)>>
      [] pc[l] = "card" -> <<Event("policy.decided", InHand(l).serial)>>
      [] pc[l] = "denied" -> <<Event("tool.denied", InHand(l).serial)>>
      [] pc[l] = "approved" -> ApprovalEvents(InHand(l))
      [] pc[l] = "caught" -> <<Event("tool.result", InHand(l).serial)>>
      [] pc[l] = "back" -> <<Event("tool.result", InHand(l).serial)>>
      [] OTHER -> <<>>

\* Every append is recorded in the manifest before the next.
Tell(l, events) ==
    /\ ~Behind(l)
    /\ journal' = [journal EXCEPT ![l] = @ \o events]
    /\ recorded' = [recorded EXCEPT ![l] = @ + Len(events)]

\* The n-th append of events fails, or its record does, the event being
\* written.  With the manifest behind no record succeeds any more.
Breaks(l, events, n, written) ==
    /\ n \in 1..Len(events)
    /\ journal' = [journal EXCEPT ![l] = @ \o SubSeq(events, 1, IF written THEN n ELSE n - 1)]
    /\ IF Behind(l)
       THEN n = 1 /\ written /\ UNCHANGED <<recorded, faults>>
       ELSE /\ faults < MaxFaults
            /\ faults' = faults + 1
            /\ recorded' = [recorded EXCEPT ![l] = @ + n - 1]

\* What is thrown before the first turn leaves runAgentLoop, later it ends it.
Throw(l) ==
    /\ \E n \in 1..Len(Segment(l)), written \in BOOLEAN : Breaks(l, Segment(l), n, written)
    /\ pc' = [pc EXCEPT ![l] = IF @ = "start" THEN "threw" ELSE "over"]
    /\ UNCHANGED <<turn, convo, todo, tracker, asked, acted, manifest, consents, file, user,
                   granted, acts, calls, outside>>

-----------------------------------------------------------------------------
(* Turns *)

Begin(l) ==
    /\ pc[l] = "start"
    /\ Tell(l, Segment(l))
    /\ convo' = [convo EXCEPT ![l] = Append(@, Said("user", <<>>, TRUE))]
    /\ pc' = [pc EXCEPT ![l] = "turn"]
    /\ UNCHANGED <<turn, todo, tracker, asked, acted, manifest, consents, file, user, history>>

Request(l) ==
    /\ pc[l] = "turn" /\ turn[l] < MaxDepth
    /\ Tell(l, Segment(l))
    /\ turn' = [turn EXCEPT ![l] = @ + 1]
    /\ pc' = [pc EXCEPT ![l] = "model"]
    /\ UNCHANGED <<convo, todo, tracker, asked, acted, manifest, consents, file, user, history>>

\* Variant of Exhaust: a loop that ran out of turns counts as completed.
ExhaustAsCompleted(l) ==
    /\ pc[l] = "turn" /\ turn[l] >= MaxDepth
    /\ Tell(l, Segment(l))
    /\ manifest' = [manifest EXCEPT ![l] = "completed"]
    /\ pc' = [pc EXCEPT ![l] = "over"]
    /\ UNCHANGED <<turn, convo, todo, tracker, asked, acted, consents, file, user, history>>

Exhaust(l) ==
    /\ pc[l] = "turn" /\ turn[l] >= MaxDepth
    /\ Tell(l, Segment(l))
    /\ manifest' = [manifest EXCEPT ![l] = "blocked"]
    /\ pc' = [pc EXCEPT ![l] = "over"]
    /\ UNCHANGED <<turn, convo, todo, tracker, asked, acted, consents, file, user, history>>

ProviderFails(l) ==
    /\ pc[l] = "model"
    /\ pc' = [pc EXCEPT ![l] = "over"]
    /\ UNCHANGED <<turn, convo, todo, tracker, asked, acted, disk, file, user, history>>

\* The answers of a model: calls of a new id or of one that was there before.
\* The ids of some providers start anew in every answer.
Ids == 1..MaxCalls
Answers(l) ==
    UNION {{cs \in [1..n -> [id : Ids, kind : Kinds, serial : {calls + k : k \in 1..n}]] :
               \A k \in 1..n :
                  /\ cs[k].serial = calls + k
                  /\ cs[k].id <= cs[k].serial
                  /\ cs[k].kind = "spawn" => l < MaxNesting} :
           n \in {m \in 0..MaxTurnCalls : calls + m <= MaxCalls}}

\* The providers give the finish reason tool_call to an answer with calls, an
\* answer without calls is final.
Respond(l) ==
    /\ pc[l] = "model"
    /\ Tell(l, Segment(l))
    /\ \E cs \in Answers(l) :
          LET ids == {cs[k].id : k \in 1..Len(cs)}
          IN  /\ calls' = calls + Len(cs)
              /\ convo' = [convo EXCEPT ![l] = Append(@, Said("assistant", cs, TRUE))]
              /\ todo' = [todo EXCEPT ![l] = cs]
              /\ IF cs = <<>>
                 THEN /\ pc' = [pc EXCEPT ![l] = "answered"]
                      /\ UNCHANGED tracker
                 ELSE /\ pc' = [pc EXCEPT ![l] = "settle"]
                      /\ tracker' = [tracker EXCEPT ![l] = Register(@, ids, turn[l])]
    /\ UNCHANGED <<turn, asked, acted, manifest, consents, file, user, granted, acts, faults,
                   outside>>

Complete(l) ==
    /\ pc[l] = "answered"
    /\ Tell(l, Segment(l))
    /\ manifest' = [manifest EXCEPT ![l] = "completed"]
    /\ pc' = [pc EXCEPT ![l] = "over"]
    /\ UNCHANGED <<turn, convo, todo, tracker, asked, acted, consents, file, user, history>>

\* The last event is there, the manifest cannot be closed.
CloseFails(l) ==
    /\ pc[l] = "answered" \/ (pc[l] = "turn" /\ turn[l] >= MaxDepth)
    /\ Tell(l, Segment(l))
    /\ faults < MaxFaults
    /\ faults' = faults + 1
    /\ pc' = [pc EXCEPT ![l] = "over"]
    /\ UNCHANGED <<turn, convo, todo, tracker, asked, acted, manifest, consents, file, user,
                   granted, acts, calls, outside>>

-----------------------------------------------------------------------------
(* A tool call up to its approval *)

\* The reply to the call in hand, the next call or the next turn.
Reply(l, ok) ==
    /\ convo' = [convo EXCEPT ![l] = Append(@, Said("tool", <<InHand(l)>>, ok))]
    /\ todo' = [todo EXCEPT ![l] = Tail(@)]
    /\ pc' = [pc EXCEPT ![l] = IF Len(todo[l]) = 1 THEN "turn" ELSE "settle"]

\* Variant of Reject: the model is not told.
RejectSilently(l) ==
    /\ pc[l] = "settle" /\ ~Settles(l, InHand(l))
    /\ Tell(l, Segment(l))
    /\ todo' = [todo EXCEPT ![l] = Tail(@)]
    /\ pc' = [pc EXCEPT ![l] = IF Len(todo[l]) = 1 THEN "turn" ELSE "settle"]
    /\ UNCHANGED <<turn, convo, tracker, asked, acted, manifest, consents, file, user, history>>

Reject(l) ==
    /\ pc[l] = "settle" /\ ~Settles(l, InHand(l))
    /\ Tell(l, Segment(l))
    /\ Reply(l, FALSE)
    /\ UNCHANGED <<turn, tracker, asked, acted, manifest, consents, file, user, history>>

Admit(l) ==
    /\ pc[l] = "settle" /\ Settles(l, InHand(l))
    /\ Tell(l, Segment(l))
    /\ tracker' = [tracker EXCEPT ![l] = Settle(@, InHand(l).id)]
    /\ pc' = [pc EXCEPT ![l] = "decide"]
    /\ UNCHANGED <<turn, convo, todo, asked, acted, manifest, consents, file, user, history>>

\* An unknown tool and a missing argument are replied to without an event, a
\* refusal of policy after its decision.
Refuse(l) ==
    /\ pc[l] = "decide" /\ InHand(l).kind \in {"malformed", "refused"}
    /\ IF InHand(l).kind = "malformed"
       THEN UNCHANGED <<journal, recorded>>
       ELSE Tell(l, Segment(l))
    /\ Reply(l, FALSE)
    /\ UNCHANGED <<turn, tracker, asked, acted, manifest, consents, file, user, history>>

\* file_edit reads the file before the user is asked: the text it replaces
\* has to be there, once.
EditFails(l) ==
    /\ pc[l] = "decide" /\ InHand(l).kind = "edit"
    /\ Tell(l, Segment(l))
    /\ Reply(l, FALSE)
    /\ UNCHANGED <<turn, tracker, asked, acted, manifest, consents, file, user, history>>

\* The content the user is shown and the write will leave.
Proposed(l, call) ==
    (IF call.kind = "edit" THEN file[l] ELSE {}) \cup {call.serial}

Decide(l) ==
    /\ pc[l] = "decide" /\ InHand(l).kind \in Asking \cup {"observe"}
    /\ Tell(l, Segment(l))
    /\ asked' = [asked EXCEPT ![l] = Proposed(l, InHand(l))]
    /\ pc' = [pc EXCEPT ![l] = IF InHand(l).kind \in Asking THEN "card" ELSE "lease"]
    /\ UNCHANGED <<turn, convo, todo, tracker, acted, manifest, consents, file, user, history>>

IssueLease(l) ==
    /\ pc[l] = "lease"
    /\ Tell(l, Segment(l))
    /\ pc' = [pc EXCEPT ![l] = "act"]
    /\ UNCHANGED <<turn, convo, todo, tracker, asked, acted, manifest, consents, file, user,
                   history>>

PresentCard(l) ==
    /\ pc[l] = "card"
    /\ Tell(l, Segment(l))
    /\ pc' = [pc EXCEPT ![l] = "propose"]
    /\ UNCHANGED <<turn, convo, todo, tracker, asked, acted, manifest, consents, file, user,
                   history>>

-----------------------------------------------------------------------------
(* The approval callback *)

Approval(l, by) == [serial |-> InHand(l).serial, content |-> asked[l], by |-> by]

\* The artifact of a consent: one name for the writes of a run, one for each
\* verb and turn for the rest.
ConsentName(l) ==
    IF InHand(l).kind \in {"exec", "spawn"} THEN <<InHand(l).kind, turn[l]>> ELSE <<"write", 0>>

Approve(l, by) ==
    /\ granted' = granted \cup {Approval(l, by)}
    /\ consents' = [consents EXCEPT ![l] =
          [name \in DOMAIN @ \cup {ConsentName(l)} |->
             IF name = ConsentName(l) THEN InHand(l).serial ELSE @[name]]]
    /\ pc' = [pc EXCEPT ![l] = "approved"]

\* Variant of ApproveUnasked: a child has the callback of the command, which
\* asks the user for what was not granted.
ApproveAsCommand(l) ==
    /\ pc[l] = "propose"
    /\ \/ Tool(InHand(l).kind) \in grants /\ Approve(l, "grant")
       \/ ~interactive /\ Approve(l, "auto")
    /\ UNCHANGED <<turn, convo, todo, tracker, asked, acted, journal, recorded, manifest, file,
                   user, acts, calls, faults, outside>>

\* A child's callback approves everything, the command's what was granted
\* always, and everything when it does not ask.
ApproveUnasked(l) ==
    /\ pc[l] = "propose"
    /\ \/ l > 1 /\ Approve(l, "parent")
       \/ l = 1 /\ Tool(InHand(l).kind) \in grants /\ Approve(l, "grant")
       \/ l = 1 /\ ~interactive /\ Approve(l, "auto")
    /\ UNCHANGED <<turn, convo, todo, tracker, asked, acted, journal, recorded, manifest, file,
                   user, acts, calls, faults, outside>>

Waiting == pc[1] = "propose" /\ interactive /\ Tool(InHand(1).kind) \notin grants

UserApproves ==
    /\ Waiting /\ stdin = "open"
    /\ Approve(1, "user")
    /\ \E always \in BOOLEAN :
          grants' = IF always THEN grants \cup {Tool(InHand(1).kind)} ELSE grants
    /\ UNCHANGED <<turn, convo, todo, tracker, asked, acted, journal, recorded, manifest, file,
                   interactive, stdin, acts, calls, faults, outside>>

\* An always grant is kept for later commands: what fails there ends the loop.
GrantNotSaved ==
    /\ Waiting /\ stdin = "open"
    /\ faults < MaxFaults
    /\ faults' = faults + 1
    /\ grants' = grants \cup {Tool(InHand(1).kind)}
    /\ pc' = [pc EXCEPT ![1] = "over"]
    /\ UNCHANGED <<turn, convo, todo, tracker, asked, acted, disk, file, interactive, stdin,
                   granted, acts, calls, outside>>

\* A no, and a line that is not JSON.
UserDenies ==
    /\ Waiting /\ stdin = "open"
    /\ pc' = [pc EXCEPT ![1] = "denied"]
    /\ UNCHANGED <<turn, convo, todo, tracker, asked, acted, disk, file, user, history>>

\* The end of the input denies the proposal that waits for a line, or the
\* first that will.  It comes once: a later proposal waits for ever.
EofDenies ==
    /\ Waiting /\ stdin = "closed"
    /\ stdin' = "ended"
    /\ pc' = [pc EXCEPT ![1] = "denied"]
    /\ UNCHANGED <<turn, convo, todo, tracker, asked, acted, disk, file, interactive, grants,
                   history>>

\* The user has answered a proposal: a call that was settled was denied since.
Heard ==
    \/ \E g \in granted : g.by = "user"
    \/ \E i, j \in 1..Len(journal[1]) :
          /\ journal[1][i].type = "tool.settled" /\ journal[1][j].type = "tool.denied"
          /\ journal[1][i].of = journal[1][j].of

\* Once a line was read the input flows on, and what comes between two
\* proposals, its end as well, comes to nobody.
CloseStdin ==
    /\ interactive /\ stdin = "open" /\ pc[1] \notin Ended
    /\ stdin' = IF Heard /\ ~Waiting THEN "ended" ELSE "closed"
    /\ UNCHANGED <<memory, disk, file, interactive, grants, history>>

Deny(l) ==
    /\ pc[l] = "denied"
    /\ Tell(l, Segment(l))
    /\ Reply(l, FALSE)
    /\ UNCHANGED <<turn, tracker, asked, acted, manifest, consents, file, user, history>>

\* The consent is told, the decision it leads to, and the lease.
Consent(l) ==
    /\ pc[l] = "approved"
    /\ Tell(l, Segment(l))
    /\ IF InHand(l).kind = "outside"
       THEN Reply(l, FALSE)
       ELSE /\ pc' = [pc EXCEPT ![l] = IF InHand(l).kind = "exec" THEN "snapshot" ELSE "act"]
            /\ UNCHANGED <<convo, todo>>
    /\ UNCHANGED <<turn, tracker, asked, acted, manifest, consents, file, user, history>>

-----------------------------------------------------------------------------
(* The act *)

\* The snapshot before a command is best effort: nothing stops the command,
\* not even an event that could not be recorded.
Snapshot(l) ==
    LET event == <<Event("vcs.snapshot.created", InHand(l).serial)>>
    IN  /\ pc[l] = "snapshot"
        /\ \/ Tell(l, event) /\ UNCHANGED faults
           \/ \E written \in BOOLEAN : Breaks(l, event, 1, written)
        /\ pc' = [pc EXCEPT ![l] = "act"]
        /\ UNCHANGED <<turn, convo, todo, tracker, asked, acted, manifest, consents, file, user,
                       granted, acts, calls, outside>>

Act(l) ==
    [level |-> l, id |-> InHand(l).id, serial |-> InHand(l).serial, kind |-> InHand(l).kind]

\* Variant of Content: an edit is applied to the file as it is by now.
ContentNow(l) == Proposed(l, InHand(l))

Content(l) == asked[l]

\* Variant of Where: a child works in the workspace of the command.
WhereMain(l) == 1

Where(l) == l

Write(l) ==
    /\ pc[l] = "act" /\ InHand(l).kind \in {"write", "edit"}
    /\ file' = [file EXCEPT ![Where(l)] = Content(l)]
    /\ acts' = acts \cup {Act(l)}
    /\ acted' = [acted EXCEPT ![l] = TRUE]
    /\ pc' = [pc EXCEPT ![l] = "result"]
    /\ UNCHANGED <<turn, convo, todo, tracker, asked, disk, user, granted, calls, faults,
                   outside>>

Observe(l) ==
    /\ pc[l] = "act" /\ InHand(l).kind = "observe"
    /\ acts' = acts \cup {Act(l)}
    /\ acted' = [acted EXCEPT ![l] = TRUE]
    /\ pc' = [pc EXCEPT ![l] = "result"]
    /\ UNCHANGED <<turn, convo, todo, tracker, asked, disk, file, user, granted, calls, faults,
                   outside>>

\* A command runs in the directory of its workspace but may reach any file,
\* and may fail after it did.
Exec(l) ==
    /\ pc[l] = "act" /\ InHand(l).kind = "exec"
    /\ \E touched \in SUBSET {1, l} :
          file' = [k \in Levels |-> IF k \in touched THEN file[k] \cup {InHand(l).serial}
                                    ELSE file[k]]
    /\ \E ok \in BOOLEAN :
          /\ acted' = [acted EXCEPT ![l] = ok]
          /\ pc' = [pc EXCEPT ![l] = IF ok THEN "result" ELSE "caught"]
    /\ acts' = acts \cup {Act(l)}
    /\ UNCHANGED <<turn, convo, todo, tracker, asked, disk, user, granted, calls, faults,
                   outside>>

\* A file that cannot be read or written, an answer that does not come.  A
\* write that fails may have emptied the file.
ActFails(l) ==
    /\ pc[l] = "act" /\ InHand(l).kind \in {"write", "edit", "observe"}
    /\ faults < MaxFaults
    /\ faults' = faults + 1
    /\ \/ UNCHANGED file
       \/ InHand(l).kind # "observe" /\ file' = [file EXCEPT ![Where(l)] = {}]
    /\ acted' = [acted EXCEPT ![l] = FALSE]
    /\ pc' = [pc EXCEPT ![l] = "caught"]
    /\ UNCHANGED <<turn, convo, todo, tracker, asked, disk, user, granted, acts, calls, outside>>

\* What is told of an act that went well.
ResultEvents(call) ==
    IF call.kind \in {"write", "edit"}
    THEN <<Event("action.recorded", call.serial), Event("verification.recorded", call.serial)>>
    ELSE <<Event("tool.result", call.serial)>>

Report(l) ==
    /\ pc[l] = "result"
    /\ Tell(l, ResultEvents(InHand(l)))
    /\ Reply(l, TRUE)
    /\ UNCHANGED <<turn, tracker, asked, acted, manifest, consents, file, user, history>>

\* Variant of ReportFails: the failure to tell is passed over.
ReportAnyway(l) ==
    /\ pc[l] = "result"
    /\ \E n \in 1..2, written \in BOOLEAN : Breaks(l, ResultEvents(InHand(l)), n, written)
    /\ Reply(l, TRUE)
    /\ UNCHANGED <<turn, tracker, asked, acted, manifest, consents, file, user, granted, acts,
                   calls, outside>>

\* A failure to tell is caught as a failure of the act.
ReportFails(l) ==
    /\ pc[l] = "result"
    /\ \E n \in 1..2, written \in BOOLEAN : Breaks(l, ResultEvents(InHand(l)), n, written)
    /\ acted' = [acted EXCEPT ![l] = FALSE]
    /\ pc' = [pc EXCEPT ![l] = "caught"]
    /\ UNCHANGED <<turn, convo, todo, tracker, asked, manifest, consents, file, user, granted,
                   acts, calls, outside>>

ReportFailure(l) ==
    /\ pc[l] = "caught"
    /\ Tell(l, Segment(l))
    /\ Reply(l, FALSE)
    /\ UNCHANGED <<turn, tracker, asked, acted, manifest, consents, file, user, history>>

-----------------------------------------------------------------------------
(* Child loops *)

\* The branch workspace is a copy of the parent's, the run and the ledger new.
Spawn(l) ==
    /\ pc[l] = "act" /\ InHand(l).kind = "spawn"
    /\ pc' = [pc EXCEPT ![l] = "child", ![l + 1] = "start"]
    /\ turn' = [turn EXCEPT ![l + 1] = 0]
    /\ convo' = [convo EXCEPT ![l + 1] = <<>>]
    /\ todo' = [todo EXCEPT ![l + 1] = <<>>]
    /\ tracker' = [tracker EXCEPT ![l + 1] = NoTracker]
    /\ journal' = [journal EXCEPT ![l + 1] = <<>>]
    /\ recorded' = [recorded EXCEPT ![l + 1] = 0]
    /\ manifest' = [manifest EXCEPT ![l + 1] = "running"]
    /\ consents' = [consents EXCEPT ![l + 1] = <<>>]
    /\ file' = [file EXCEPT ![l + 1] = file[l]]
    /\ acts' = {a \in acts : a.level # l + 1} \cup {Act(l)}
    /\ UNCHANGED <<asked, acted, user, granted, calls, faults, outside>>

\* The snapshot, the branch or the child's manifest cannot be made.
SpawnFails(l) ==
    /\ pc[l] = "act" /\ InHand(l).kind = "spawn"
    /\ faults < MaxFaults
    /\ faults' = faults + 1
    /\ pc' = [pc EXCEPT ![l] = "over"]
    /\ UNCHANGED <<turn, convo, todo, tracker, asked, acted, disk, file, user, granted, acts,
                   calls, outside>>

\* A child that ended with an error, or ran out of turns, counts as a success:
\* only what leaves its loop as an exception does not.
ChildBack(l) ==
    /\ pc[l] = "child" /\ pc[l + 1] \in Ended
    /\ acted' = [acted EXCEPT ![l] = pc[l + 1] = "over"]
    /\ pc' = [pc EXCEPT ![l] = "back"]
    /\ UNCHANGED <<turn, convo, todo, tracker, asked, disk, file, user, history>>

ReportChild(l) ==
    /\ pc[l] = "back"
    /\ Tell(l, Segment(l))
    /\ Reply(l, acted[l])
    /\ UNCHANGED <<turn, tracker, asked, acted, manifest, consents, file, user, history>>

-----------------------------------------------------------------------------
OutsideEdit ==
    /\ pc[1] \notin Ended
    /\ outside < MaxOutside
    /\ outside' = outside + 1
    /\ file' = [file EXCEPT ![1] = @ \cup {0}]
    /\ UNCHANGED <<memory, disk, user, granted, acts, calls, faults>>

LoopStep(l) ==
    \/ Begin(l) \/ Request(l) \/ Exhaust(l) \/ ProviderFails(l) \/ Respond(l) \/ Complete(l)
    \/ CloseFails(l) \/ Reject(l) \/ Admit(l) \/ Refuse(l) \/ EditFails(l) \/ Decide(l) \/ IssueLease(l)
    \/ PresentCard(l) \/ ApproveUnasked(l) \/ Deny(l) \/ Consent(l) \/ Snapshot(l)
    \/ Write(l) \/ Observe(l) \/ Exec(l) \/ ActFails(l)
    \/ Report(l) \/ ReportFails(l) \/ ReportFailure(l)
    \/ Spawn(l) \/ SpawnFails(l) \/ ChildBack(l) \/ ReportChild(l)
    \/ Throw(l)

Next ==
    \/ \E l \in Levels : LoopStep(l)
    \/ UserApproves \/ GrantNotSaved \/ UserDenies \/ EofDenies \/ CloseStdin
    \/ OutsideEdit

Spec == Init /\ [][Next]_vars

\* Loops go on, and the end of the input is told to who waits for it.  The user
\* need not answer and neither need the provider.
FairSpec == Spec /\ WF_vars((\E l \in Levels : pc[l] # "model" /\ LoopStep(l)) \/ EofDenies)

-----------------------------------------------------------------------------
(* Properties *)

Points ==
    Ended \cup {"off", "start", "turn", "model", "answered", "settle", "decide", "lease", "card",
               "propose", "denied", "approved", "snapshot", "act", "result", "caught", "child",
               "back"}

\* Whenever the provider is called, every assistant message with calls is
\* followed by one reply to each of them, in their order: the conversation
\* that is sent is one the providers accept (runAgentLoop, processToolCall).
RepliesMatch ==
    \A l \in Levels : pc[l] = "model" =>
       \A i \in 1..Len(convo[l]) : convo[l][i].role = "assistant" =>
          LET asks == convo[l][i].of
              next == i + Len(asks) + 1
          IN  /\ \A k \in 1..Len(asks) :
                    /\ i + k <= Len(convo[l])
                    /\ convo[l][i + k].role = "tool"
                    /\ convo[l][i + k].of = <<asks[k]>>
              /\ next <= Len(convo[l]) => convo[l][next].role # "tool"

\* In a run no tool call id is acted on twice, whatever ids the model makes up
\* (ToolSettlementTracker, tool-settlement.ts:1-5).
ActsOnce ==
    \A a, b \in acts : a.level = b.level /\ a.id = b.id => a = b

\* The calls of the last answer that were replied to.
RepliedTo(l) ==
    {convo[l][i].of[1].id : i \in {j \in 1..Len(convo[l]) :
        /\ convo[l][j].role = "tool"
        /\ \A k \in j..Len(convo[l]) : convo[l][k].role = "tool"}}

\* Every call settles once against the answer that asks for it: only an id that
\* the same answer repeats is rejected ("make every tool call settle exactly
\* once against the assistant message that requested it",
\* docs/16-openclaw-baseline.md:221; tool-settlement.ts:21-23).
FreshCallsSettle ==
    [][\A l \in Levels : pc[l] = "settle" /\ todo'[l] = Tail(todo[l]) =>
          InHand(l).id \in RepliedTo(l)]_vars

\* The events of a call that its level's ledger holds and its manifest lists begin
\* with these, with nothing of another call in between.
ToldFirst(l, serial, types) ==
    \E n \in 0..recorded[l] :
       /\ n + Len(types) <= recorded[l]
       /\ \A k \in 1..Len(types) : journal[l][n + k] = Event(types[k], serial)
       /\ \A i \in 1..n : journal[l][i].of # serial

\* And they are all that was told of the call.
ToldOnly(l, serial, types) ==
    /\ ToldFirst(l, serial, types)
    /\ \A i \in 1..recorded[l] - Len(types) : journal[l][i].of # serial

AllowedFirst ==
    <<"tool.settled", "tool.requested", "risk.composed", "policy.decided", "lease.issued">>

ApprovedFirst ==
    <<"tool.settled", "tool.requested", "risk.composed", "policy.decided",
      "policy.decided", "consent.recorded", "policy.decided", "lease.issued">>

\* Nothing is done before it is settled, requested, decided and leased, and
\* what policy asks for before it is consented to and decided again, each told
\* to the ledger and the manifest in this order, the consent on file.  With a
\* manifest that is behind its ledger nothing but the command in hand is done.
EvidencedActs ==
    [][\A a \in acts' \ acts :
          /\ IF a.kind \in Asking
             THEN /\ ToldFirst(a.level, a.serial, ApprovedFirst)
                  /\ consents[a.level][ConsentName(a.level)] = a.serial
             ELSE ToldOnly(a.level, a.serial, AllowedFirst)
          /\ Behind(a.level) => a.kind = "exec"]_vars

\* A workspace changes to what was shown for approval and approved, for a call
\* of its own loop: a child leaves the workspace of its parent alone.
\* Commands, which are not confined, edits by others, the copy made for a
\* child and a write that failed half-way in its own workspace aside.
ApprovedContent ==
    [][\A l \in Levels : file'[l] # file[l] =>
          \/ outside' # outside
          \/ pc'[l] = "start"
          \/ pc[l] = "act" /\ pc'[l] = "caught" /\ file'[l] = {}
          \/ \E a \in acts' \ acts :
                \/ a.kind = "exec"
                \/ /\ a.level = l
                   /\ \E g \in granted :
                         /\ g.serial = a.serial
                         /\ g.content = file'[l]
                         /\ g.by = "grant" => Tool(a.kind) \in grants]_vars

Results == {"tool.result", "verification.recorded"}

\* The last that the ledger and the manifest hold of a call is its result.
Reported(l, serial) ==
    \E i \in 1..recorded[l] :
       /\ journal[l][i].of = serial /\ journal[l][i].type \in Results
       /\ \A j \in 1..recorded[l] : journal[l][j].of = serial => j <= i

\* A manifest is closed when its loop is over: completed after an answer,
\* blocked after the last turn.  It then lists every event of the run, the
\* last of which says how it ended, and of every act how it went.
ManifestTells ==
    \A l \in Levels : manifest[l] \in {"completed", "blocked"} =>
       /\ pc[l] = "over"
       /\ ~Behind(l)
       /\ Last(journal[l]).type = IF manifest[l] = "completed" THEN "agent.loop.completed"
                                  ELSE "agent.loop.depth_exceeded"
       /\ manifest[l] = "completed" => Last(convo[l]).role = "assistant"
       /\ \A a \in acts : a.level = l => Reported(l, a.serial)

\* A call the model is told went well was acted on, and its result is in the
\* ledger and the manifest.
SuccessIsRecorded ==
    \A l \in Levels : \A i \in 1..Len(convo[l]) :
       convo[l][i].role = "tool" /\ convo[l][i].ok =>
          LET call == convo[l][i].of[1]
          IN  /\ [level |-> l, id |-> call.id, serial |-> call.serial, kind |-> call.kind] \in acts
              /\ Reported(l, call.serial)

\* The loop of the command comes to an end, to a proposal that nobody answers, or
\* to a call of the provider, its own or a child's, that does not return.  A
\* child, which has nobody to ask, does not keep it otherwise, however it ends:
\* by an answer, by its turns, by a failure, or by an exception of its first
\* events (runAgentLoop, and processToolCall for agent_spawn).
LoopEnds ==
    <>[](pc[1] \in Ended \cup {"propose"} \/ \E l \in Levels : pc[l] = "model")
=============================================================================
