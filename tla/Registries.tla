----------------------------- MODULE Registries -----------------------------
(* The files the governance commands of the command line keep: JSON        *)
(* registries of rows, JSON artifacts that are overwritten in place, the   *)
(* event ledger, and the processes that run the commands.  A command reads *)
(* and checks first (Begin), then writes one file or event at a time, and  *)
(* may be killed between any two writes.  No file is locked: an upsert     *)
(* reads the whole registry and then writes the whole registry.            *)
EXTENDS Naturals, Sequences, FiniteSets, SequencesExt, TLC

CONSTANTS
    Operators,      \* processes that run commands which change rows
    Readers,        \* processes that run commands which only report
    MaxCommands,    \* commands the operators begin, by family
    MaxReports,     \* commands the readers begin
    MaxKills        \* commands that are killed before their last write, by family

\* A process either changes rows or reports.
ASSUME ProcsAssumption == Operators \cap Readers = {}

VARIABLES
    family,         \* the family of commands this history is about
    rows,           \* registry name -> row id -> row
    artifacts,      \* artifact path -> value, overwritten in place
    log,            \* the events of the ledger: type, payload_ref and run
    world,          \* files, clock and settings outside of the three above
    proc,           \* what each process has still to write
    begun,          \* number of commands begun
    reports,        \* number of reports begun
    kills,          \* number of commands killed
    cut             \* the rows and the artifacts of the killed commands

files == <<rows, artifacts, log, world>>
govVars == <<family, files, proc, begun, reports, kills, cut>>

Procs == Operators \cup Readers

\* The empty table: no row, no artifact.
Nothing == [x \in {} |-> x]

Without(table, ids) == [x \in DOMAIN table \ ids |-> table[x]]

\* The table of one row, and a table with other rows put over its own (the :>
\* and @@ of TLC, which the provers do not know).
Single(id, row) == [x \in {id} |-> row]
Over(items, table) ==
    [x \in DOMAIN items \cup DOMAIN table |-> IF x \in DOMAIN items THEN items[x] ELSE table[x]]

IdleProc == [plan |-> <<>>, held |-> <<>>, view |-> Nothing, ids |-> {}]

Idle(p) == proc[p].plan = <<>>
Quiet == \A p \in Procs : Idle(p)

\* The steps of a plan.
Artifact(path, value) == [do |-> "artifact", at |-> path, value |-> value]
RunEvent(run, type, path) == [do |-> "event", entry |-> [type |-> type, ref |-> path, run |-> run]]
UpsertAll(name, items) == [do |-> "edit", in |-> name, put |-> items, drop |-> {}]
Upsert(name, id, row) == UpsertAll(name, Single(id, row))
DropRow(name, id) == [do |-> "edit", in |-> name, put |-> Nothing, drop |-> {id}]

\* printJson: the artifact of the command, then the row of its registry.
PrintJson(path, name, id, value) == <<Artifact(path, value), Upsert(name, id, value)>>

\* The manifest of a run: its status and the events recorded in it.
Manifest(run, status, events) == Artifact(<<"run", run>>, [status |-> status, events |-> events])

\* appendManagedRunEvent: the supervisor appends, then the manifest has it.
Managed(run, type, path, before) ==
    <<RunEvent(run, type, path), Manifest(run, "running", Append(before, type))>>

\* recordGovernanceEvent: a run of its own for one event.
Governed(run, type, path) ==
    <<Manifest(run, "running", <<>>)>> \o Managed(run, type, path, <<>>)
    \o <<Manifest(run, "completed", <<type>>)>>

\* Ids from before the first command.
Earlier(kind) == <<kind, 0>>

\* An event where no property looks at its run.
Event(type, path) == RunEvent(Earlier("any"), type, path)

\* A lifecycle record: the artifact, then the event that points to it.
Recorded(type, path, value) == <<Artifact(path, value), Event(type, path)>>

\* The rows and the artifacts a plan is about.
Touched(plan) ==
    LET steps(kind) == {i \in DOMAIN plan : plan[i].do = kind}
    IN (UNION {{<<plan[i].in, id>> : id \in DOMAIN plan[i].put \cup plan[i].drop} : i \in steps("edit")})
       \cup {plan[i].at : i \in steps("artifact")}

StartPlan(p, plan, view) ==
    proc' = [proc EXCEPT ![p] = [plan |-> plan, held |-> <<>>, view |-> view,
                                 ids |-> Touched(plan)]]

\* An operator's command passes its checks and starts to write.  The view is
\* what it read and will not read again.
BeginWith(p, plan, view) ==
    /\ p \in Operators
    /\ Idle(p)
    /\ begun < MaxCommands[family]
    /\ begun' = begun + 1
    /\ StartPlan(p, plan, view)
    /\ UNCHANGED <<family, files, reports, kills, cut>>

Begin(p, plan) == BeginWith(p, plan, Nothing)

\* The run and the records of a command that begins now: their ids are random,
\* here they are told apart by the number of the command.
NewId(kind) == <<kind, begun + 1>>
NewRun == NewId("run")

\* A reader's command: it keeps what it saw when it began.
BeginReport(p, plan, view) ==
    /\ p \in Readers
    /\ Idle(p)
    /\ reports < MaxReports
    /\ reports' = reports + 1
    /\ StartPlan(p, plan, view)
    /\ UNCHANGED <<family, files, begun, kills, cut>>

\* printJson of a report: no other command touches these two files.
WritesReport(path, name, id, value) ==
    /\ artifacts' = Over(Single(path, value), artifacts)
    /\ rows' = [rows EXCEPT ![name] = Over(Single(id, value), @)]

\* A report that reads once and writes what it read.
Report(p, path, name, id, value) ==
    /\ p \in Readers
    /\ Idle(p)
    /\ reports < MaxReports
    /\ reports' = reports + 1
    /\ WritesReport(path, name, id, value)
    /\ UNCHANGED <<family, log, world, proc, begun, kills, cut>>

AtStep(p, kind) == ~Idle(p) /\ Head(proc[p].plan).do = kind

Advance(p) ==
    LET left == Tail(proc[p].plan)
    IN proc' = [proc EXCEPT ![p].plan = left,
                            ![p].held = <<>>,
                            ![p].ids = IF left = <<>> THEN {} ELSE @]

StoreArtifact(p) ==
    /\ AtStep(p, "artifact")
    /\ LET s == Head(proc[p].plan) IN artifacts' = Over(Single(s.at, s.value), artifacts)
    /\ Advance(p)
    /\ UNCHANGED <<family, rows, log, world, begun, reports, kills, cut>>

\* The supervisor appends the event.
AppendEvent(p) ==
    /\ AtStep(p, "event")
    /\ LET s == Head(proc[p].plan) IN log' = Append(log, s.entry)
    /\ Advance(p)
    /\ UNCHANGED <<family, rows, artifacts, world, begun, reports, kills, cut>>

\* readRegistry: the whole table, kept until the table is written.
ReadTable(p) ==
    /\ AtStep(p, "edit")
    /\ proc[p].held = <<>>
    /\ proc' = [proc EXCEPT ![p].held = <<rows[Head(proc[p].plan).in]>>]
    /\ UNCHANGED <<family, files, begun, reports, kills, cut>>

\* upsertRegistryItem(s), removeRegistryItem: the table as read, changed.
Edited(table, s) == Over(s.put, Without(table, s.drop))

WriteTable(p) ==
    /\ AtStep(p, "edit")
    /\ proc[p].held # <<>>
    /\ LET s == Head(proc[p].plan)
       IN rows' = [rows EXCEPT ![s.in] = Edited(proc[p].held[1], s)]
    /\ Advance(p)
    /\ UNCHANGED <<family, artifacts, log, world, begun, reports, kills, cut>>

\* The rest of the plan is never written.
CutShort(p) ==
    /\ cut' = cut \cup proc[p].ids
    /\ proc' = [proc EXCEPT ![p] = IdleProc]

\* The process is killed, or the next call throws.  (A report that is killed
\* has written nothing that others read.)
Kill(p) ==
    /\ p \in Operators
    /\ ~Idle(p)
    /\ kills < MaxKills[family]
    /\ kills' = kills + 1
    /\ CutShort(p)
    /\ UNCHANGED <<family, files, begun, reports>>

\* Somebody outside of the commands changes a file, or time passes.
Outside(p, change) ==
    /\ p \in Readers
    /\ Idle(p)
    /\ reports < MaxReports
    /\ reports' = reports + 1
    /\ world' = change
    /\ UNCHANGED <<family, rows, artifacts, log, begun, kills, cut>>

Write(p) == StoreArtifact(p) \/ AppendEvent(p) \/ ReadTable(p) \/ WriteTable(p)

-----------------------------------------------------------------------------
(* The workspaces histories start from: whole plans carried out at once.    *)

\* What a step of a plan changes in a registry, and among the artifacts.
NoChange == [put |-> Nothing, drop |-> {}]
RowChange(s, name) ==
    IF s.do = "edit" /\ s.in = name THEN [put |-> s.put, drop |-> s.drop] ELSE NoChange
FileChange(s) == IF s.do = "artifact" THEN [NoChange EXCEPT !.put = Single(s.at, s.value)] ELSE NoChange

\* The table the changes leave: every id has what the last of them put there.
Changed(table, changes) ==
    LET concerns(i, id) == id \in DOMAIN changes[i].put \cup changes[i].drop
        gives(i, id) ==
          /\ id \in DOMAIN changes[i].put
          /\ \A j \in DOMAIN changes : j > i => ~concerns(j, id)
        kept == {id \in DOMAIN table : \A i \in DOMAIN changes : ~concerns(i, id)}
        given == {id \in UNION {DOMAIN changes[i].put : i \in DOMAIN changes} :
                    \E i \in DOMAIN changes : gives(i, id)}
        giver(id) == CHOOSE i \in DOMAIN changes : gives(i, id)
    IN [id \in kept \cup given |-> IF id \in kept THEN table[id] ELSE changes[giver(id)].put[id]]

\* The entries of the events of a plan, in its order.
EventSteps(plan) == {i \in DOMAIN plan : plan[i].do = "event"}
EntriesOf(plan) ==
    [k \in 1..Cardinality(EventSteps(plan)) |->
       LET step == CHOOSE i \in EventSteps(plan) :
                     Cardinality({j \in EventSteps(plan) : j < i}) = k - 1
       IN plan[step].entry]

CarriedOut(state, plan) ==
    [state EXCEPT
       !.rows = [name \in DOMAIN state.rows |->
                   Changed(state.rows[name], [i \in DOMAIN plan |-> RowChange(plan[i], name)])],
       !.artifacts = Changed(@, [i \in DOMAIN plan |-> FileChange(plan[i])]),
       !.log = @ \o EntriesOf(plan)]

-----------------------------------------------------------------------------
(* auditRegistryProvenance: every event a row cites is in the ledger.       *)

Provenance(row) ==
    IF row.sources = {} THEN "missing"
    ELSE IF row.sources \subseteq DOMAIN log THEN "strong" ELSE "weak"

\* requireStrongRegistryProvenance
StrongProvenance(names) ==
    \A name \in names : \A id \in DOMAIN rows[name] : Provenance(rows[name][id]) = "strong"

-----------------------------------------------------------------------------
(* Run evidence: the events of a run in the ledger and in its manifest.     *)

RunTypes(run) ==
    LET entries == SelectSeq(log, LAMBDA e : e.run = run)
    IN [i \in DOMAIN entries |-> entries[i].type]

\* The run has exactly these events, and its manifest says so.
RunEvidence(run, status, types) ==
    /\ RunTypes(run) = types
    /\ <<"run", run>> \in DOMAIN artifacts
    /\ artifacts[<<"run", run>>] = [status |-> status, events |-> types]

-----------------------------------------------------------------------------
(* The rebuild audits compare the rows with the rows they expect.           *)

\* compareRegistryProjection and its copies for the other families
Findings(name, expected) ==
    LET actual == rows[name]
        at(id, status) == [in |-> name, id |-> id, status |-> status]
    IN {at(id, "missing_registry") : id \in DOMAIN expected \ DOMAIN actual}
       \cup {at(id, "stale_registry") : id \in DOMAIN actual \ DOMAIN expected}
       \cup {at(id, "mismatched") :
               id \in {x \in DOMAIN expected \cap DOMAIN actual : expected[x] # actual[x]}}

\* The value the event points to, as the artifact file has it now.
PayloadOf(event) == artifacts[event.ref]

\* The artifacts of a command, and the records they hold: of several files of
\* one record the last in the order of the paths counts.
Filed(command) == {path \in DOMAIN artifacts : path[1] = command}
Records(command) ==
    [id \in {path[3] : path \in Filed(command)} |->
       LET files_of == {path \in Filed(command) : path[3] = id}
       IN artifacts[IF <<command, id, id>> \in files_of THEN <<command, id, id>>
                    ELSE CHOOSE path \in files_of : TRUE]]

\* A rebuild from the ledger: the events of the given types, in order, each
\* changing the expected tables as its artifact says.
Rebuilt(types, apply(_, _), empty) ==
    FoldLeft(apply, empty, SelectSeq(log, LAMBDA e : e.type \in types /\ e.ref \in DOMAIN artifacts))
=============================================================================
