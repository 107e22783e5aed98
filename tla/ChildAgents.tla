----------------------------- MODULE ChildAgents -----------------------------
(***************************************************************************)
(* Child agents (`ether agent contract` and `ether agent execute`: runAgent *)
(* of packages/tui/src/cli.ts over packages/multiagent/src/index.ts).  A    *)
(* contract, its budget account and its agent's score are rows of registry  *)
(* files, read once by an execution and written back at its end, what       *)
(* happened is told to the ledger in between, and auditAgentRegistryRebuild *)
(* of packages/harness-core/src/registry.ts derives the rows from it again. *)
(***************************************************************************)
EXTENDS Naturals, Sequences, FiniteSets

CONSTANTS
    Executors,       \* processes of `ether agent execute`
    MaxRuns,         \* bound: child runs
    MaxOverlapped,   \* bound: child runs once commands have overlapped
    MaxKills,        \* bound: commands killed
    MaxContracts,    \* bound: how often the contract is created
    ToolBudget,      \* the budget of the contract: tool calls,
    LeaseBudget,     \* leases
    TimeBudget,      \* and time (CPU and wall time)
    Usages           \* the time a read may take

ASSUME ChildAssumption ==
    /\ MaxRuns \in Nat /\ MaxOverlapped \in Nat /\ MaxKills \in Nat /\ MaxContracts \in Nat
    /\ ToolBudget \in Nat /\ LeaseBudget \in Nat /\ TimeBudget \in Nat
    /\ Usages \subseteq Nat

VARIABLES
    contract,        \* agent-contracts: the number of its creation (0: none), its status
    account,         \* budget-accounts: what remains, the denials, the status
    score,           \* agent-scores: how many of each outcome
    results,         \* child-results: the runs with a row
    breakers,        \* circuit-breakers: the runs with a row
    artifacts,       \* the runs whose result or breaker artifact is on disk
    manifests,       \* manifests[r]: status of the manifest of run r
    log,             \* the ledger: the events of the contract the rebuild looks at
    asked,           \* the runs that asked the supervisor for a read
    creator,         \* where `agent contract` is
    pc,              \* pc[e]: where execution e is
    exec,            \* exec[e]: its run, its copies of the rows, how it went, its saves so far
    overlapped,      \* history: two commands were at work at the same time
    killed           \* history: how many commands were killed or threw half-way

rows == <<contract, account, score, results, breakers, artifacts>>
history == <<overlapped, killed>>
vars == <<rows, manifests, log, asked, creator, pc, exec, history>>

Runs == 1..MaxRuns
Outcomes == {"success", "policy_denial", "permission_violation"}
Started == {r \in Runs : manifests[r] # "none"}
Busy == {e \in Executors : pc[e] # "idle"}
AtRest == Busy = {} /\ creator = "idle"

Entry(type, run) == [type |-> type, run |-> run]

NoContract == [made |-> 0, status |-> "draft"]
NoScore == [o \in Outcomes |-> 0]

-----------------------------------------------------------------------------
(* Budget accounts (packages/multiagent/src/index.ts) *)

FreshAccount ==
    [tools |-> ToolBudget, leases |-> LeaseBudget, time |-> TimeBudget,
     denials |-> 0, status |-> "active"]

\* Variant of CanReserve: the tool calls that remain are not looked at.
CanReserveUncounted(a) == a.status = "active" /\ a.leases >= 1 /\ a.time >= 1

\* reserveRead refuses an account that is spent or has been stopped.
CanReserve(a) == a.status = "active" /\ a.tools >= 1 /\ a.leases >= 1 /\ a.time >= 1

ReserveRead(a) == [a EXCEPT !.tools = @ - 1]

\* Variant of RecordLeaseUse: the lease is not taken off the account.
ForgetLeaseUse(a) == a

RecordLeaseUse(a) == [a EXCEPT !.leases = @ - 1]

RecordPolicyDenial(a) ==
    [a EXCEPT !.denials = @ + 1, !.status = IF a.denials + 1 >= 3 THEN "stopped" ELSE @]

RecordRuntimeUsage(a, used) ==
    [a EXCEPT !.time = IF used >= @ THEN 0 ELSE @ - used,
              !.status = IF used > a.time THEN "exhausted" ELSE @]

\* An execution that is not at work.
NoExec ==
    [run |-> 0, contract |-> NoContract, account |-> FreshAccount, score |-> NoScore,
     outcome |-> "success", copy |-> {}, how |-> "none", saved |-> 0]

-----------------------------------------------------------------------------
Init ==
    /\ contract = NoContract
    /\ account = FreshAccount
    /\ score = NoScore
    /\ results = {} /\ breakers = {} /\ artifacts = {}
    /\ manifests = [r \in Runs |-> "none"]
    /\ log = <<>>
    /\ asked = {}
    /\ creator = "idle"
    /\ pc = [e \in Executors |-> "idle"]
    /\ exec = [e \in Executors |-> NoExec]
    /\ overlapped = FALSE /\ killed = 0

(* ether agent contract: the row first, then the event *)

\* Variant of Register: the new contract gets an account of its own.
RegisterAfresh ==
    /\ creator = "idle"
    /\ contract.made < MaxContracts
    /\ contract' = [made |-> contract.made + 1, status |-> "draft"]
    /\ account' = FreshAccount
    /\ creator' = "registered"
    /\ overlapped' = (overlapped \/ Busy # {})
    /\ UNCHANGED <<score, results, breakers, artifacts, manifests, log, asked, pc, exec, killed>>

\* The id names the parent run and the child agent: a second contract between
\* them replaces the first, whatever its status, and finds its account.
Register ==
    /\ creator = "idle"
    /\ contract.made < MaxContracts
    /\ contract' = [made |-> contract.made + 1, status |-> "draft"]
    /\ creator' = "registered"
    /\ overlapped' = (overlapped \/ Busy # {})
    /\ UNCHANGED <<account, score, results, breakers, artifacts, manifests, log, asked,
                   pc, exec, killed>>

AnnounceContract ==
    /\ creator = "registered"
    /\ log' = Append(log, Entry("agent.contract.created", 0))
    /\ creator' = "idle"
    /\ UNCHANGED <<rows, manifests, asked, pc, exec, history>>

CreatorDies ==
    /\ creator = "registered" /\ killed < MaxKills
    /\ creator' = "idle"
    /\ killed' = killed + 1
    /\ UNCHANGED <<rows, manifests, log, asked, pc, exec, overlapped>>

-----------------------------------------------------------------------------
(* ether agent execute *)

\* What an execution saves in the end, in this order, by how it went.
Saves(how) ==
    CASE how = "completed" ->
             <<"complete", "artifact", "read_results", "result", "account", "score",
               "finish", "close">>
      [] how = "denied" -> <<"deny", "account", "score", "close">>
      [] how = "denied_often" ->
             <<"deny", "account", "score", "trip", "read_breakers", "breaker", "artifact",
               "stop", "close">>
      [] how = "violation" ->
             <<"trip", "read_breakers", "breaker", "artifact", "score", "stop", "close">>
      [] how = "broken" ->
             <<"trip", "read_breakers", "breaker", "artifact", "account", "stop", "close">>

\* The contract is read, the run manifest created and agent.child.started appended.
Begin(e) ==
    /\ pc[e] = "idle"
    /\ overlapped' = (overlapped \/ ~AtRest)
    /\ Cardinality(Started) < MaxRuns
    /\ overlapped' => Cardinality(Started) < MaxOverlapped
    /\ contract.made > 0
    /\ contract.status \notin {"completed", "stopped"}
    /\ LET run == Cardinality(Started) + 1
       IN  /\ exec' = [exec EXCEPT ![e].run = run, ![e].contract = contract]
           /\ manifests' = [manifests EXCEPT ![run] = "running"]
    /\ pc' = [pc EXCEPT ![e] = "started"]
    /\ UNCHANGED <<rows, log, asked, creator, killed>>

\* Then the account and the score are read.  The capsule or the path asked for
\* is outside the contract, or the contract allows no L1 risk.
Violate(e) ==
    /\ pc[e] = "started"
    /\ exec' = [exec EXCEPT ![e].account = account, ![e].score = score,
                            ![e].outcome = "permission_violation",
                            ![e].how = "violation"]
    /\ pc' = [pc EXCEPT ![e] = "saving"]
    /\ UNCHANGED <<rows, manifests, log, asked, creator, history>>

Exhausted(e) ==
    /\ pc[e] = "started"
    /\ ~CanReserve(account)
    /\ exec' = [exec EXCEPT ![e].account = [account EXCEPT !.status = "exhausted"],
                            ![e].score = score, ![e].how = "broken"]
    /\ pc' = [pc EXCEPT ![e] = "saving"]
    /\ UNCHANGED <<rows, manifests, log, asked, creator, history>>

Reserve(e) ==
    /\ pc[e] = "started"
    /\ CanReserve(account)
    /\ exec' = [exec EXCEPT ![e].account = ReserveRead(account), ![e].score = score]
    /\ asked' = asked \cup {exec[e].run}
    /\ pc' = [pc EXCEPT ![e] = "reading"]
    /\ UNCHANGED <<rows, manifests, log, creator, history>>

\* child.file.read answered: the time it took comes off first.
Settle(e, spent, how, outcome) ==
    /\ exec' = [exec EXCEPT ![e].account = spent, ![e].outcome = outcome,
                            ![e].how = how]
    /\ pc' = [pc EXCEPT ![e] = "saving"]
    /\ UNCHANGED <<rows, manifests, log, asked, creator, history>>

ReadFails(e) ==
    /\ pc[e] = "reading"
    /\ \E used \in Usages, status \in {"stopped", "exhausted"} :
          LET spent == RecordRuntimeUsage(exec[e].account, used)
          IN  Settle(e, [spent EXCEPT !.status = status], "broken", "success")

ReadTooLong(e) ==
    /\ pc[e] = "reading"
    /\ \E used \in Usages :
          LET spent == RecordRuntimeUsage(exec[e].account, used)
          IN  spent.status = "exhausted" /\ Settle(e, spent, "broken", "success")

ReadDenied(e) ==
    /\ pc[e] = "reading"
    /\ \E used \in Usages :
          LET spent == RecordRuntimeUsage(exec[e].account, used)
              denied == RecordPolicyDenial(spent)
          IN  /\ spent.status # "exhausted"
              /\ Settle(e, denied, IF denied.denials >= 3 THEN "denied_often" ELSE "denied",
                        "policy_denial")

ReadCompletes(e) ==
    /\ pc[e] = "reading"
    /\ \E used \in Usages :
          LET spent == RecordRuntimeUsage(exec[e].account, used)
          IN  /\ spent.status # "exhausted"
              /\ Settle(e, RecordLeaseUse(spent), "completed", "success")

\* Policy allows a read the supervisor then cannot carry out (no such file): the
\* answer has no contents, the command throws and saves nothing.
Unreadable(e) ==
    /\ pc[e] = "reading"
    /\ \E used \in Usages :
          RecordRuntimeUsage(exec[e].account, used).status # "exhausted"
    /\ pc' = [pc EXCEPT ![e] = "idle"]
    /\ exec' = [exec EXCEPT ![e] = NoExec]
    /\ UNCHANGED <<rows, manifests, log, asked, creator, history>>

-----------------------------------------------------------------------------
(* The saves *)

\* The next save of e is s.
Saving(e, s) ==
    /\ pc[e] = "saving"
    /\ Saves(exec[e].how)[exec[e].saved + 1] = s
    /\ UNCHANGED <<asked, creator, history>>

Advance(e) ==
    /\ exec' = [exec EXCEPT ![e].saved = @ + 1]
    /\ pc' = pc

Tells(s) ==
    CASE s = "complete" -> "agent.child.completed"
      [] s = "deny" -> "agent.child.policy_denied"
      [] s = "trip" -> "circuit.opened"

Tell(e) ==
    /\ \E s \in {"complete", "deny", "trip"} :
          /\ Saving(e, s)
          /\ log' = Append(log, Entry(Tells(s), exec[e].run))
    /\ Advance(e)
    /\ UNCHANGED <<rows, manifests>>

\* Variant of SaveArtifact: the artifact is not written.
SkipArtifact(e) ==
    /\ Saving(e, "artifact")
    /\ Advance(e)
    /\ UNCHANGED <<rows, manifests, log>>

\* The artifact of a result comes before its row, that of a breaker after it.
SaveArtifact(e) ==
    /\ Saving(e, "artifact")
    /\ artifacts' = artifacts \cup {exec[e].run}
    /\ Advance(e)
    /\ UNCHANGED <<contract, account, score, results, breakers, manifests, log>>

\* A registry is read and then written back whole, without a lock: a row that
\* another command adds in between is lost.
ReadRegistry(e) ==
    /\ \E s \in {"read_results", "read_breakers"} :
          /\ Saving(e, s)
          /\ exec' = [exec EXCEPT ![e].saved = @ + 1,
                                  ![e].copy = IF s = "read_results" THEN results ELSE breakers]
    /\ UNCHANGED <<rows, manifests, log, pc>>

SaveBreaker(e) ==
    /\ Saving(e, "breaker")
    /\ breakers' = exec[e].copy \cup {exec[e].run}
    /\ Advance(e)
    /\ UNCHANGED <<contract, account, score, results, artifacts, manifests, log>>

SaveResult(e) ==
    /\ Saving(e, "result")
    /\ results' = exec[e].copy \cup {exec[e].run}
    /\ Advance(e)
    /\ UNCHANGED <<contract, account, score, breakers, artifacts, manifests, log>>

SaveAccount(e) ==
    /\ Saving(e, "account")
    /\ account' = exec[e].account
    /\ Advance(e)
    /\ UNCHANGED <<contract, score, results, breakers, artifacts, manifests, log>>

SaveScore(e) ==
    /\ Saving(e, "score")
    /\ score' = [exec[e].score EXCEPT ![exec[e].outcome] = @ + 1]
    /\ Advance(e)
    /\ UNCHANGED <<contract, account, results, breakers, artifacts, manifests, log>>

\* Variant of SaveContract: the contract is left as it is.
KeepContract(e) ==
    /\ \E s \in {"stop", "finish"} : Saving(e, s)
    /\ Advance(e)
    /\ UNCHANGED <<rows, manifests, log>>

\* The copy the execution has read, with the new status.
SaveContract(e) ==
    /\ \E s \in {"stop", "finish"} :
          /\ Saving(e, s)
          /\ contract' = [exec[e].contract EXCEPT
                             !.status = IF s = "stop" THEN "stopped" ELSE "completed"]
    /\ Advance(e)
    /\ UNCHANGED <<account, score, results, breakers, artifacts, manifests, log>>

Close(e) ==
    /\ Saving(e, "close")
    /\ manifests' = [manifests EXCEPT ![exec[e].run] =
          IF exec[e].run \in {log[i].run : i \in
                {j \in DOMAIN log : log[j].type = "agent.child.completed"}}
          THEN "completed" ELSE "blocked"]
    /\ pc' = [pc EXCEPT ![e] = "idle"]
    /\ exec' = [exec EXCEPT ![e] = NoExec]
    /\ UNCHANGED <<rows, log>>

\* The process is killed, or a call to the supervisor fails and throws.
Kill(e) ==
    /\ pc[e] # "idle" /\ killed < MaxKills
    /\ pc' = [pc EXCEPT ![e] = "idle"]
    /\ exec' = [exec EXCEPT ![e] = NoExec]
    /\ killed' = killed + 1
    /\ UNCHANGED <<rows, manifests, log, asked, creator, overlapped>>

Save(e) ==
    \/ Tell(e) \/ SaveArtifact(e) \/ ReadRegistry(e) \/ SaveBreaker(e) \/ SaveResult(e)
    \/ SaveAccount(e) \/ SaveScore(e) \/ SaveContract(e) \/ Close(e)

Execute(e) ==
    \/ Begin(e) \/ Violate(e) \/ Exhausted(e) \/ Reserve(e)
    \/ ReadFails(e) \/ ReadTooLong(e) \/ ReadDenied(e) \/ ReadCompletes(e) \/ Unreadable(e)
    \/ Save(e) \/ Kill(e)

Next ==
    \/ Register \/ AnnounceContract \/ CreatorDies
    \/ \E e \in Executors : Execute(e)

Spec == Init /\ [][Next]_vars

-----------------------------------------------------------------------------
(* auditAgentRegistryRebuild *)

Told(type) == {log[i].run : i \in {j \in DOMAIN log : log[j].type = type}}

Completed == Told("agent.child.completed")
Denied == Told("agent.child.policy_denied")
Tripped == Told("circuit.opened")

\* The events whose artifact is there, and what they make of the contract.
Lifecycle == {i \in DOMAIN log :
    \/ log[i].type = "agent.contract.created"
    \/ log[i].type \in {"agent.child.completed", "circuit.opened"} /\ log[i].run \in artifacts}

StatusAfter(type) ==
    CASE type = "agent.contract.created" -> "draft"
      [] type = "agent.child.completed" -> "completed"
      [] type = "circuit.opened" -> "stopped"

\* The rows that the ledger and the artifacts call for.
RebuiltStatus ==
    {StatusAfter(log[i].type) : i \in {j \in Lifecycle : \A k \in Lifecycle : k <= j}}
RebuiltResults == Completed \cap artifacts
RebuiltBreakers == Tripped \cap artifacts

-----------------------------------------------------------------------------
(* Properties *)

\* Commands that come one after the other and run to their end leave the rows
\* the audit derives from the ledger, and a score and an account that count it.
ProjectionsAgree ==
    AtRest /\ ~overlapped /\ killed = 0 =>
        /\ RebuiltStatus \subseteq {contract.status}
        /\ results = RebuiltResults /\ breakers = RebuiltBreakers
        /\ account.denials = Cardinality(Denied)
        /\ score["success"] = Cardinality(Completed)
        /\ score["policy_denial"] = Cardinality(Denied)

\* However commands interleave or die, a row never says what the ledger does not:
\* only the artifact of a breaker may be missing.  And since a manifest is closed
\* last, one that is closed has an event and an artifact that say how its run
\* ended and, without an overlap, the row.
RowsAreRecorded ==
    /\ results \subseteq RebuiltResults
    /\ breakers \subseteq Tripped
    /\ contract.status = "completed" => RebuiltResults # {}
    /\ contract.status = "stopped" => RebuiltBreakers # {}
    /\ \A r \in Runs :
        /\ manifests[r] = "completed" => r \in RebuiltResults
        /\ manifests[r] = "blocked" => r \in Denied \cup RebuiltBreakers
        /\ manifests[r] \in {"completed", "blocked"} /\ ~overlapped =>
               r \in Denied \cup results \cup breakers

\* The reads of runs that ended.
Read(statuses) == {r \in asked : manifests[r] \in statuses}

\* Executions that follow each other pay for what they read: those that came to
\* their end never read more often than the budget allows nor completed more
\* reads than there are leases, the account is short of all of them, however
\* often the contract is created anew, and any read beyond them is of a run that
\* was killed or threw before it paid, whose manifest is open for ever
\* (reserveRead, recordLeaseUse, runAgent).
WithinBudget ==
    ~overlapped =>
        LET ended == Cardinality(Read({"completed", "blocked"}))
            completed == Cardinality(Read({"completed"}))
        IN  /\ ended <= ToolBudget /\ account.tools <= ToolBudget - ended
            /\ completed <= LeaseBudget /\ account.leases <= LeaseBudget - completed

\* A read whose execution opened the breaker: after three denials that is final as
\* soon as the breaker is told, otherwise when the run is closed.
Ended(r) == r \in Tripped /\ (r \in Denied \/ manifests[r] = "blocked")

\* Of executions that follow each other none reads after one that stopped on the
\* account it read on, although the contract is created anew, others find the
\* account spent or violate the contract in between, and commands die
\* (recordPolicyDenial, recordRuntimeUsage, runAgent).
StopsHold ==
    ~overlapped =>
        \A r \in asked : Ended(r) => \A q \in asked : q <= r
=============================================================================
