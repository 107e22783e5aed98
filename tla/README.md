# Aetherion verification project

Aetherion is a local-first agent harness. A workspace is a directory, everything the harness knows about it lives in
files under `.aetherion/`, and almost every command of the program is a short-lived process that reads some of these
files, does something, and writes them back. Two languages share the files: the TypeScript packages under `packages/`
(the `ether` command line in `packages/tui`, the kernel in `packages/harness-core`, and the "OS" packages for memory,
capabilities, surfaces, hibernation and so on) and the Rust supervisor in `crates/supervisor`, which decides policy, does
the mediated file operations and appends its own events to the event ledger.

This directory holds TLA+ models of that program, the TLC configurations that check them on small instances, and proofs
for the TLA+ proof system of what matters most. `PROJECT.json` maps every definition of the models to the lines it
stands for, and lists the runs, the hazards, the findings and the theorems.

Contents: [inventory](#inventory), [plan](#plan), [modules](#modules), [runs](#runs-bounds-and-what-they-show),
[fairness](#fairness), [proofs](#what-is-proved), [findings](#findings), [limits](#what-is-not-modelled).

## Inventory

Paths are relative to the repository. "Hard" names what makes a component hard to test, "correct" what must be true of
it.

### State on disk and the processes that share it

**Event ledger** (`crates/supervisor/src/lib.rs`, `packages/harness-core/src/ledger.ts`).
State: `.aetherion/events/events.jsonl`, one event a line, each naming the hash of the event before it; the lock file
`events.jsonl.lock`; temporary files of a rewrite. Operations: the supervisor appends by rewriting the whole file to a
temporary and renaming it, under the lock; before every request it removes abandoned temporaries and verifies the chain; the
TypeScript side appends a line with flag `a` and takes no lock. Hard: a process dies anywhere, a stale lock is judged
and removed in two steps, the two authors interleave, a read or a removal fails. Correct: the lines of the supervisors are
one append-only log, a link breaks or a TypeScript line is lost only where an unlocked append overlapped something, at most
one process holds the lock, and nobody waits for ever.

**Run manifest** (`packages/harness-core/src/workspace.ts`).
State: `.aetherion/runs/<run>.json`, the list of the run's events that have been projected, a status and a generation;
a lock directory per run. Operations: create, project the ledger's events, complete; each reads the file, checks the
generation and renames a new file over it. Hard: the ledger is not under the manifest lock, a client works on a copy it
read before an await, a call that timed out may still append, a client dies under the lock. Correct: the manifest lists
the first events of the run, in ledger order and without a gap; nothing that was projected disappears; a terminal
status hides no event of a call the client waited for.

**Supervisor client and kernel run** (`supervisor-client.ts`, `run-supervisor.ts`, `run-local.ts`, and the handlers
`traced.read`, `traced.write_prepare`, `traced.write_commit` of `crates/supervisor/src/main.rs`).
State: the run's manifest, its events, the workspace file a write goes to. Operations: start the run, read under a
lease, propose a write, commit it if it was approved, verify, complete. Hard: the write and the events that account for
it are separate steps in another process, which may fail or outlive its caller. Correct: no write without consent,
decision and lease in the ledger before it; the status of the run tells the truth about the file; a run id is not
carried out twice.

**Run ingress** (`cli.ts`, `ether run`).
State: exclusively created files: slots of a rate-limit window, a reservation and a completion per idempotency key.
Operations: take a slot, reserve the key, run, write the completion; or refuse, or replay a completion. Hard: calls race
for files that exist before they have contents, die between two files, fail while the supervisor still acts. Correct: a
key acts at most once, its result is told only to the same intent, a window lets no more past than it has slots, every
call ends.

**Child agents** (`packages/multiagent`, `ether agent contract` and `agent execute` in `cli.ts`, the audit in
`registry.ts`).
State: registry rows (contract, budget account, score, child results, circuit breakers), artifacts, events, manifests.
Operations: create a contract, execute it (reserve, read through the supervisor, account for the use, trip the breaker,
save), rebuild the rows from the ledger. Hard: rows are copied at the beginning and saved at the end, without a lock,
with a crash possible between any two saves. Correct: the rows agree with what the ledger says; the budget is not
overspent; nothing is read after an execution that stopped.

**Workspace versioning** (`packages/harness-core/src/vcs`, `local-file.ts`).
State: blobs and trees named by their hash, the workspace, a branch head and the branch's worktree. Operations: capture,
write with a snapshot before it, roll back, branch, merge, checkout, collect garbage. Hard: everything goes file by file
without a lock, an object is opened (and cut) before it is filled, a collection marks before it sweeps. Correct: a
snapshot that was returned can be restored; an undisturbed operation ends exactly where it should and can be undone.

**Workspace registry and runtime status** (`lib.rs`, `workspace.ts`, `main.rs`).
State: the identity record of the workspace, `supervisor.lock`, the socket and its status file. Operations: create or
adopt the identity, claim and release the runtime, serve one connection after the other. Hard: the status file is
overwritten without a check and removed by whoever ends first. Correct: one identity per workspace; the status names a
supervisor that is alive.

**Approval grants and input admission** (`approval-grants.ts`, `input-admission.ts`).
State: a file of "always" grants, a file of admitted inputs. Operations: load, change, write back. Hard: read, change
and write without a lock. Correct: an input is admitted once, a recorded grant is not lost.

**Governance registries** (`registry.ts` and the governance commands of `cli.ts`, which record through
`recordGovernanceEvent`).
State: a registry file of rows per family (memory candidates, cards, tombstones, user models, timelines, capsules,
rehearsals, personas, signals, surfaces, store records, replay records, wake-ups), artifacts on disk, events in the
ledger. Operations: read a registry, replace or add a row, write the file whole; per family an audit that rebuilds the
rows from events and artifacts and compares. Hard: the event, the artifact and the row are separate writes of a process
that may die; two commands write back the same registry. Correct: each audit accepts exactly the histories the commands
can produce; no row without an event.

### State in memory, pure functions

**Policy, risk, leases and consent** (`policy.ts`, `risk.ts`, `boundary.ts`, `consent.ts`, `lease.ts`, `approval.ts`, and
again in Rust). Stateless: a request, its taint and its consent give a decision and perhaps a lease with an expiry.
Hard: two implementations in two languages must decide alike; a consent binds one write. Correct: they agree; the composed
risk never falls below a part; no lease without a decision that allows it.

**Agent loop** (`agent-loop.ts`).
State: messages, turn counter, pending and settled tool calls, the run's manifest and events. Operations: ask the
provider, run each tool call through policy and approval, append its result, compact, spawn a child loop in a branch
worktree, end. Hard: an approval is awaited between the read of a file and its edit; results must answer calls; a
provider fails and is retried. Correct: each call settles once, edits apply to what was approved, the loop ends within its
turns.

**Agent runtime and providers** (`agent-runtime.ts`, `model-provider.ts`, `provider-config.ts`): a prompt is bound, a model
request prepared, answered and audited, a tool proposed from an audited answer and executed, each with its artifact and
its run; a provider is called with retries and answers in one piece or as a stream. Hard: the request is answered twice,
the prompt changes under it, the stream is cut. Correct: the provider is asked what was bound; tools follow only answers
that passed; what is shown is what was sent, once. **Tool registry and settlement** (`tool-registry.ts`,
`tool-settlement.ts`): tool schemas and the once-only settlement of calls. **Context epochs and references**
(`context-epoch.ts`, `context-refs.ts`): digests that tell whether a prompt prefix is still valid.

**Memory OS** (`packages/memory-os`): candidates become cards by acceptance, cards are hidden by tombstones and blocks, a
context pack selects cards. Correct: a deleted or blocked card is in no later pack.
**Capability OS** (`packages/capability-os`): capsules go from draft over tested to published and may be rolled back.
Correct: nothing is published without passing evidence for the same contents.
**Surface OS and store** (`packages/surface-os`): browser observations, inbox and outbox items, trusted publishers,
installation records. **Sandbox** (`packages/sandbox`): checkpoint, branch, rehearsal, approval against the base that was
rehearsed. **Soul** (`packages/soul`): persona anchors and memory folds that are proposed, accepted, rejected, reset, and
forks. **Hibernation** (`packages/hibernation`): a sleeping run, its triggers, an attention budget; a wake-up needs a
fresh policy decision. **Security** (`packages/security`): scanning for poisoned text, signals, honeypots.
**Causal memory** (`packages/causal-memory`): a graph derived from the ledger, with redaction. **Computer use,
connectors** (`packages/computer-use`, `packages/connector-sdk`): checks of one request. **Orchestrator**
(`packages/orchestrator`): assembles and audits prompt text. **Migration** (`packages/migration`): a dry run that reads a
foreign directory. **Replay and verification** (`replay.ts`, `verify.ts`): derived from the ledger. **Schema validation**
(`schema.ts`). **Command line and resident daemon** (`cli.ts`): the processes in which all of this happens; the
daemon answers typed lines one at a time with the agent loop, and its poller only looks for wakeups to announce. **Skills, personas, proactive notices, notification, fetch, output summary**: text and
one-shot I/O. **Terminal interface** (`packages/tui-go`): rendering.

### How they interact

```
  ether run ── ingress files ──> kernel run ── stdio/socket RPC ──> supervisor ──> workspace files
      |                             |                                  |
      |                             +── run manifest <── projection ── ledger <── agent loop (unlocked append)
      |                                                                ^
  ether agent ── registry rows, artifacts ── recordGovernanceEvent ────+
  ether memory, capsule, surface, ... ── registry rows, artifacts ─────+
  ether vcs, agent loop ── blobs, trees, worktrees ──> workspace files
  agent loop, ether prompt, ether model ── request, retries, stream ──> model provider
```

No component holds a lock across another component's files, except the kernel run, which holds the manifest lock while it
calls the supervisor. The interesting behaviours are therefore those of several processes over files, and of one process
that dies between two files. That is what the models keep at the granularity of single file operations.

## Plan

The order puts first what everything else relies on.

1. *Done.* The ledger (`SupervisorLedger`, refined from `EventLog`), then both authors (`SharedLedger`).
2. *Done.* The run manifest over the ledger (`RunManifest`), then the kernel run over both (`SupervisedRun`).
3. *Done.* The ingress (`Ingress`, refined from `OnceOnly`).
4. *Done.* Child agents, the richest of the governance families, with their rebuild (`ChildAgents`).
5. *Done.* Workspace versioning (`Vcs`).
6. *Done.* The governance families over one module of registries, artifacts, events and kills (`Registries`): memory,
   security and surfaces, capsules and store, sandbox, hibernation, soul, and the prompt evidence, composed in
   `Governance`. What was planned as one abstract projection became the audit of each family, translated from the code:
   the rows are what the audit rebuilds from the ledger and the artifacts, but for what is listed below.
7. *Done.* `AgentLoop`: turns, tool calls, approvals, settlement, reports, child loops.
8. *Done.* `ModelProvider`: retries, timers, streams.
9. `Policy`: both evaluators as operators over a small domain, compared with each other, with the lease clock.
10. `SupervisorRuntime`: `supervisor.lock`, the identity record, the socket, the status a client reads.
11. `Admission`: grants and admitted inputs, and what compaction keeps of a conversation.
12. Overlapping operators in the governance families, as `ChildAgents` has them for its own.

Of the invariants that the runs check, those without a theorem are listed at the end of "What is proved", with the reason.
Of `AuditsExplained` the parts that hold at every moment (`CardsAreTold`, `PersonasAreTold`) are proved. The modules use
no recursive operators, so that all of them can be proved about.

## Modules

| Module | Models | State | One step is |
| --- | --- | --- | --- |
| `EventLog` | the promise of the ledger | the committed events, the acknowledged ones | a commit, an acknowledgement |
| `SupervisorLedger` | `lib.rs`: `LedgerLock`, `append_event_with_payload`, `atomic_rewrite_ledger`, `recover_ledger_on_startup` | the ledger, lock and temp files; per process its program point, what it read, its event | one system call of one process, which may fail, its death, or the ageing of an empty lock file |
| `SharedLedger` | adds `ledger.ts`: `appendEvent` | the TypeScript writers, whether the file each opened is still the ledger; which of their lines were under way beside a rewrite or another append, and which a rewrite overtook | the read, the open or the write of an append |
| `RunManifest` | `workspace.ts`, the calls of `supervisor-client.ts` | the run's ledger events, the manifest file, the lock directory; per client its call, its copies, what it is about to write | one file operation of a client, or one event appended by its supervisor |
| `SupervisedRun` | `run-supervisor.ts` and the handlers of `main.rs` | adds the write of the workspace file | as above, and the write itself |
| `OnceOnly` | the promise of an idempotency key | owner, acted, published, told | a claim, the act, a publication or its end, a telling |
| `Ingress` | `cli.ts`: rate limit, idempotency, cached replay of `ether run` | slot, reservation and completion files, manifests, what was handed to the supervisor | one exclusive create or one write of a file, the clock, the supervisor's act, an event of another client in a run that completed |
| `ChildAgents` | `cli.ts`: `agent contract`, `agent execute`; `multiagent/src/index.ts`; the audit of `registry.ts` | the rows, artifacts, events and manifests; per execution its copies and what it has yet to save | one read or write of a file, one event, one answer of the supervisor |
| `Vcs` | `harness-core/src/vcs`, `local-file.ts` | workspace, worktree, branch head, whole and torn objects; per process its phase and the paths it has left | one file read, written, copied or removed, one object opened or filled |
| `AgentLoop` | `agent-loop.ts`, `tool-settlement.ts`, `consent.ts`, `vcs/subagent.ts`; the approval callback and the admission of calls in `cli.ts` | per level of nesting: program point, turn, conversation, calls left, settlement tracker, ledger, manifest, consent artifacts, workspace; the user's grants and input | one await of the loop with the events it tells, or one answer of the user |
| `Registries` | `registry.ts`: reading and rewriting registries, provenance, comparing rebuilt rows; `cli.ts`: `printJson`, artifacts, `recordGovernanceEvent`, managed runs | rows, artifacts, ledger, other files; per process what it has still to write and what it read | the checks of a command, or one read or write of one file, or one event, or a kill |
| `MemoryOS` | `memory-os/src/index.ts`, folds of `soul/src/index.ts`; `cli.ts`: `memory`, `context`, `dream`; the memory audit | candidates, cards, tombstones, packs | as `Registries` |
| `ContentSecurity` | `security/src/index.ts`, messages and observations of `surface-os/src/index.ts`; `cli.ts`: `security`, `surface`; their audits | assessments, signals, observations, queues | as `Registries` |
| `Capsules` | `capability-os/src/index.ts`, the store of `surface-os/src/index.ts`; `cli.ts`: `capsule`, `store`, `replay`; their audits | capsule versions, installs, publishers, replay records | as `Registries` |
| `Rehearsals` | `sandbox/src/index.ts`; `cli.ts`: `checkpoint`, `branch`, `rehearse`, `approve`; the sandbox audit | checkpoints, branches, rehearsals, the target file and the sandbox | as `Registries`, and an edit of the target |
| `Hibernation` | `hibernation/src/index.ts`; `cli.ts`: `sleep`, `wake`; its audit | sleeping runs, triggers, wake-ups, the clock | as `Registries`, a change of a watched file, a deadline |
| `Soul` | `soul/src/index.ts`; `cli.ts`: `anchors`, `soul` | anchors, persona branch and state, forks | as `Registries` |
| `Prompts` | `agent-runtime.ts`, `orchestrator/src/index.ts`; `cli.ts`: `prompt`, `model`; the evidence audits | bound prompts, requests, answers, audits, proposals and their runs | as `Registries`, a change of the memories |
| `Governance` | the families together and what is claimed of them | the union | a step of the family of this history |
| `ModelProvider` | `model-provider.ts` | the call's point, attempts and failures, what is on the wire and the place read next, what was read and shown | a request, a failure, a wait, a line of the stream |

`SupervisorLedger` and `SharedLedger` share variables (one extends the other), `SupervisedRun` extends `RunManifest`
whose ledger is abstract (the append that `SupervisorLedger` implements), and `Ingress` abstracts the kernel run to what
`SupervisedRun` shows of it: at most one attempt writes, and the status tells whether it did. The families extend
`Registries` and `Governance` extends the families; a history of it is about one family, because no command of a family
reads what another writes (the capsule that a security trial quarantines is in `Capsules`). `MC...` modules hold the
instances for TLC, `...Proofs` modules the theorems. Definitions whose comment begins "Variant of" are ways in which the
code could be wrong; `PROJECT.json` pairs each checked property with a variant that breaks it.

How data is abstracted: a hash is the identity of what is hashed; an event is its id, its parent and its type; a manifest
is its generation, its event ids and its status; a file's contents are one of a few values, with a table that says what
reading them as UTF-8 makes of them; a path is a number. Process ids and nanosecond ids are never reused. What is a
decision of policy elsewhere is an arbitrary choice here.

## Runs, bounds and what they show

| Run | Instance | Shows |
| --- | --- | --- |
| `ledger` | 2 supervisors, killed anywhere, that may fail to remove a stale lock, 2 TypeScript writers without the lock, 3 appends | the lock excludes; the lines of the supervisors implement `EventLog`; a link breaks and a TypeScript line is lost only where appends overlapped; a waiter ends, unless it fails to remove a stale lock for ever |
| `ledger_two_owners` | 3 supervisors | violation: two waiters both own a lock that was stale |
| `manifest` | 2 clients, each one of four commands, killed anywhere, calls that fail or time out | the manifest is a gap-free projection, nothing recorded disappears, a terminal status hides nothing, everyone ends |
| `kernel_run` | 2 uses of one run id, approved or not, same faults | at most one attempt proceeds; its write is evidenced and reported truthfully |
| `ingress` | 3 calls on one key (first, retry, another intent), 2 slots a window, 2 windows, kills, kernel failures, a trace that goes on behind its completion | a key acts once; results go only to the same intent and only while the trace ends where it did; the limit holds; every call ends; a repeat is replayed |
| `child_agents` | 2 executors, 2 creations of the contract, 4 runs (2 once commands overlap), 1 kill, budget of 3 tool calls, 2 leases, 4 time units | rows agree with the ledger, no row without its event; of executions that follow each other each pays for the read it ended with, and none reads after one that stopped |
| `vcs` | 2 processes, 3 operations, 1 outside edit, 1 kill, a binary file and a text file below `node_modules` | returned snapshots stay restorable, undisturbed operations end exactly and can be undone; a merge brings every change of its branch |
| `merge_scope` | 2 operations on a text workspace with a dependency | violation: a merge removes what its branch never had |
| `agent_loop` | 2 calls of any of 8 kinds, 2 turns, 2 levels, 1 fault, 1 outside edit | every call is replied to once and acts at most once, after evidence and approval, on the content that was shown; manifests tell the truth; loops end, or wait for the user or a provider |
| `tool_settlement` | 3 turns of reads | violation: the call of a later answer is denied because an earlier one had its id |
| `governance` | two or three commands of each family by one operator, one command of a reader beside them, 1 kill, outside changes | audits find only what a kill left and what they are known to miss; packs hold nothing deleted; what is published has evidence; wake-ups and forks happen once; the provider is asked what was bound; promotions write what was rehearsed; tools follow audited answers |
| `provider` | each live provider, streamed and not, 2 retries, answers of up to 3 blocks cut anywhere | what is shown and returned is what was sent, once; retries are justified and bounded; the call ends, or waits for the rest of a body whose headers came |

Why the bounds are enough. The ledger's races need a dead owner and two waiters (three processes) or one append
overlapping another (two processes, three appends: one before, two that race). In `ledger` there are two supervisors
because with three the lock does not exclude, which `ledger_two_owners` shows; that a chain of supervisors alone stays valid, and that
with both authors it breaks only where an append overlapped, holds with any number of them and under every fault, which
is proved (`ChainAlwaysValid`, `CrossAuthorAlwaysChain`). A manifest race has two sides; four commands cover the four ways the code locks (around the call,
after it, not at all while creating, a child's call that is awaited to its end). A key has an owner, a repeat and a conflict. Two
windows let a call read the clock before the window turns. The tool budget of a child
contract is three, so that three denials and an exhausted account are met within four runs; the two leases bind although a contract allows
two completions at most only because a kill between the account and the contract leaves a contract that can be executed
again. A second contract under the same id meets the account of the first. Two overlapping executions can lose each other's rows; a third adds nothing that is
claimed. Three operations in `Vcs` are enough to snapshot, change and roll back, or to branch, change and merge; two
processes suffice for a torn object to be found by the other.
Two calls meet in one answer, in two turns, or in parent and child: each way in which
an id can be repeated, a record of the first be missing when the second is decided, and a child act while its parent holds an approval. Eight
kinds of call are the eight paths through `processToolCall`. A governance history starts from registries in which a
record of each kind exists already (the `...Starts` of each family), so that two or three commands reach the end of each
lifecycle: draft, test and publish; sleep, wake and wake again; bind, answer and audit beside a second answer. One kill
suffices because a killed command leaves a difference that later commands see; a second kill leaves another. Two retries
show a wait that is named by the provider, one that is not, and the last failure; three blocks put a call between texts.

`vcs` is explored under the constraint `StillClaimed`: states after a collection beside another operation, or after a
kill together with an overlap, are not followed, because nothing is claimed of them (see the findings). In `agent_loop` a
loop may run out of its turns, but the bound on calls would end it as well: `LoopEnds` says nothing of the bound on turns.
The depth of nesting is bounded by the model, not by the code. Symmetry is used
only in runs that check safety. Deadlock is not checked where the bounds, a dead process or an answered request end the system.

## Fairness

* `SupervisorLedger` (`CallsReturn`): a running process keeps executing the call it is in. The code is a loop with a
  sleep and a 5 s limit; starvation is possible only through the limit, which ends the wait. That a removal of a stale lock succeeds is not assumed: a
  failed one skips the limit (`lib.rs:604`), and `CallsReturn` leaves aside a process whose removals fail for ever. Nothing is assumed of kills,
  of ageing locks or of new requests.
* `RunManifest` (`ClientsEnd`): a client that is not killed runs on, and a supervisor that is alive serves its call.
  Nobody waits for a lock in this code, so that no fairness between clients is needed.
* `Ingress` (`CallsEnd`, `RepeatsAreReplayed`): a started process runs on and the supervisor carries out what it was
  given. The clock is not fair.
* `AgentLoop` (`LoopEnds`): the loops go on, but for those that wait for a provider, and the end of the input is told to the
  question that waits for it. Neither the user nor a provider need answer: the first loop has ended, waits at a question, or some
  loop waits for its provider.
* `ModelProvider` (`CallEnds`): the program goes on and its timer fires. The provider need not answer, and a body whose
  headers have arrived need not go on, since nothing in the code limits its duration: the call ends or waits for its body.

## What is proved

All theorems hold for every value of the constants that satisfies the named assumption of the component's module; a
further restriction is part of the theorem.

`SupervisorLedgerProofs`
* `TypeCorrect`. The type invariant is not inductive: that a temp file is a sequence of events needs that its writer has an
  event id (`HasEvent`) and that only appends write (`WritersAppend`).
* `ChainAlwaysValid`: the ledger is a valid chain whatever is killed, stolen, raced or misread. `ChainInv` adds that every
  snapshot and every temp file is a valid chain itself: a rewrite installs some valid chain, if not the latest. The lemma
  `ExtendedChain` says that extending a chain by an event that names its end gives a chain.
* `LockExcludes`: the lock excludes if no process dies while it owns the lock and a created lock file gets its pid
  (`OwnersSurvive`). `LockInv`: the lock file exists exactly while its creator is in the critical section, and is never
  taken for stale. The restriction is necessary: `ledger_two_owners` violates it.
* `LedgerImplementsLog`, `AckedAlwaysDurable`: under the same restriction and if reads succeed, the supervisors implement
  `EventLog`. `LogInv`: what the owner read is still what the file holds; ids are handed out once; a call about to return has its event
  in the file. `Rename` is the commit, `Return` the acknowledgement, everything else a stutter.
* `CrossAuthorAlwaysChain`: with any number of TypeScript writers that take no lock, and under every fault and kill, a
  link of the ledger breaks only at a line that was under way beside a rewrite of a supervisor or beside another append.
  `LinksInv` says it of the file, of what every process has read, and of what it is about to write.
* `SharedAlwaysDurable`: beside such writers what a supervisor acknowledged stays, and a TypeScript line is lost only if a rewrite overtook it,
  while owners of the lock survive and reads succeed. `KeptInv`: what the owner of the lock has read, and what it is about to put in place, holds every acknowledged
  line but those noted as overtaken.

`RunManifestProofs`
* `TypeCorrect`, which needs that ledger ids count up and that what a call returns is in the ledger.
* `ProjectionAlwaysPrefix`: a readable manifest lists the first events of its run whatever races or dies. `WritesPrefix`
  shows why: neither lock nor generation is needed for it, since every manifest on its way to the file was compared with the ledger, and
  the ledger only grows.
* `RecordedAlwaysStays`: what a client has recorded stays, once one creator has written the manifest. `ShapeInv` says what a client has in hand at each
  point of a command; `BehindInv` that all that clients know begins the file and what is about to be written to it, and that
  whoever is under the lock has loaded the manifest that is still there.
* `TerminalAlwaysWhole`: a terminal manifest that one client holds lists every event of the run. Only a client that gave up
  on its call leaves the supervisor something to append (`CallsInv`), and such a client never completes (`TerminalInv`).
* `OneAlwaysProceeds`, of `SupervisedRun` as the next: of the attempts to carry out one run id one at most records more than its first event. The owner
  is the attempt that got the first event of the run, the only one with id 1 (`OwnerInv`). A manifest has left generation 0
  exactly if it has recorded an event, and an attempt goes on only if it recorded its own (`AttemptInv`).
* `RunAlwaysTellsTheTruth`: what the manifest says of the workspace file agrees with the file. The six events around the write
  are told in one order; `TruthInv` says up to which of them (`UpTo`) the ledger goes at each point of
  the client that commits, that the write comes after the third, and which of them a manifest with a terminal status
  rests on (`Tells`).

`IngressProofs`
* `TypeCorrect`; `AtMostOneActs`: `OwnInv` says that whoever is past the reservation, or was handed to the supervisor,
  owns its key, and owners never change.
* `IngressImplementsOnceOnly`: `PublishInv` adds what a completion file, a caching call and a replaying call know.
  `Reserve` is the claim, `Act` the act, `WriteCompletion` the publication, `Drift` its end, `Replay` the telling.
* `RateLimitHolds`: `SlotInv`, a call let past has a slot file of its own; the injection into the slots bounds their number.

`ChildAgentsProofs`
* `RowsAlwaysRecorded`, `BudgetAlwaysKept`, `ProjectionsAlwaysAgree`, `StopsAlwaysHold`, all from `AgentInv`, which is
  built in layers: `Typed`; `Numbered` (an execution has a run of its own, runs are numbered as they start); `Traced`
  (what the ledger, the artifacts and the rows hold of a run is what its execution has saved so far); `Afforded` (what an
  account has left, with the runs it has paid for, is the budget: a sum over runs, kept as cardinalities of sets that a
  step grows by one); `Final` (after an execution that stopped the account is not active, whoever registers the contract
  anew, and no read is newer); `Projected` (in the midst of one undisturbed execution, how far the rows are from what the audit
  derives). A layer is inductive given those before it.

`AgentLoopProofs`
* `NoCallActsTwice`: in a loop no call id has its effect twice. That every id acted on is settled is not inductive,
  because the call in hand is settled too: `InHandSettled` adds that from its settlement to its act nothing acted under its
  id. Most steps neither settle nor act; `CalmKeeps` deals with them once.
* `RepliesAlwaysMatch`, `ActsAlwaysEvidenced`, `ContentAlwaysApproved`, `ManifestAlwaysTells`, `SuccessAlwaysRecorded`, all
  from `LoopInv`: calls have serials in the order they are met and nothing is told yet of those that are left
  (`Numbered`); the call in hand has been told as far as its program point says (`Evidenced`); the conversation ends in
  the replies to the calls that are done (`Answering`); acts, results and successes are accounted for (`Accounted`); a
  level that has ended has a manifest that says so (`Closed`). A step is a step of one level; the others keep
  theirs because they share with it only what grows (`OthersKeep`). What changes a workspace from
  outside is counted (`OutsideCounted`), so that the approval of content can leave it aside.

`ModelProviderProofs`
* `RetriesAlwaysJustified`: a provider is tried again only after failures that may pass, within the bound, after waits within
  the limit. `RetryInv` adds how many failures there are at each point of the call: as many as attempts before this
  one until it fails, one more while the call waits or has failed. `DelaysAreBounded` says that a delay the provider asks
  for is cut.
* `AnswersAlwaysAsSent`: what is handed to the caller is what the provider sent, of one attempt, once and in order.
  `StreamInv`: what has been read is told by the place where the stream is read next, the blocks before it to their end
  and its own up to its line, in the way each provider cuts a block into lines. Blocks are listed by their rank among the
  indexes of their kind, so that a prefix lists the first of them (`FirstsComeFirst`) and the block read last comes last
  (`GreatestComesLast`).

`VcsProofs`
* `SnapshotsAlwaysKept`: a snapshot that was returned can be restored. The shape of a job (`WellShaped`: which phases are
  left, and that only a capture stores anything) carries the layers of `StoreInv`: a collection that does not race is
  alone (`Alone`); without kills and races what is torn is being filled by somebody, and what a capture has read or returned is there, whole or torn
  (`Stored`), so that at rest it is whole; without overlaps, whoever is killed, what is about to
  be opened is not there, so that no whole object is ever torn again (`Kept`).
* `AlwaysUndoable`, `EndsAlwaysExactly`: an operation that nothing overlaps and nobody kills leaves a snapshot of the text it
  found, and ends exactly in the tree it was to reach; a merge brings every change of its branch. `CalmInv` says how far a job that works alone has come: a capture has read all but
  the paths left, a rollback has restored all but those, a merge, a checkout and a new worktree likewise, and until it
  changes the workspace an operation finds it as it began. Every step keeps that or, if it is the
  last, ends well (`GoesOn`, one lemma per step of the program). That the paths of a phase have a first is the one
  induction of the project, by the well-foundedness of `<` (`FirstIsIn`).

`GovernanceProofs`, for every number of operators, readers, commands and kills unless it says otherwise. A plan is known by
the set of its steps (`Joined`, `Left`), and what a command may still write is a property of that set.
* `PublishedAlwaysHasEvidence`: what is published has its evidence, also when overlapping upserts lose rows. `EvidenceInv`
  says it of every table of capsules, of every table that a process has read and will write back, and of every row in a
  plan; a table put over a table of sound rows has sound rows, however old it is. It needs that nobody signs a package as
  published that `publishCapsule` did not return (`PackagesAssumption`).
* `PacksAlwaysClean`, with one operator (`OneOperator`): a pack selects no memory whose tombstone was there when the report
  began. `TombInv`: tombstones are never removed or altered, since a table about to be written back
  holds those that are there, and a report under way keeps the tombstones it saw. Two operators can lose a tombstone: the
  registry is read and written without a lock.
* `PromotionsAsRehearsed`, of the sandbox family and with one operator: a promotion commits what was rehearsed over what it was rehearsed
  against, unless the file is edited while it is under way. `PromotionInv`: of a plan that commits, the commit comes once,
  after the sandbox is read again and before something else, and no step of it rehearses; what the promotion has checked
  therefore still holds when it commits. A second operator could rehearse the branch anew in between.
* `AnswersAlwaysBound`, with one operator and any number of second terminals: the answer on record is to the prompt its
  request was bound to, and of two answers to one request one at least is of a second terminal. `AnswerInv`: a plan
  writes the request before its answer and the answer before it is told of and audited (`InOrder`); a request on record
  is never replaced; whatever a plan answers is on record or comes earlier in the plan; and the operator asks
  what is not asked yet and answers what only second terminals have answered. What the workspaces a history starts from hold
  follows from the ranks of the events in the plans they were made by (`EntriesOfEvents`).
* `ToolsAlwaysFollow`, under the same restriction: a tool is proposed only while the answer on record conforms, and
  executed only while it does or a second terminal is replacing it. `ProposalInv`: a proposal cites the first audit of its
  answer; unless a later audit follows, the answer on record conforms or a second terminal has yet to tell
  of its audit. The operator replaces no answer that a proposal rests on. Two operators could: one answers anew between
  the check of the other and its proposal.
* `OnceAlwaysOnce`, with one operator: an agent identity is forked once, and a sleep is woken once, unless the first was
  cut short after its event. A plan that counts is some steps that do not, the step that does, and the rest (`Ahead`):
  the event and then the row of a fork, the event and then the record of a wakeup, a trigger and then the record of a
  sleep. `ForkInv`: whoever is about to tell of a fork found no row, and a fork that is told of has its row, is still to
  get it, or was cut short. `WakeInv`: after a wakeup the run does not sleep, or was put to sleep again, or its record is
  still to be written, or that was cut short; and a record of a sleep is written only after a trigger newer than every
  wakeup. It needs that triggers keep the number of their sleep and are never removed, and that a table is still what
  was read when it is written back (`Fresh`), which one operator ensures. Two operators could both find no row of a fork. The
  six other families tell of neither (`MuteInv`); that there are eight is `FamiliesAssumption`.
* `CardsAlwaysTold`, `PersonasAlwaysTold`, for any number of operators: no row runs ahead of the ledger. Cards, tombstones,
  the anchors of a persona and forks have their events at every moment, whoever is killed and whatever upserts overlap.
  `FollowsInv` says it of the tables, of every table that a process has read and will write back, and of the plans: those have
  two parts, and the rows of the second may follow from what the first tells (`FollowsPlan`), which is the order of the
  code, the event before the row; what the ledger tells it tells from then on (`FollowsMore`). That every event of the plans a
  workspace starts from is in its ledger follows from their ranks (`EveryEventEntered`).

Type correctness is proved for every component with a proof module but `Governance`, and not checked by a run where a
theorem or a lemma says it. The rows, artifacts and events of the governance families are of many types; the invariants
above say of them what they need (`Shaped`, `EvidenceInv`, `TombInv`, `PromotionInv`, `AnswerInv`, `ProposalInv`,
`ForkInv`, `WakeInv`, `FollowsInv`).

Only model-checked are
* liveness and fairness, which are outside of what the prover does;
* of `Governance`: the part of `AuditsExplained` about the audits, because they fold over the ledger or select from it, and
  what that computes for every input takes an induction with an operator as parameter, which none of the provers can
  instantiate (its parts about every moment are proved, `CardsAlwaysTold` and `PersonasAlwaysTold`);
* `SharedImplementsLog`, which selects the lines of the supervisors from the ledger;
* the three runs that show violations.

## Findings

Each of these has a run with a counterexample:

* `ledger_two_owners`: `LedgerLock::acquire` judges a lock stale and then removes whatever file is at the path
  (`lib.rs:606`). The second of two waiters removes the lock the first has just created.
* `tool_settlement`: `settle` compares the id of a call with all ids that have settled, whichever answer they were in
  (`tool-settlement.ts:37`), although the module and `docs/16-openclaw-baseline.md:221` settle calls per answer. Providers that number the calls of each answer anew
  (`model-provider.ts:1125`, `1255`) get their second round of calls denied.

* `merge_scope`: `mergeBranch` compares the worktree with main as it is, and not with the tree the branch began from
  (`branch.ts:202`). A worktree has no `node_modules`, the snapshot of main has them, although `tree-snapshot.ts:35` says they are
  excluded: the merge removes them. What was changed in main since the branch was made is taken back as well.

Seen while modelling, modelled as the code has it, and without a run of its own:

* `append_event_with_payload` takes a failed read for an empty ledger and writes that back with one event
  (`lib.rs:494`); the runs leave this fault out.
* `appendEvent` takes no lock (`ledger.ts:50`): two clients that append at once, an agent loop beside a supervised run,
  fork the chain the documents describe as cross-author, and a rewrite that overtakes a line loses it. `CrossAuthorChain` and
  `SharedDurable` say that nothing else does.
* A waiter that fails to remove a stale lock ignores the failure and goes on before it looks at its 5 s limit
  (`lib.rs:604`): as long as the removal fails it spins.
* The breaker of a read that took too long is told before the account is saved (`cli.ts:7557`): a command killed between
  leaves account and contract as they were, and the next execution reads again.
* `createRunManifest` is not under the manifest lock (`workspace.ts:296`), two runs of one id may both create it.
* An allowed child read that the supervisor cannot carry out throws after the reservation in memory (`cli.ts:7590`): the
  contract stays executable and the account unpaid.
* For the same reason as a merge, a checkout removes `node_modules`.
* Captures read files as UTF-8: a rollback of a binary file writes its garbled text.
* A writer killed while it fills an object leaves it torn under its final name; existence is the test for storing it, so
  that it is never repaired.
* A collection marks trees before it sweeps blobs: a capture beside it loses blobs its tree will name. Nothing calls the
  collector while others work today.
* A client killed under the manifest lock leaves the lock directory (`workspace.ts:555`), and no update of that run is accepted again.
* `readApprovalLine` promises "a deny decision on EOF" (`cli.ts:5145`), but the `end` event of stdin comes once: the
  proposal after the denied one waits for ever (`cli.ts:5171`). Once a line was read, an end of the input between two
  proposals is heard by nobody.
* Consent artifacts of a run's writes share one name, those of other calls a name by verb and turn (`consent.ts:24`): the
  later replaces the earlier.
* A child loop that ends with an error or runs out of turns is reported to its parent as a success (`agent-loop.ts:882`);
  children may spawn without a limit on the depth.
* A non-interactive loop approves everything policy asks about, where the comment at `cli.ts:5102` says that higher risk
  still asks.
* The daemon's poller calls `evaluateWakeup(trigger, hibernations, now)` (`cli.ts:5216`), whose parameters are
  `(workspaceRoot, record, trigger, now)` and whose result has no `trigger` member (`packages/hibernation/src/index.ts:132`):
  with a pending trigger the `TypeError` is swallowed and nothing is announced, where `cli.ts:5177` says that triggers are polled.
* `file_edit` reads before the user is asked and writes the whole file after (`agent-loop.ts:1006`): what others wrote in
  between is lost, though what is written is what was shown.
* A write is reported to the model as failed when it was made and only its record failed (`agent-loop.ts:1120`).

In the governance families, as values of `...AuditMisses` where an audit is concerned:

* Artifacts are overwritten in place (`cli.ts:9220`), where `docs/12` line 400 speaks of immutable command artifacts: a
  second command of the same name changes what earlier events point to.
* `store trust-publisher` prints through `printJson`, which files the publisher among the installed capsules.
* A rollback is not asked for approval when it gives tools back (`cli.ts:6701`, against `README.md:248`), and takes a
  quarantine away when a version was published after it.
* A second sleep of a run leaves the triggers of the first, which may wake the new one; the attention budget of three
  cannot be used up, since each sleep grants a new one. The audit of wake-ups reads two artifacts of one path as one and
  reports a drift.
* `anchors list` writes back the rows it read. Chat accepts an episode again that was rejected or deleted.
* Binding a prompt again invalidates the evidence of proposals made before (`cli.ts:4905`). The execution of a tool looks
  at the audit and not again at the answer (`cli.ts:6155`).
* The user model and folds cite memories that were deleted.

In the providers:

* `docs/14-runtime-loop-plan.md` says that a live call must not hang the command line; the body of an answer has no time
  limit (`model-provider.ts:1742`).
* A stream that is cut counts as finished, and error events in the middle of an Anthropic stream are ignored; the Chat
  API provider hands out a call whose arguments are not whole (`model-provider.ts:1009`).
* `invokeWithTools` of the Responses API ignores the conversation of the request (`model-provider.ts:842`).
* The model named in the configuration file is used only for the stub provider (`model-provider.ts:538`).

## What is not modelled

The components with status `not_modelled` in `PROJECT.json` say why, and which module of the plan is to hold them. Beyond
that: the contents of prompts, cards and reports, the text patterns of the security scanner, provider payloads, JSON
schemas, rendering in the terminal and the Go interface are data without control. Within the modelled components: more
than one workspace or run id per instance (they share no file but the ledger, where events of other runs are other ids); losses of the file
system (a rename or write that returned is durable); process ids that are reused; a full disk, other than as a failing call. In `AgentLoop`: the check of the context epoch, which compares a
registry that nothing changes with itself; the expansion of @-references, whose failures are ignored; the expiry of
consents, which the loop does not look at; what commands of `shell_exec` do, which are not confined to the workspace. In `Governance`: two operators
at once in one family, which lose each other's rows as in `ChildAgents`; a registry file cut in the middle of its one
write, which every later command of its family refuses to read; relevance scores, texts and the patterns they are scanned
for. In `ModelProvider`: the stub provider and the mapping of conversations to the formats of the providers. Policy, the
supervisor's runtime lock and socket, admitted inputs, causal memory, computer use, connectors, migration and schema
validation have no module: the first three are in the plan, the others are reports or checks of one value that keep no
state.
