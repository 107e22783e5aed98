--------------------------- MODULE ChildAgentsProofs ---------------------------
(***************************************************************************)
(* Proofs about ChildAgents, for any number of executors, runs, kills and   *)
(* contracts and any budgets.  The invariant is built in layers, each       *)
(* proved with the help of those before it:                                 *)
(*                                                                          *)
(*   Typed      types, and how far the saves of an execution may be;        *)
(*   Numbered   runs are numbered in the order of their start, and an       *)
(*              execution has a run of its own;                             *)
(*   Traced     what the ledger, the artifacts and the rows hold of a run   *)
(*              is what its execution has saved so far;                     *)
(*   Afforded   what an account has left, with the runs it has paid for;    *)
(*   Projected  between the saves of one undisturbed execution, how far     *)
(*              the rows are from what the audit derives.                   *)
(***************************************************************************)
EXTENDS ChildAgents, FiniteSetTheorems, SequenceTheorems, TLAPS

EventTypes ==
    {"agent.contract.created", "agent.child.completed", "agent.child.policy_denied",
     "circuit.opened"}

Hows == {"completed", "denied", "denied_often", "violation", "broken"}

Contracts == [made : Nat, status : {"draft", "completed", "stopped"}]
Accounts ==
    [tools : Nat, leases : Nat, time : Nat, denials : Nat,
     status : {"active", "stopped", "exhausted"}]
Scores == [Outcomes -> Nat]
Execs ==
    [run : Nat, contract : Contracts, account : Accounts, score : Scores,
     outcome : Outcomes, copy : SUBSET Runs, how : Hows \cup {"none"}, saved : Nat]

TypeOK ==
    /\ contract \in Contracts
    /\ account \in Accounts
    /\ score \in Scores
    /\ results \subseteq Runs /\ breakers \subseteq Runs /\ artifacts \subseteq Runs
    /\ manifests \in [Runs -> {"none", "running", "completed", "blocked"}]
    /\ log \in Seq([type : EventTypes, run : Nat])
    /\ asked \subseteq Runs
    /\ creator \in {"idle", "registered"}
    /\ pc \in [Executors -> {"idle", "started", "reading", "saving"}]
    /\ exec \in [Executors -> Execs]
    /\ overlapped \in BOOLEAN
    /\ killed \in Nat

\* An execution that saves has a save to make.
Underway(e) ==
    /\ exec[e].how \in Hows
    /\ exec[e].saved < Len(Saves(exec[e].how))

Placed(e) ==
    /\ pc[e] = "saving" => Underway(e)
    /\ pc[e] # "saving" =>
          exec[e].saved = 0 /\ exec[e].how = "none" /\ exec[e].outcome = "success"
    /\ pc[e] = "idle" => exec[e] = NoExec
    /\ pc[e] # "idle" => exec[e].run \in Runs
    /\ pc[e] = "reading" => exec[e].account.leases >= 1

Typed ==
    /\ TypeOK
    /\ \A e \in Executors : Placed(e)

-----------------------------------------------------------------------------
(* The invariant *)

Closed == {"completed", "blocked"}

\* Every run that left something behind was started, no two executions share a
\* run, and without an overlap there is one actor at a time.
Numbered ==
    /\ \E n \in 0..MaxRuns : \A r \in Runs : manifests[r] # "none" <=> r <= n
    /\ \A e \in Busy : exec[e].run \in Runs /\ manifests[exec[e].run] = "running"
    /\ \A e, f \in Busy : e # f => exec[e].run # exec[f].run
    /\ results \cup breakers \cup artifacts \cup asked \subseteq Started
    /\ Completed \cup Denied \cup Tripped \subseteq Started
    /\ ~overlapped =>
          /\ \A e, f \in Busy : e = f
          /\ creator = "registered" => Busy = {}

\* The save an execution makes next, and those it has made.
NextSave(e) == Saves(exec[e].how)[exec[e].saved + 1]
Did(e, s) == pc[e] = "saving" /\ \E i \in 1..exec[e].saved : Saves(exec[e].how)[i] = s

\* What is known of the run of an execution is what it has saved.
OwnTraces ==
    \A e \in Busy :
        /\ exec[e].run \in Completed <=> Did(e, "complete")
        /\ exec[e].run \in Denied <=> Did(e, "deny")
        /\ exec[e].run \in Tripped <=> Did(e, "trip")
        /\ exec[e].run \in artifacts <=> Did(e, "artifact")
        /\ exec[e].contract.status = "draft"
        /\ pc[e] = "started" \/ (pc[e] = "saving" /\ exec[e].how = "violation") =>
               exec[e].run \notin asked

\* A copy of a registry holds recorded rows, and all of them without an overlap.
Copies ==
    \A e \in Executors : pc[e] = "saving" =>
        /\ NextSave(e) = "result" =>
              exec[e].copy \subseteq RebuiltResults /\ (~overlapped => exec[e].copy = results)
        /\ NextSave(e) = "breaker" =>
              exec[e].copy \subseteq Tripped /\ (~overlapped => exec[e].copy = breakers)

OwnRows ==
    ~overlapped => \A e \in Busy :
        /\ exec[e].run \in results <=> Did(e, "result")
        /\ exec[e].run \in breakers <=> Did(e, "breaker")

Traced == OwnTraces /\ Copies /\ OwnRows /\ RowsAreRecorded

\* The runs that count against the tool budget and against the lease budget.
Paid == {r \in asked : manifests[r] \in Closed}
Leased == {r \in asked : manifests[r] = "completed"}

One(condition) == IF condition THEN 1 ELSE 0

\* The account the rest of an execution will leave.
Held(e) == IF Did(e, "account") THEN account ELSE exec[e].account

Afforded ==
    ~overlapped =>
        /\ account.tools + Cardinality(Paid) <= ToolBudget
        /\ account.leases + Cardinality(Leased) <= LeaseBudget
        /\ \A e \in Executors : pc[e] \in {"reading", "saving"} =>
              /\ Held(e).tools + Cardinality(Paid) + One(exec[e].run \in asked) <= ToolBudget
              /\ Held(e).leases + Cardinality(Leased) + One(exec[e].how = "completed")
                    <= LeaseBudget

\* No command has overlapped another or died.
Calm == ~overlapped /\ killed = 0

\* The rows of the runs that are over.
RowsProjected ==
    \A r \in Runs : (\A e \in Busy : exec[e].run # r) =>
        /\ r \in results <=> r \in RebuiltResults
        /\ r \in breakers <=> r \in RebuiltBreakers

\* The runs that are counted, until an execution has saved its count.
Counted(e, s, runs) == IF Did(e, s) THEN runs ELSE runs \ {exec[e].run}

Denying == {"denied", "denied_often"}
Stopping == {"denied_often", "broken"}

OutcomeOf(how) ==
    CASE how \in {"completed", "broken"} -> "success"
      [] how \in Denying -> "policy_denial"
      [] how = "violation" -> "permission_violation"

CountsProjected ==
    /\ (\A e \in Executors : pc[e] # "saving") =>
          /\ account.denials = Cardinality(Denied)
          /\ score["success"] = Cardinality(Completed)
          /\ score["policy_denial"] = Cardinality(Denied)
    /\ \A e \in Executors : pc[e] = "reading" =>
          exec[e].account.denials = account.denials /\ exec[e].score = score
    /\ \A e \in Executors : pc[e] = "saving" =>
          /\ account.denials = Cardinality(Counted(e, "account", Denied))
          /\ ~Did(e, "account") =>
                exec[e].account.denials = account.denials + One(exec[e].how \in Denying)
          /\ score["success"] = Cardinality(Counted(e, "score", Completed))
          /\ score["policy_denial"] = Cardinality(Counted(e, "score", Denied))
          /\ ~Did(e, "score") => exec[e].score = score
          /\ exec[e].outcome = OutcomeOf(exec[e].how)

\* The events of an execution that is not done are the last of the ledger.
LastIs(type, run) == log # <<>> /\ log[Len(log)] = Entry(type, run)

SavedContract(e) == Did(e, "finish") \/ Did(e, "stop")

StatusProjected ==
    /\ creator = "registered" => contract.status = "draft"
    /\ creator = "idle" /\ (\A e \in Busy : Did(e, "artifact") => SavedContract(e)) =>
          RebuiltStatus \subseteq {contract.status}
    /\ \A e \in Busy :
          /\ ~SavedContract(e) => exec[e].contract = contract
          /\ Did(e, "complete") => LastIs("agent.child.completed", exec[e].run)
          /\ Did(e, "trip") => LastIs("circuit.opened", exec[e].run)

Projected == Calm => RowsProjected /\ CountsProjected /\ StatusProjected

\* The last run to begin is the one at work.  While an execution has read and
\* not saved the account, that is active; what an execution that stops saves is
\* not, and an execution that has not read saves no other.
Final ==
    ~overlapped =>
        /\ \A e \in Busy : \A r \in Started : r <= exec[e].run
        /\ \A e \in Executors : pc[e] = "reading" =>
              account.status = "active" /\ exec[e].run \in asked
        /\ \A e \in Executors : pc[e] = "saving" =>
              /\ exec[e].how \in Stopping => exec[e].account.status # "active"
              /\ exec[e].run \in asked =>
                    IF Did(e, "account") THEN account = exec[e].account
                    ELSE account.status = "active"
              /\ exec[e].run \notin asked => exec[e].how \in {"violation", "broken"}
        /\ \A r \in asked : Ended(r) =>
              account.status # "active" /\ \A q \in asked : q <= r

AgentInv == Typed /\ Numbered /\ Traced /\ Afforded /\ Final /\ Projected

-----------------------------------------------------------------------------
(* Lemmas about the operators of the model *)

\* What a reservation, a denial, the time a read took, a lease and a new status
\* leave of an account.
LEMMA ReservedAccount ==
    ASSUME NEW a \in Accounts, CanReserve(a)
    PROVE  /\ ReserveRead(a) \in Accounts
           /\ ReserveRead(a).tools + 1 = a.tools
           /\ ReserveRead(a).leases = a.leases /\ ReserveRead(a).leases >= 1
           /\ ReserveRead(a).denials = a.denials
  BY DEF CanReserve, ReserveRead, Accounts

LEMMA DeniedAccount ==
    ASSUME NEW a \in Accounts
    PROVE  /\ RecordPolicyDenial(a) \in Accounts
           /\ RecordPolicyDenial(a).tools = a.tools
           /\ RecordPolicyDenial(a).leases = a.leases
           /\ RecordPolicyDenial(a).denials = a.denials + 1
           /\ a.denials + 1 >= 3 => RecordPolicyDenial(a).status = "stopped"
  <1> DEFINE denials == a.denials + 1
             status == IF a.denials + 1 >= 3 THEN "stopped" ELSE a.status
  <1>1. denials \in Nat /\ status \in {"active", "stopped", "exhausted"}
    BY DEF Accounts
  <1>2. RecordPolicyDenial(a) = [[a EXCEPT !.denials = denials] EXCEPT !.status = status]
    BY DEF RecordPolicyDenial
  <1>3. a.denials + 1 >= 3 => status = "stopped"
    OBVIOUS
  <1> HIDE DEF denials, status
  <1> QED
    BY <1>1, <1>2, <1>3 DEF Accounts, denials

LEMMA UsedAccount ==
    ASSUME NEW a \in Accounts, NEW used \in Nat
    PROVE  /\ RecordRuntimeUsage(a, used) \in Accounts
           /\ RecordRuntimeUsage(a, used).tools = a.tools
           /\ RecordRuntimeUsage(a, used).leases = a.leases
           /\ RecordRuntimeUsage(a, used).denials = a.denials
  <1> DEFINE time == IF used >= a.time THEN 0 ELSE a.time - used
             status == IF used > a.time THEN "exhausted" ELSE a.status
  <1>1. time \in Nat /\ status \in {"active", "stopped", "exhausted"}
    BY DEF Accounts
  <1>2. RecordRuntimeUsage(a, used) = [[a EXCEPT !.time = time] EXCEPT !.status = status]
    BY DEF RecordRuntimeUsage
  <1> HIDE DEF time, status
  <1> QED
    BY <1>1, <1>2 DEF Accounts

LEMMA LeasedAccount ==
    ASSUME NEW a \in Accounts, a.leases >= 1
    PROVE  /\ RecordLeaseUse(a) \in Accounts
           /\ RecordLeaseUse(a).tools = a.tools
           /\ RecordLeaseUse(a).leases + 1 = a.leases
           /\ RecordLeaseUse(a).denials = a.denials
  BY DEF RecordLeaseUse, Accounts

Stop(a, status) == [a EXCEPT !.status = status]

LEMMA StoppedAccount ==
    ASSUME NEW a \in Accounts, NEW status \in {"stopped", "exhausted"}
    PROVE  /\ Stop(a, status) \in Accounts
           /\ Stop(a, status).tools = a.tools
           /\ Stop(a, status).leases = a.leases
           /\ Stop(a, status).denials = a.denials
           /\ Stop(a, status).status = status
  BY DEF Stop, Accounts

\* How many saves there are, and which is the last.
LEMMA SavesEnd ==
    ASSUME NEW how \in Hows
    PROVE  /\ Len(Saves(how)) \in Nat \ {0}
           /\ \A i \in 1..Len(Saves(how)) : Saves(how)[i] = "close" <=> i = Len(Saves(how))
  BY DEF Hows, Saves

\* What was saved before a save.
LEMMA SavesInOrder ==
    ASSUME NEW how \in Hows, NEW k \in Nat, k < Len(Saves(how))
    PROVE  LET next == Saves(how)[k + 1]
               before(s) == \E i \in 1..k : Saves(how)[i] = s
           IN  /\ next = "result" => before("complete") /\ before("artifact")
               /\ next = "finish" => before("complete") /\ before("artifact")
               /\ next = "breaker" => before("trip")
               /\ next = "stop" => before("trip") /\ before("artifact")
               /\ next \in {"complete", "deny", "trip"} =>
                      ~before("artifact") /\ ~before("finish") /\ ~before("stop")
               /\ next \in {"complete", "deny"} => ~before("trip")
               /\ next \in {"deny", "trip"} => ~before("complete")
               /\ next = "account" => how # "violation"
               /\ next = "score" => how # "broken"
  <1> USE DEF Saves
  <1>1. CASE how = "completed"
    BY <1>1
  <1>2. CASE how = "denied"
    BY <1>2
  <1>3. CASE how = "denied_often"
    BY <1>3
  <1>4. CASE how = "violation"
    BY <1>4
  <1>5. CASE how = "broken"
    BY <1>5
  <1> QED
    BY <1>1, <1>2, <1>3, <1>4, <1>5 DEF Hows

\* What was counted before a save, and what comes right before it.
LEMMA SavesCount ==
    ASSUME NEW how \in Hows, NEW k \in Nat, k < Len(Saves(how))
    PROVE  LET next == Saves(how)[k + 1]
               before(s) == \E i \in 1..k : Saves(how)[i] = s
           IN  /\ next = "account" => ~before("account")
               /\ next = "score" => ~before("score")
               /\ next \in {"complete", "deny"} => ~before("account") /\ ~before("score")
               /\ next \in {"account", "score"} =>
                      /\ before("complete") <=> how = "completed"
                      /\ before("deny") <=> how \in Denying
               /\ next = "artifact" => ~before("finish") /\ ~before("stop")
               /\ next = "result" => k > 0 /\ Saves(how)[k] = "read_results"
               /\ next = "breaker" => k > 0 /\ Saves(how)[k] = "read_breakers"
  <1> USE DEF Saves, Denying
  <1>1. CASE how = "completed"
    BY <1>1
  <1>2. CASE how = "denied"
    BY <1>2
  <1>3. CASE how = "denied_often"
    BY <1>3
  <1>4. CASE how = "violation"
    BY <1>4
  <1>5. CASE how = "broken"
    BY <1>5
  <1> QED
    BY <1>1, <1>2, <1>3, <1>4, <1>5 DEF Hows

\* What was saved in the end.
LEMMA SavedInTheEnd ==
    ASSUME NEW how \in Hows, NEW k \in Nat, k + 1 = Len(Saves(how))
    PROVE  LET done(s) == \E i \in 1..k : Saves(how)[i] = s
           IN  /\ done("complete") <=> how = "completed"
               /\ done("result") <=> how = "completed"
               /\ done("finish") <=> how = "completed"
               /\ done("deny") <=> how \in Denying
               /\ done("trip") <=> how \notin {"completed", "denied"}
               /\ done("breaker") <=> how \notin {"completed", "denied"}
               /\ done("stop") <=> how \notin {"completed", "denied"}
               /\ done("artifact") <=> how # "denied"
               /\ done("account") <=> how # "violation"
               /\ done("score") <=> how # "broken"
  <1> USE DEF Saves, Denying
  <1>1. CASE how = "completed"
    BY <1>1
  <1>2. CASE how = "denied"
    BY <1>2
  <1>3. CASE how = "denied_often"
    BY <1>3
  <1>4. CASE how = "violation"
    BY <1>4
  <1>5. CASE how = "broken"
    BY <1>5
  <1> QED
    BY <1>1, <1>2, <1>3, <1>4, <1>5 DEF Hows

-----------------------------------------------------------------------------
(* What the steps of an execution change *)

Learn(e) ==
    \/ Violate(e) \/ Exhausted(e) \/ Reserve(e)
    \/ ReadFails(e) \/ ReadTooLong(e) \/ ReadDenied(e) \/ ReadCompletes(e)

\* An execution learns something: only its own record, its program counter and
\* the runs that asked for a read change.
Learnt(e) ==
    /\ UNCHANGED <<rows, manifests, log, creator, history>>
    /\ pc' = [pc EXCEPT ![e] = pc'[e]]
    /\ exec' = [exec EXCEPT ![e] = exec'[e]]
    /\ exec'[e] \in Execs
    /\ exec'[e].run = exec[e].run /\ exec'[e].contract = exec[e].contract
    /\ exec'[e].saved = 0

\* The record of an execution with new copies.
With(x, a, n, outcome, how) ==
    [x EXCEPT !.account = a, !.score = n, !.outcome = outcome, !.how = how]

LEMMA ExecWith ==
    ASSUME NEW x \in Execs, NEW a \in Accounts, NEW n \in Scores, NEW outcome \in Outcomes,
           NEW how \in Hows \cup {"none"}
    PROVE  LET y == With(x, a, n, outcome, how)
           IN  /\ y \in Execs
               /\ y.account = a /\ y.score = n /\ y.outcome = outcome /\ y.how = how
               /\ y.run = x.run /\ y.contract = x.contract /\ y.saved = x.saved
  <1> DEFINE y1 == [x EXCEPT !.account = a]
             y2 == [y1 EXCEPT !.score = n]
             y3 == [y2 EXCEPT !.outcome = outcome]
             y4 == [y3 EXCEPT !.how = how]
  <1>1. /\ y1 \in Execs /\ y1.account = a
        /\ y1.run = x.run /\ y1.contract = x.contract /\ y1.saved = x.saved
    BY DEF Execs
  <1>2. /\ y2 \in Execs /\ y2.account = a /\ y2.score = n
        /\ y2.run = x.run /\ y2.contract = x.contract /\ y2.saved = x.saved
    <2> HIDE DEF y1
    <2> QED
      BY <1>1 DEF Execs
  <1>3. /\ y3 \in Execs /\ y3.account = a /\ y3.score = n /\ y3.outcome = outcome
        /\ y3.run = x.run /\ y3.contract = x.contract /\ y3.saved = x.saved
    <2> HIDE DEF y2
    <2> QED
      BY <1>2 DEF Execs
  <1>4. /\ y4 \in Execs /\ y4.account = a /\ y4.score = n /\ y4.outcome = outcome
        /\ y4.how = how
        /\ y4.run = x.run /\ y4.contract = x.contract /\ y4.saved = x.saved
    <2> HIDE DEF y3
    <2> QED
      BY <1>3 DEF Execs
  <1>5. With(x, a, n, outcome, how) = y4
    BY DEF With
  <1> QED
    BY <1>4, <1>5

\* Before the read.
Stopped(e) ==
    /\ pc[e] = "started" /\ pc'[e] = "saving" /\ asked' = asked
    /\ exec'[e].account \in Accounts
    /\ exec'[e].account.tools = account.tools /\ exec'[e].account.leases = account.leases
    /\ exec'[e].account.denials = account.denials
    /\ exec'[e].score = score
    /\ exec'[e].how \in {"violation", "broken"}
    /\ exec'[e].how \in Stopping => exec'[e].account.status # "active"
    /\ exec'[e].outcome = OutcomeOf(exec'[e].how)

Reserved(e) ==
    /\ pc[e] = "started" /\ pc'[e] = "reading" /\ asked' = asked \cup {exec[e].run}
    /\ account.status = "active"
    /\ exec'[e].account.tools + 1 = account.tools
    /\ exec'[e].account.leases = account.leases /\ exec'[e].account.leases >= 1
    /\ exec'[e].account.denials = account.denials
    /\ exec'[e].score = score
    /\ exec'[e].how = "none" /\ exec'[e].outcome = "success"

\* After it.
Settled(e) ==
    /\ pc[e] = "reading" /\ pc'[e] = "saving" /\ asked' = asked
    /\ exec'[e].account.tools = exec[e].account.tools
    /\ exec'[e].account.leases + One(exec'[e].how = "completed") = exec[e].account.leases
    /\ exec'[e].account.denials = exec[e].account.denials + One(exec'[e].how \in Denying)
    /\ exec'[e].score = exec[e].score
    /\ exec'[e].how \in {"completed", "denied", "denied_often", "broken"}
    /\ exec'[e].how \in Stopping => exec'[e].account.status # "active"
    /\ exec'[e].outcome = OutcomeOf(exec'[e].how)

\* A step that gives an execution new copies.
Learns(e, point, a, n, outcome, how) ==
    /\ UNCHANGED <<rows, manifests, log, creator, history>>
    /\ pc' = [pc EXCEPT ![e] = point]
    /\ exec[e].saved = 0
    /\ a \in Accounts /\ n \in Scores /\ outcome \in Outcomes /\ how \in Hows \cup {"none"}
    /\ exec' = [exec EXCEPT ![e] = With(exec[e], a, n, outcome, how)]

LEMMA LearnFrame ==
    ASSUME Typed, NEW e \in Executors, NEW point, NEW a, NEW n, NEW outcome, NEW how,
           Learns(e, point, a, n, outcome, how)
    PROVE  /\ Learnt(e)
           /\ pc'[e] = point
           /\ exec'[e].account = a /\ exec'[e].score = n /\ exec'[e].outcome = outcome
           /\ exec'[e].how = how
  <1> DEFINE y == With(exec[e], a, n, outcome, how)
  <1>1. /\ y \in Execs
        /\ y.account = a /\ y.score = n /\ y.outcome = outcome /\ y.how = how
        /\ y.run = exec[e].run /\ y.contract = exec[e].contract /\ y.saved = 0
    <2>1. exec[e] \in Execs
      BY DEF Typed, TypeOK
    <2> QED
      BY <2>1, ExecWith DEF Learns
  <1>2. exec' = [exec EXCEPT ![e] = y]
    BY DEF Learns
  <1> HIDE DEF y
  <1>3. exec'[e] = y /\ pc'[e] = point
    BY <1>2 DEF Learns, Typed, TypeOK
  <1>4. Learnt(e)
    BY <1>1, <1>2, <1>3 DEF Learns, Learnt
  <1> QED
    BY <1>1, <1>3, <1>4

LEMMA StopFrame ==
    ASSUME Typed, NEW e \in Executors, Violate(e) \/ Exhausted(e)
    PROVE  Learnt(e) /\ Stopped(e)
  <1>1. /\ pc[e] = "started" /\ pc' = [pc EXCEPT ![e] = "saving"]
        /\ asked' = asked
        /\ UNCHANGED <<rows, manifests, log, creator, history>>
    BY DEF Violate, Exhausted
  <1>2. account \in Accounts /\ score \in Scores /\ exec \in [Executors -> Execs]
    BY DEF Typed, TypeOK
  <1>3. exec[e].saved = 0 /\ exec[e].outcome = "success"
    BY <1>1 DEF Typed, Placed
  <1>4. CASE Violate(e)
    <2>1. exec' = [exec EXCEPT ![e] =
                      With(exec[e], account, score, "permission_violation", "violation")]
      BY <1>4 DEF Violate, With
    <2>2. "permission_violation" \in Outcomes /\ "violation" \in Hows
      BY DEF Outcomes, Hows
    <2>3. /\ Learnt(e) /\ pc'[e] = "saving"
          /\ exec'[e].account = account /\ exec'[e].score = score
          /\ exec'[e].outcome = "permission_violation" /\ exec'[e].how = "violation"
      <3>1. Learns(e, "saving", account, score, "permission_violation", "violation")
        BY <1>1, <1>2, <1>3, <2>1, <2>2 DEF Learns
      <3> QED
        BY <3>1, LearnFrame
    <2> QED
      BY <1>1, <1>2, <2>3 DEF Stopped, OutcomeOf, Denying, Stopping
  <1>5. CASE Exhausted(e)
    <2> DEFINE a == Stop(account, "exhausted")
    <2>1. /\ a \in Accounts /\ a.tools = account.tools /\ a.leases = account.leases
          /\ a.denials = account.denials /\ a.status = "exhausted"
      BY <1>2, StoppedAccount
    <2>2. exec' = [exec EXCEPT ![e].account = a, ![e].score = score, ![e].how = "broken"]
      BY <1>5 DEF Exhausted, Stop
    <2> HIDE DEF a
    <2>3. exec' = [exec EXCEPT ![e] = With(exec[e], a, score, "success", "broken")]
      BY <1>2, <1>3, <2>2 DEF Execs, With
    <2>4. "success" \in Outcomes /\ "broken" \in Hows
      BY DEF Outcomes, Hows
    <2>5. /\ Learnt(e) /\ pc'[e] = "saving"
          /\ exec'[e].account = a /\ exec'[e].score = score
          /\ exec'[e].outcome = "success" /\ exec'[e].how = "broken"
      <3>1. Learns(e, "saving", a, score, "success", "broken")
        BY <1>1, <1>2, <1>3, <2>1, <2>3, <2>4 DEF Learns
      <3> QED
        BY <3>1, LearnFrame
    <2> QED
      BY <1>1, <2>1, <2>5 DEF Stopped, OutcomeOf, Denying
  <1> QED
    BY <1>4, <1>5

LEMMA ReserveFrame ==
    ASSUME Typed, NEW e \in Executors, Reserve(e)
    PROVE  Learnt(e) /\ Reserved(e)
  <1>1. /\ pc[e] = "started" /\ pc' = [pc EXCEPT ![e] = "reading"]
        /\ asked' = asked \cup {exec[e].run}
        /\ UNCHANGED <<rows, manifests, log, creator, history>>
        /\ CanReserve(account) /\ account.status = "active"
    BY DEF Reserve, CanReserve
  <1>2. account \in Accounts /\ score \in Scores /\ exec \in [Executors -> Execs]
    BY DEF Typed, TypeOK
  <1>3. exec[e].saved = 0 /\ exec[e].outcome = "success" /\ exec[e].how = "none"
    BY <1>1 DEF Typed, Placed
  <1> DEFINE a == ReserveRead(account)
  <1>4. /\ a \in Accounts /\ a.tools + 1 = account.tools /\ a.leases = account.leases
        /\ a.leases >= 1 /\ a.denials = account.denials
    BY <1>1, <1>2, ReservedAccount
  <1>5. exec' = [exec EXCEPT ![e].account = a, ![e].score = score]
    BY DEF Reserve
  <1> HIDE DEF a
  <1>6. exec' = [exec EXCEPT ![e] = With(exec[e], a, score, "success", "none")]
    BY <1>2, <1>3, <1>5 DEF Execs, With
  <1>7. "success" \in Outcomes
    BY DEF Outcomes
  <1>8. /\ Learnt(e) /\ pc'[e] = "reading"
        /\ exec'[e].account = a /\ exec'[e].score = score
        /\ exec'[e].outcome = "success" /\ exec'[e].how = "none"
    <2>1. Learns(e, "reading", a, score, "success", "none")
      BY <1>1, <1>2, <1>3, <1>4, <1>6, <1>7 DEF Learns
    <2> QED
      BY <2>1, LearnFrame
  <1> QED
    BY <1>1, <1>4, <1>8 DEF Reserved

LEMMA SettleFrame ==
    ASSUME Typed, NEW e \in Executors, pc[e] = "reading",
           NEW spent \in Accounts, NEW how \in {"completed", "denied", "denied_often", "broken"},
           Settle(e, spent, how, OutcomeOf(how)),
           spent.tools = exec[e].account.tools,
           spent.leases + One(how = "completed") = exec[e].account.leases,
           spent.denials = exec[e].account.denials + One(how \in Denying),
           how \in Stopping => spent.status # "active"
    PROVE  Learnt(e) /\ Settled(e)
  <1>1. OutcomeOf(how) \in Outcomes /\ how \in Hows
    BY DEF OutcomeOf, Outcomes, Denying, Hows
  <1>2. /\ exec[e].score \in Scores /\ exec[e].saved = 0 /\ exec \in [Executors -> Execs]
    BY DEF Typed, TypeOK, Placed, Execs
  <1>3. exec' = [exec EXCEPT ![e] = With(exec[e], spent, exec[e].score, OutcomeOf(how), how)]
    BY <1>2 DEF Settle, Execs, With
  <1>4. /\ pc' = [pc EXCEPT ![e] = "saving"] /\ asked' = asked
        /\ UNCHANGED <<rows, manifests, log, creator, history>>
    BY DEF Settle
  <1>5. /\ Learnt(e) /\ pc'[e] = "saving"
        /\ exec'[e].account = spent /\ exec'[e].score = exec[e].score
        /\ exec'[e].outcome = OutcomeOf(how) /\ exec'[e].how = how
    <2>1. Learns(e, "saving", spent, exec[e].score, OutcomeOf(how), how)
      BY <1>1, <1>2, <1>3, <1>4 DEF Learns
    <2> QED
      BY <2>1, LearnFrame
  <1> QED
    BY <1>4, <1>5 DEF Settled

LEMMA ReadFrame ==
    ASSUME Typed, NEW e \in Executors,
           ReadFails(e) \/ ReadTooLong(e) \/ ReadDenied(e) \/ ReadCompletes(e)
    PROVE  Learnt(e) /\ Settled(e)
  <1> USE DEF One, Denying, Stopping
  <1> DEFINE a == exec[e].account
  <1>1. a \in Accounts /\ pc[e] = "reading" /\ \A used \in Usages : used \in Nat
    BY ChildAssumption DEF ChildAssumption, Typed, TypeOK, Execs,
       ReadFails, ReadTooLong, ReadDenied, ReadCompletes
  <1>2. \A used \in Usages :
           LET spent == RecordRuntimeUsage(a, used)
           IN  /\ spent \in Accounts /\ spent.tools = a.tools /\ spent.leases = a.leases
               /\ spent.denials = a.denials
    BY <1>1, UsedAccount
  <1>3. a.leases \in Nat /\ a.denials \in Nat /\ a.leases >= 1
    BY <1>1 DEF Accounts, Typed, Placed
  <1>4. CASE ReadFails(e)
    <2>1. PICK used \in Usages, status \in {"stopped", "exhausted"} :
             Settle(e, Stop(RecordRuntimeUsage(a, used), status), "broken", "success")
      BY <1>4 DEF ReadFails, Stop
    <2> DEFINE was == RecordRuntimeUsage(a, used)
               spent == Stop(was, status)
    <2>2. /\ spent \in Accounts /\ spent.tools = a.tools /\ spent.leases = a.leases
          /\ spent.denials = a.denials /\ spent.status = status
      <3>1. was \in Accounts /\ was.tools = a.tools /\ was.leases = a.leases
            /\ was.denials = a.denials
        BY <1>2
      <3> HIDE DEF was
      <3> QED
        BY <1>3, <3>1, StoppedAccount
    <2>3. Settle(e, spent, "broken", OutcomeOf("broken"))
      BY <2>1 DEF OutcomeOf
    <2> HIDE DEF spent
    <2> QED
      BY <1>1, <1>3, <2>2, <2>3, SettleFrame
  <1>5. CASE ReadTooLong(e)
    <2>1. PICK used \in Usages :
             /\ RecordRuntimeUsage(a, used).status = "exhausted"
             /\ Settle(e, RecordRuntimeUsage(a, used), "broken", "success")
      BY <1>5 DEF ReadTooLong
    <2>2. Settle(e, RecordRuntimeUsage(a, used), "broken", OutcomeOf("broken"))
      BY <2>1 DEF OutcomeOf
    <2> QED
      BY <1>1, <1>2, <1>3, <2>1, <2>2, SettleFrame
  <1>6. CASE ReadDenied(e)
    <2>1. PICK used \in Usages :
             LET denied == RecordPolicyDenial(RecordRuntimeUsage(a, used))
             IN  Settle(e, denied, IF denied.denials >= 3 THEN "denied_often" ELSE "denied",
                        "policy_denial")
      BY <1>6 DEF ReadDenied
    <2> DEFINE was == RecordRuntimeUsage(a, used)
               spent == RecordPolicyDenial(was)
               how == IF spent.denials >= 3 THEN "denied_often" ELSE "denied"
    <2>2. /\ spent \in Accounts /\ spent.tools = a.tools /\ spent.leases = a.leases
          /\ spent.denials = a.denials + 1
          /\ a.denials + 1 >= 3 => spent.status = "stopped"
      <3>1. was \in Accounts /\ was.tools = a.tools /\ was.leases = a.leases
            /\ was.denials = a.denials
        BY <1>2
      <3> HIDE DEF was
      <3> QED
        BY <1>3, <3>1, DeniedAccount
    <2>3. /\ how \in {"denied_often", "denied"} /\ Settle(e, spent, how, OutcomeOf(how))
          /\ how = "denied_often" => spent.denials >= 3
      BY <2>1 DEF OutcomeOf
    <2> HIDE DEF spent, how
    <2> QED
      BY <1>1, <1>3, <2>2, <2>3, SettleFrame
  <1>7. CASE ReadCompletes(e)
    <2>1. PICK used \in Usages :
             Settle(e, RecordLeaseUse(RecordRuntimeUsage(a, used)), "completed", "success")
      BY <1>7 DEF ReadCompletes
    <2> DEFINE was == RecordRuntimeUsage(a, used)
               spent == RecordLeaseUse(was)
    <2>2. /\ spent \in Accounts /\ spent.tools = a.tools /\ spent.leases + 1 = a.leases
          /\ spent.denials = a.denials
      <3>1. was \in Accounts /\ was.tools = a.tools /\ was.leases = a.leases
            /\ was.denials = a.denials
        BY <1>2
      <3> HIDE DEF was
      <3> QED
        BY <1>3, <3>1, LeasedAccount
    <2>3. Settle(e, spent, "completed", OutcomeOf("completed"))
      BY <2>1 DEF OutcomeOf
    <2> HIDE DEF spent
    <2> QED
      BY <1>1, <1>3, <2>2, <2>3, SettleFrame
  <1> QED
    BY <1>4, <1>5, <1>6, <1>7

\* A save that is not the last: the execution has made one save more.
Saved(e, s) ==
    /\ Saving(e, s)
    /\ Underway(e) /\ NextSave(e) = s /\ s # "close"
    /\ pc' = pc
    /\ exec' = [exec EXCEPT ![e] = exec'[e]]
    /\ exec'[e] \in Execs
    /\ exec'[e].saved = exec[e].saved + 1 /\ exec'[e].saved < Len(Saves(exec[e].how))
    /\ exec'[e].run = exec[e].run /\ exec'[e].contract = exec[e].contract
    /\ exec'[e].account = exec[e].account /\ exec'[e].score = exec[e].score
    /\ exec'[e].outcome = exec[e].outcome /\ exec'[e].how = exec[e].how

Count(x, copy) == [x EXCEPT !.saved = x.saved + 1, !.copy = copy]

LEMMA CountFields ==
    ASSUME NEW x \in Execs, NEW copy \in SUBSET Runs
    PROVE  /\ Count(x, copy) \in Execs
           /\ Count(x, copy).saved = x.saved + 1 /\ Count(x, copy).copy = copy
           /\ Count(x, copy).run = x.run /\ Count(x, copy).contract = x.contract
           /\ Count(x, copy).account = x.account /\ Count(x, copy).score = x.score
           /\ Count(x, copy).outcome = x.outcome /\ Count(x, copy).how = x.how
  <1> DEFINE y == [x EXCEPT !.saved = x.saved + 1]
  <1>1. /\ y \in Execs /\ y.saved = x.saved + 1
        /\ y.run = x.run /\ y.contract = x.contract
        /\ y.account = x.account /\ y.score = x.score
        /\ y.outcome = x.outcome /\ y.how = x.how
    BY DEF Execs
  <1>2. Count(x, copy) = [y EXCEPT !.copy = copy]
    BY DEF Count
  <1> HIDE DEF y
  <1> QED
    BY <1>1, <1>2 DEF Execs

LEMMA SaveFrame ==
    ASSUME Typed, NEW e \in Executors, NEW s, Saving(e, s), s # "close",
           NEW copy \in SUBSET Runs, pc' = pc,
           exec' = [exec EXCEPT ![e] = Count(@, copy)]
    PROVE  Saved(e, s) /\ exec'[e].copy = copy
  <1>1. /\ exec[e] \in Execs /\ pc[e] = "saving" /\ Underway(e)
        /\ exec \in [Executors -> Execs] /\ exec[e].saved \in Nat
    BY DEF Typed, TypeOK, Placed, Saving, Execs
  <1>2. NextSave(e) = s
    BY DEF Saving, NextSave
  <1> DEFINE y == Count(exec[e], copy)
  <1>3. /\ y \in Execs
        /\ y.saved = exec[e].saved + 1 /\ y.copy = copy
        /\ y.run = exec[e].run /\ y.contract = exec[e].contract
        /\ y.account = exec[e].account /\ y.score = exec[e].score
        /\ y.outcome = exec[e].outcome /\ y.how = exec[e].how
    BY <1>1, CountFields
  <1>4. exec' = [exec EXCEPT ![e] = y]
    OBVIOUS
  <1> HIDE DEF y
  <1>5. exec'[e] = y
    BY <1>1, <1>4
  <1>6. exec[e].saved + 1 # Len(Saves(exec[e].how))
    BY <1>1, <1>2, SavesEnd DEF Underway, NextSave
  <1>7. exec[e].saved + 1 < Len(Saves(exec[e].how))
    BY <1>1, <1>6, SavesEnd DEF Underway
  <1> QED
    BY <1>1, <1>2, <1>3, <1>4, <1>5, <1>7 DEF Saved

\* Every save but the reading of a registry leaves the copy as it is.
LEMMA AdvanceFrame ==
    ASSUME Typed, NEW e \in Executors, NEW s, Saving(e, s), s # "close", Advance(e)
    PROVE  Saved(e, s) /\ exec'[e].copy = exec[e].copy
  <1>1. exec[e] \in Execs /\ exec \in [Executors -> Execs] /\ exec[e].copy \in SUBSET Runs
    BY DEF Typed, TypeOK, Execs
  <1>2. [exec[e] EXCEPT !.saved = @ + 1] = Count(exec[e], exec[e].copy)
    BY <1>1 DEF Count, Execs
  <1>3. exec' = [exec EXCEPT ![e] = Count(@, exec[e].copy)] /\ pc' = pc
    BY <1>2 DEF Advance
  <1> QED
    BY <1>1, <1>3, SaveFrame

LEMMA ReadRegistryFrame ==
    ASSUME Typed, NEW e \in Executors, NEW s \in {"read_results", "read_breakers"},
           Saving(e, s), pc' = pc,
           exec' = [exec EXCEPT ![e].saved = @ + 1,
                                ![e].copy = IF s = "read_results" THEN results ELSE breakers]
    PROVE  /\ Saved(e, s)
           /\ exec'[e].copy = IF s = "read_results" THEN results ELSE breakers
  <1> DEFINE copy == IF s = "read_results" THEN results ELSE breakers
  <1>1. /\ exec[e] \in Execs /\ exec \in [Executors -> Execs]
        /\ copy \in SUBSET Runs
    BY DEF Typed, TypeOK
  <1>2. exec' = [exec EXCEPT ![e] = Count(@, copy)]
    BY DEF Count
  <1> HIDE DEF copy
  <1>3. Saved(e, s) /\ exec'[e].copy = copy
    BY <1>1, <1>2, SaveFrame
  <1> QED
    BY <1>3 DEF copy

\* An execution that is over.
Left(e) ==
    /\ pc' = [pc EXCEPT ![e] = "idle"]
    /\ exec' = [exec EXCEPT ![e] = NoExec]

LEMMA NoExecType == ChildAssumption => NoExec \in Execs
  BY DEF ChildAssumption, NoExec, Execs, NoContract, Contracts, FreshAccount, Accounts, NoScore,
     Scores, Outcomes

-----------------------------------------------------------------------------
(* Types *)

LEMMA TypedInit == Init => Typed
  <1> SUFFICES ASSUME Init PROVE Typed
    OBVIOUS
  <1>1. NoExec \in Execs
    BY NoExecType, ChildAssumption
  <1>2. NoExec.account = FreshAccount /\ NoExec.score = NoScore /\ NoExec.contract = NoContract
    BY DEF NoExec
  <1>3. account \in Accounts /\ score \in Scores /\ contract \in Contracts
    BY <1>1, <1>2 DEF Init, Execs
  <1>4. log \in Seq([type : EventTypes, run : Nat])
    BY DEF Init
  <1>5. TypeOK
    BY <1>1, <1>3, <1>4 DEF Init, TypeOK
  <1>6. \A e \in Executors : Placed(e)
    BY DEF Init, Placed, NoExec
  <1> QED
    BY <1>5, <1>6 DEF Typed

\* The program counters and the records of the executions.
ExecutionsTyped ==
    /\ pc \in [Executors -> {"idle", "started", "reading", "saving"}]
    /\ exec \in [Executors -> Execs]
    /\ \A e \in Executors : Placed(e)

\* Only one of the executions moves.
LEMMA OthersTyped ==
    ASSUME Typed, NEW e \in Executors,
           pc' = [pc EXCEPT ![e] = pc'[e]], exec' = [exec EXCEPT ![e] = exec'[e]],
           pc'[e] \in {"idle", "started", "reading", "saving"}, exec'[e] \in Execs,
           Placed(e)'
    PROVE  ExecutionsTyped'
  <1>1. /\ pc' \in [Executors -> {"idle", "started", "reading", "saving"}]
        /\ exec' \in [Executors -> Execs]
    BY DEF Typed, TypeOK
  <1>2. ASSUME NEW f \in Executors, f # e PROVE Placed(f)'
    <2>1. pc'[f] = pc[f] /\ exec'[f] = exec[f]
      BY <1>2 DEF Typed, TypeOK
    <2> QED
      BY <2>1 DEF Typed, Placed, Underway
  <1> QED
    BY <1>1, <1>2 DEF ExecutionsTyped

LEMMA LearningTyped ==
    ASSUME Typed, NEW e \in Executors, Learnt(e), Stopped(e) \/ Reserved(e) \/ Settled(e)
    PROVE  ExecutionsTyped'
  <1>1. Placed(e)'
    <2>1. CASE Stopped(e) \/ Settled(e)
      <3>1. pc'[e] = "saving" /\ exec'[e].how \in Hows /\ exec'[e].saved = 0
        BY <2>1 DEF Learnt, Stopped, Settled, Hows
      <3>2. 0 < Len(Saves(exec'[e].how))
        BY <3>1, SavesEnd
      <3> QED
        BY <3>1, <3>2, <2>1 DEF Typed, Placed, Underway, Learnt, Stopped, Settled
    <2>2. CASE Reserved(e)
      BY <2>2 DEF Typed, Placed, Learnt, Reserved
    <2> QED
      BY <2>1, <2>2
  <1>2. pc'[e] \in {"reading", "saving"}
    BY DEF Stopped, Settled, Reserved
  <1> QED
    BY <1>1, <1>2, OthersTyped DEF Learnt

LEMMA SavingTyped ==
    ASSUME Typed, NEW e \in Executors, NEW s, Saved(e, s)
    PROVE  ExecutionsTyped'
  <1>1. pc[e] = "saving" /\ pc' = pc /\ pc'[e] = "saving"
    BY DEF Saved, Saving
  <1>2. Placed(e)'
    BY <1>1 DEF Saved, Typed, Placed, Underway
  <1>3. pc' = [pc EXCEPT ![e] = pc'[e]]
    BY <1>1 DEF Typed, TypeOK
  <1> QED
    BY <1>1, <1>2, <1>3, OthersTyped DEF Saved

LEMMA LeavingTyped ==
    ASSUME Typed, NEW e \in Executors, Left(e)
    PROVE  ExecutionsTyped'
  <1>1. pc'[e] = "idle" /\ exec'[e] = NoExec
    BY DEF Typed, TypeOK, Left
  <1>2. Placed(e)'
    BY <1>1 DEF Placed, NoExec
  <1>3. exec'[e] \in Execs
    BY <1>1, NoExecType, ChildAssumption
  <1>4. pc' = [pc EXCEPT ![e] = pc'[e]] /\ exec' = [exec EXCEPT ![e] = exec'[e]]
    BY <1>1 DEF Left
  <1> QED
    BY <1>1, <1>2, <1>3, <1>4, OthersTyped

\* What a save of each kind changes.
Written(e, s) ==
    /\ Saved(e, s)
    /\ UNCHANGED <<manifests, asked, creator, overlapped, killed>>
    /\ s \in {"complete", "deny", "trip"} => log' = Append(log, Entry(Tells(s), exec[e].run))
    /\ s \notin {"complete", "deny", "trip"} => log' = log
    /\ artifacts' = IF s = "artifact" THEN artifacts \cup {exec[e].run} ELSE artifacts
    /\ breakers' = IF s = "breaker" THEN exec[e].copy \cup {exec[e].run} ELSE breakers
    /\ results' = IF s = "result" THEN exec[e].copy \cup {exec[e].run} ELSE results
    /\ account' = IF s = "account" THEN exec[e].account ELSE account
    /\ score' = IF s = "score" THEN [exec[e].score EXCEPT ![exec[e].outcome] = @ + 1] ELSE score
    /\ contract' = IF s = "stop" THEN [exec[e].contract EXCEPT !.status = "stopped"]
                   ELSE IF s = "finish" THEN [exec[e].contract EXCEPT !.status = "completed"]
                   ELSE contract
    /\ exec'[e].copy = IF s = "read_results" THEN results
                       ELSE IF s = "read_breakers" THEN breakers
                       ELSE exec[e].copy

LEMMA SaveWrites ==
    ASSUME Typed, NEW e \in Executors, Save(e), ~Close(e)
    PROVE  \E s : Written(e, s)
  <1> USE DEF rows, history, Written
  <1>1. CASE Tell(e)
    <2>1. PICK s \in {"complete", "deny", "trip"} :
             Saving(e, s) /\ log' = Append(log, Entry(Tells(s), exec[e].run))
      BY <1>1 DEF Tell
    <2>2. Saved(e, s) /\ exec'[e].copy = exec[e].copy
      BY <1>1, <2>1, AdvanceFrame DEF Tell
    <2>3. UNCHANGED <<rows, manifests, asked, creator, history>>
      BY <1>1, <2>1 DEF Tell, Saving
    <2> QED
      BY <2>1, <2>2, <2>3
  <1>2. CASE SaveArtifact(e)
    <2>1. Saved(e, "artifact") /\ exec'[e].copy = exec[e].copy
      BY <1>2, AdvanceFrame DEF SaveArtifact
    <2> QED
      BY <1>2, <2>1 DEF SaveArtifact, Saving
  <1>3. CASE ReadRegistry(e)
    <2>1. PICK s \in {"read_results", "read_breakers"} :
             /\ Saving(e, s)
             /\ exec' = [exec EXCEPT ![e].saved = @ + 1,
                                     ![e].copy = IF s = "read_results" THEN results ELSE breakers]
      BY <1>3 DEF ReadRegistry
    <2>2. /\ Saved(e, s)
          /\ exec'[e].copy = IF s = "read_results" THEN results ELSE breakers
      BY <1>3, <2>1, ReadRegistryFrame DEF ReadRegistry
    <2>3. UNCHANGED <<rows, manifests, log, asked, creator, history>>
      BY <1>3, <2>1 DEF ReadRegistry, Saving
    <2> QED
      BY <2>1, <2>2, <2>3
  <1>4. CASE SaveBreaker(e)
    <2>1. Saved(e, "breaker") /\ exec'[e].copy = exec[e].copy
      BY <1>4, AdvanceFrame DEF SaveBreaker
    <2> QED
      BY <1>4, <2>1 DEF SaveBreaker, Saving
  <1>5. CASE SaveResult(e)
    <2>1. Saved(e, "result") /\ exec'[e].copy = exec[e].copy
      BY <1>5, AdvanceFrame DEF SaveResult
    <2> QED
      BY <1>5, <2>1 DEF SaveResult, Saving
  <1>6. CASE SaveAccount(e)
    <2>1. Saved(e, "account") /\ exec'[e].copy = exec[e].copy
      BY <1>6, AdvanceFrame DEF SaveAccount
    <2> QED
      BY <1>6, <2>1 DEF SaveAccount, Saving
  <1>7. CASE SaveScore(e)
    <2>1. Saved(e, "score") /\ exec'[e].copy = exec[e].copy
      BY <1>7, AdvanceFrame DEF SaveScore
    <2> QED
      BY <1>7, <2>1 DEF SaveScore, Saving
  <1>8. CASE SaveContract(e)
    <2>1. PICK s \in {"stop", "finish"} :
             /\ Saving(e, s)
             /\ contract' = [exec[e].contract EXCEPT
                                !.status = IF s = "stop" THEN "stopped" ELSE "completed"]
      BY <1>8 DEF SaveContract
    <2>2. Saved(e, s) /\ exec'[e].copy = exec[e].copy
      BY <1>8, <2>1, AdvanceFrame DEF SaveContract
    <2>3. UNCHANGED <<account, score, results, breakers, artifacts, manifests, log, asked,
                      creator, history>>
      BY <1>8, <2>1 DEF SaveContract, Saving
    <2> QED
      BY <2>1, <2>2, <2>3
  <1> QED
    BY <1>1, <1>2, <1>3, <1>4, <1>5, <1>6, <1>7, <1>8 DEF Save

\* The steps of an execution.
LEMMA ExecuteCases ==
    ASSUME Typed, NEW e \in Executors, Execute(e)
    PROVE  \/ Begin(e)
           \/ Learnt(e) /\ (Stopped(e) \/ Reserved(e) \/ Settled(e))
           \/ \E s : Written(e, s)
           \/ Close(e) \/ Unreadable(e) \/ Kill(e)
  <1>1. CASE Violate(e) \/ Exhausted(e)
    BY <1>1, StopFrame
  <1>2. CASE Reserve(e)
    BY <1>2, ReserveFrame
  <1>3. CASE ReadFails(e) \/ ReadTooLong(e) \/ ReadDenied(e) \/ ReadCompletes(e)
    BY <1>3, ReadFrame
  <1>4. CASE Save(e)
    BY <1>4, SaveWrites
  <1> QED
    BY <1>1, <1>2, <1>3, <1>4 DEF Execute

\* The number of the run that begins, by its own name.
LEMMA BeginFrame ==
    ASSUME Typed, NEW e \in Executors, Begin(e)
    PROVE  LET run == Cardinality(Started) + 1
           IN  /\ pc[e] = "idle" /\ pc' = [pc EXCEPT ![e] = "started"]
               /\ exec' = [exec EXCEPT ![e] = exec'[e]]
               /\ exec'[e].run = run /\ exec'[e].contract = contract
               /\ exec'[e].saved = 0 /\ exec'[e].how = "none" /\ exec'[e].outcome = "success"
               /\ exec'[e] = [NoExec EXCEPT !.run = run, !.contract = contract]
  BY DEF Begin, Typed, TypeOK, Placed, NoExec, Execs

LEMMA BeginTyped ==
    ASSUME Typed, NEW e \in Executors, Begin(e), Cardinality(Started) \in Nat
    PROVE  ExecutionsTyped'
  <1>1. exec'[e] \in Execs
    <2>1. NoExec \in Execs /\ contract \in Contracts
      BY NoExecType, ChildAssumption DEF Typed, TypeOK
    <2> DEFINE y == [NoExec EXCEPT !.run = Cardinality(Started) + 1]
    <2>2. y \in Execs
      BY <2>1 DEF Execs
    <2>3. exec'[e] = [y EXCEPT !.contract = contract]
      BY BeginFrame
    <2> HIDE DEF y
    <2> QED
      BY <2>1, <2>2, <2>3 DEF Execs
  <1>2. pc'[e] = "started"
    BY BeginFrame DEF Typed, TypeOK
  <1>3. Placed(e)'
    <2>1. Cardinality(Started) + 1 \in Runs
      BY ChildAssumption DEF ChildAssumption, Begin, Runs
    <2> QED
      BY <1>2, <2>1, BeginFrame DEF Placed
  <1>4. pc' = [pc EXCEPT ![e] = pc'[e]]
    BY <1>2, BeginFrame
  <1> QED
    BY <1>1, <1>2, <1>3, <1>4, BeginFrame, OthersTyped

LEMMA StartedFinite ==
    /\ IsFiniteSet(Runs) /\ IsFiniteSet(Started) /\ Cardinality(Started) \in Nat
    /\ \A S : S \subseteq Runs => IsFiniteSet(S) /\ Cardinality(S) \in Nat
  <1>1. IsFiniteSet(Runs)
    BY ChildAssumption, FS_Interval DEF ChildAssumption, Runs
  <1>2. \A S : S \subseteq Runs => IsFiniteSet(S) /\ Cardinality(S) \in Nat
    BY <1>1, FS_Subset, FS_CardinalityType
  <1>3. Started \subseteq Runs
    BY DEF Started
  <1> QED
    BY <1>1, <1>2, <1>3

LEMMA TypedStep == Typed /\ [Next]_vars => Typed'
  <1> SUFFICES ASSUME Typed, [Next]_vars PROVE Typed'
    OBVIOUS
  <1> USE DEF rows, history
  <1>a. ASSUME ExecutionsTyped', UNCHANGED <<rows, manifests, log, creator, history>>,
               asked' \subseteq Runs
        PROVE  Typed'
    BY <1>a DEF Typed, TypeOK, ExecutionsTyped
  <1>b. \A e \in Executors : exec[e] \in Execs
    BY DEF Typed, TypeOK
  <1>1. CASE Register
    <2>1. contract' \in Contracts /\ creator' \in {"idle", "registered"}
      BY <1>1 DEF Register, Typed, TypeOK, Contracts
    <2>2. overlapped' \in BOOLEAN
      BY <1>1 DEF Register, Typed, TypeOK
    <2>3. \A e \in Executors : Placed(e)'
      BY <1>1 DEF Register, Typed, Placed, Underway
    <2> QED
      BY <1>1, <2>1, <2>2, <2>3 DEF Register, Typed, TypeOK
  <1>2. CASE AnnounceContract
    <2>1. Entry("agent.contract.created", 0) \in [type : EventTypes, run : Nat]
      BY DEF Entry, EventTypes
    <2>2. log' \in Seq([type : EventTypes, run : Nat])
      BY <1>2, <2>1 DEF AnnounceContract, Typed, TypeOK
    <2>3. \A e \in Executors : Placed(e)'
      BY <1>2 DEF AnnounceContract, Typed, Placed, Underway
    <2> QED
      BY <1>2, <2>2, <2>3 DEF AnnounceContract, Typed, TypeOK
  <1>3. CASE CreatorDies
    <2>1. \A e \in Executors : Placed(e)'
      BY <1>3 DEF CreatorDies, Typed, Placed, Underway
    <2> QED
      BY <1>3, <2>1 DEF CreatorDies, Typed, TypeOK
  <1>4. ASSUME NEW e \in Executors, Begin(e) PROVE Typed'
    <2>1. ExecutionsTyped'
      BY <1>4, StartedFinite, BeginTyped
    <2>2. manifests' \in [Runs -> {"none", "running", "completed", "blocked"}]
      BY <1>4 DEF Begin, Typed, TypeOK
    <2>3. overlapped' \in BOOLEAN
      BY <1>4 DEF Begin, Typed, TypeOK
    <2> QED
      BY <1>4, <2>1, <2>2, <2>3 DEF Begin, Typed, TypeOK, ExecutionsTyped
  <1>5. ASSUME NEW e \in Executors, Learnt(e), Stopped(e) \/ Reserved(e) \/ Settled(e),
               exec[e].run \in Runs
        PROVE  Typed'
    <2>1. asked' \subseteq Runs
      BY <1>5 DEF Stopped, Reserved, Settled, Typed, TypeOK
    <2> QED
      BY <1>a, <1>5, <2>1, LearningTyped DEF Learnt
  <1>6. ASSUME NEW e \in Executors, NEW s, Written(e, s), exec[e].run \in Runs PROVE Typed'
    <2>1. ExecutionsTyped'
      BY <1>6, SavingTyped DEF Written
    <2>2. log' \in Seq([type : EventTypes, run : Nat])
      <3>1. s \in {"complete", "deny", "trip"} =>
               Entry(Tells(s), exec[e].run) \in [type : EventTypes, run : Nat]
        BY <1>b DEF Entry, Tells, EventTypes, Execs
      <3>2. log \in Seq([type : EventTypes, run : Nat])
        BY DEF Typed, TypeOK
      <3>3. log' = log \/ (s \in {"complete", "deny", "trip"}
                             /\ log' = Append(log, Entry(Tells(s), exec[e].run)))
        BY <1>6 DEF Written
      <3> QED
        <4>1. CASE log' = log
          BY <3>2, <4>1
        <4>2. CASE /\ s \in {"complete", "deny", "trip"}
                   /\ log' = Append(log, Entry(Tells(s), exec[e].run))
          <5> DEFINE new == Entry(Tells(s), exec[e].run)
          <5>1. new \in [type : EventTypes, run : Nat] /\ log' = Append(log, new)
            BY <3>1, <4>2
          <5> HIDE DEF new
          <5> QED
            BY <3>2, <5>1
        <4> QED
          BY <3>3, <4>1, <4>2
    <2>3. /\ artifacts' \subseteq Runs /\ breakers' \subseteq Runs /\ results' \subseteq Runs
          /\ account' \in Accounts
      BY <1>b, <1>6 DEF Written, Typed, TypeOK, Execs
    <2>4. score' \in Scores
      BY <1>b, <1>6 DEF Written, Typed, TypeOK, Execs, Scores
    <2>5. contract' \in Contracts
      BY <1>b, <1>6 DEF Written, Typed, TypeOK, Execs, Contracts
    <2> QED
      BY <1>6, <2>1, <2>2, <2>3, <2>4, <2>5 DEF Written, Typed, TypeOK, ExecutionsTyped
  <1>7. ASSUME NEW e \in Executors, Unreadable(e) \/ Kill(e) PROVE Typed'
    <2>1. ExecutionsTyped'
      BY <1>7, LeavingTyped DEF Unreadable, Kill, Left
    <2> QED
      BY <1>7, <2>1 DEF Unreadable, Kill, Typed, TypeOK, ExecutionsTyped
  <1>8. ASSUME NEW e \in Executors, Close(e) PROVE Typed'
    <2>1. ExecutionsTyped'
      BY <1>8, LeavingTyped DEF Close, Left
    <2>2. manifests' \in [Runs -> {"none", "running", "completed", "blocked"}]
      BY <1>8 DEF Close, Typed, TypeOK
    <2> QED
      BY <1>8, <2>1, <2>2 DEF Close, Saving, Typed, TypeOK, ExecutionsTyped
  <1>9. CASE UNCHANGED vars
    BY <1>9 DEF vars, Typed, TypeOK, Placed, Underway
  <1>10. \A e \in Executors : pc[e] # "idle" => exec[e].run \in Runs
    BY DEF Typed, Placed
  <1>11. ASSUME NEW e \in Executors, Execute(e) PROVE Typed'
    <2>1. \A s : Written(e, s) => pc[e] # "idle"
      BY DEF Written, Saved, Saving
    <2>2. Stopped(e) \/ Reserved(e) \/ Settled(e) => pc[e] # "idle"
      BY DEF Stopped, Reserved, Settled
    <2> QED
      BY <1>4, <1>5, <1>6, <1>7, <1>8, <1>10, <1>11, <2>1, <2>2, ExecuteCases
  <1> QED
    BY <1>1, <1>2, <1>3, <1>9, <1>11 DEF Next

-----------------------------------------------------------------------------
(* Runs *)

\* What a new event adds to what the ledger tells.
LEMMA TellsMore ==
    ASSUME Typed, NEW entry \in [type : EventTypes, run : Nat], log' = Append(log, entry)
    PROVE  \A type : Told(type)' = Told(type) \cup (IF entry.type = type THEN {entry.run} ELSE {})
  <1>1. log \in Seq([type : EventTypes, run : Nat])
    BY DEF Typed, TypeOK
  <1>2. /\ Len(log') = Len(log) + 1 /\ Len(log) \in Nat
        /\ \A i \in 1..Len(log) : log'[i] = log[i]
        /\ log'[Len(log) + 1] = entry
        /\ DOMAIN log = 1..Len(log) /\ DOMAIN log' = 1..Len(log')
    BY <1>1
  <1> SUFFICES ASSUME NEW type
               PROVE  Told(type)' = Told(type) \cup (IF entry.type = type THEN {entry.run} ELSE {})
    OBVIOUS
  <1>3. ASSUME NEW r \in Told(type)'
        PROVE  r \in Told(type) \cup (IF entry.type = type THEN {entry.run} ELSE {})
    <2>1. PICK i \in 1..(Len(log) + 1) : log'[i].type = type /\ log'[i].run = r
      BY <1>2, <1>3 DEF Told
    <2>2. CASE i = Len(log) + 1
      BY <1>2, <2>1, <2>2
    <2>3. CASE i \in 1..Len(log)
      BY <1>2, <2>1, <2>3 DEF Told
    <2> QED
      BY <1>2, <2>2, <2>3
  <1>4. ASSUME NEW r \in Told(type) PROVE r \in Told(type)'
    <2>1. PICK i \in 1..Len(log) : log[i].type = type /\ log[i].run = r
      BY <1>2, <1>4 DEF Told
    <2>2. i \in DOMAIN log' /\ log'[i].type = type /\ log'[i].run = r
      BY <1>2, <2>1
    <2> QED
      BY <2>2 DEF Told
  <1>5. entry.type = type => entry.run \in Told(type)'
    <2>1. Len(log) + 1 \in DOMAIN log'
      BY <1>2
    <2> QED
      BY <1>2, <2>1 DEF Told
  <1> QED
    BY <1>3, <1>4, <1>5

LEMMA TellsTheSame == log' = log => \A type : Told(type)' = Told(type)
  BY DEF Told

\* What a save tells.
LEMMA WrittenTold ==
    ASSUME Typed, NEW e \in Executors, NEW s, Written(e, s)
    PROVE  /\ Completed' = IF s = "complete" THEN Completed \cup {exec[e].run} ELSE Completed
           /\ Denied' = IF s = "deny" THEN Denied \cup {exec[e].run} ELSE Denied
           /\ Tripped' = IF s = "trip" THEN Tripped \cup {exec[e].run} ELSE Tripped
  <1> USE DEF Completed, Denied, Tripped
  <1>1. CASE s \notin {"complete", "deny", "trip"}
    BY <1>1, TellsTheSame DEF Written
  <1>2. CASE s \in {"complete", "deny", "trip"}
    <2> DEFINE new == Entry(Tells(s), exec[e].run)
    <2>1. log' = Append(log, new)
      BY <1>2 DEF Written
    <2>2. /\ new \in [type : EventTypes, run : Nat]
          /\ new.type = Tells(s) /\ new.run = exec[e].run
      BY <1>2 DEF Entry, Tells, EventTypes, Execs, Typed, TypeOK
    <2> HIDE DEF new
    <2>3. \A type : Told(type)' = Told(type) \cup (IF new.type = type THEN {new.run} ELSE {})
      BY <2>1, <2>2, TellsMore
    <2> QED
      BY <1>2, <2>2, <2>3 DEF Tells
  <1> QED
    BY <1>1, <1>2

\* Announcing a contract tells nothing of a run.
LEMMA AnnouncedTold ==
    ASSUME Typed, AnnounceContract
    PROVE  Completed' = Completed /\ Denied' = Denied /\ Tripped' = Tripped
  <1> DEFINE new == Entry("agent.contract.created", 0)
  <1>1. new \in [type : EventTypes, run : Nat] /\ new.type = "agent.contract.created"
    BY DEF Entry, EventTypes
  <1>2. log' = Append(log, new)
    BY DEF AnnounceContract
  <1> HIDE DEF new
  <1>3. \A type : Told(type)' = Told(type) \cup (IF new.type = type THEN {new.run} ELSE {})
    BY <1>1, <1>2, TellsMore
  <1> QED
    BY <1>1, <1>3 DEF Completed, Denied, Tripped

\* The runs that have started are the first ones.
LEMMA StartedFirst ==
    ASSUME Typed, Numbered
    PROVE  /\ Cardinality(Started) \in Nat
           /\ \A r \in Runs : r \in Started <=> r <= Cardinality(Started)
  <1>1. PICK n \in 0..MaxRuns : \A r \in Runs : manifests[r] # "none" <=> r <= n
    BY DEF Numbered
  <1>2. Started = 1..n
    BY <1>1, ChildAssumption DEF ChildAssumption, Started, Runs
  <1>3. Cardinality(Started) = n
    BY <1>2, FS_Interval
  <1> QED
    BY <1>1, <1>3 DEF Started

LEMMA NumberedInit == Init => Numbered
  <1> SUFFICES ASSUME Init PROVE Numbered
    OBVIOUS
  <1>1. \A r \in Runs : manifests[r] # "none" <=> r <= 0
    BY ChildAssumption DEF ChildAssumption, Init, Runs
  <1>2. 0 \in 0..MaxRuns
    BY ChildAssumption DEF ChildAssumption
  <1>3. Busy = {}
    BY DEF Init, Busy
  <1>4. Completed = {} /\ Denied = {} /\ Tripped = {}
    BY DEF Init, Completed, Denied, Tripped, Told
  <1> QED
    BY <1>1, <1>2, <1>3, <1>4 DEF Numbered, Init

\* No run starts, and every execution that is still busy keeps its run.
LEMMA NumberedKeeps ==
    ASSUME Numbered,
           \A r \in Runs : manifests'[r] = "none" <=> manifests[r] = "none",
           \A e \in Busy' : e \in Busy /\ exec'[e].run = exec[e].run
                                       /\ manifests'[exec[e].run] = manifests[exec[e].run],
           results' \cup breakers' \cup artifacts' \cup asked' \subseteq Started,
           Completed' \cup Denied' \cup Tripped' \subseteq Started,
           ~overlapped' => ~overlapped /\ (creator' = "registered" => Busy' = {})
    PROVE  Numbered'
  <1>1. Started' = Started
    BY DEF Started
  <1>2. \E n \in 0..MaxRuns : \A r \in Runs : manifests'[r] # "none" <=> r <= n
    BY DEF Numbered
  <1>3. /\ \A e \in Busy' : exec'[e].run \in Runs /\ manifests'[exec'[e].run] = "running"
        /\ \A e, f \in Busy' : e # f => exec'[e].run # exec'[f].run
        /\ ~overlapped' => \A e, f \in Busy' : e = f
    BY DEF Numbered
  <1> QED
    BY <1>1, <1>2, <1>3 DEF Numbered

LEMMA NumberedBegin ==
    ASSUME Typed, Numbered, NEW e \in Executors, Begin(e)
    PROVE  /\ Numbered'
           /\ exec'[e].run \in Runs \ Started
           /\ Busy' = Busy \cup {e} /\ e \notin Busy
           /\ Started' = Started \cup {exec'[e].run}
           /\ \A r \in Runs : r # exec'[e].run => manifests'[r] = manifests[r]
           /\ ~overlapped' => AtRest
  <1> DEFINE run == Cardinality(Started) + 1
  <1>1. run \in Runs \ Started
    BY StartedFirst, ChildAssumption DEF ChildAssumption, Begin, Runs
  <1>2. /\ pc[e] = "idle" /\ pc' = [pc EXCEPT ![e] = "started"]
        /\ exec' = [exec EXCEPT ![e] = exec'[e]] /\ exec'[e].run = run
    BY BeginFrame
  <1>3. /\ manifests' = [manifests EXCEPT ![run] = "running"]
        /\ UNCHANGED <<rows, log, asked, creator>>
        /\ overlapped' = (overlapped \/ ~AtRest)
    BY DEF Begin
  <1> HIDE DEF run
  <1>4. Busy' = Busy \cup {e} /\ e \notin Busy
    BY <1>2 DEF Busy, Typed, TypeOK
  <1>5. \A f \in Busy : exec'[f].run = exec[f].run /\ exec[f].run \in Started
    BY <1>2 DEF Numbered, Busy, Typed, TypeOK, Started
  <1>6. manifests'[run] = "running" /\ \A r \in Runs : r # run => manifests'[r] = manifests[r]
    BY <1>1, <1>3 DEF Typed, TypeOK
  <1>7. Started' = Started \cup {run}
    BY <1>1, <1>6 DEF Started
  <1>8. \E n \in 0..MaxRuns : \A r \in Runs : manifests'[r] # "none" <=> r <= n
    <2>1. run = Cardinality(Started) + 1
      BY DEF run
    <2>2. \A r \in Runs : r \in Started' <=> r <= run
      BY <1>7, <2>1, StartedFirst DEF Runs
    <2>3. run \in 0..MaxRuns
      BY <1>1 DEF Runs
    <2> QED
      BY <2>2, <2>3 DEF Started
  <1>9. Completed' = Completed /\ Denied' = Denied /\ Tripped' = Tripped
    BY <1>3, TellsTheSame DEF Completed, Denied, Tripped
  <1>10. \A f \in Busy' : exec'[f].run \in Runs /\ manifests'[exec'[f].run] = "running"
    BY <1>1, <1>2, <1>4, <1>5, <1>6 DEF Numbered
  <1>11. \A f, g \in Busy' : f # g => exec'[f].run # exec'[g].run
    BY <1>1, <1>2, <1>4, <1>5 DEF Numbered
  <1>12. ~overlapped' => AtRest
    BY <1>3
  <1>13. ~overlapped' => (\A f, g \in Busy' : f = g) /\ (creator' = "registered" => Busy' = {})
    BY <1>3, <1>4, <1>12 DEF AtRest
  <1>14. results' \cup breakers' \cup artifacts' \cup asked' \subseteq Started'
    BY <1>3, <1>7 DEF rows, Numbered
  <1>15. Completed' \cup Denied' \cup Tripped' \subseteq Started'
    BY <1>7, <1>9 DEF Numbered
  <1>16. Numbered'
    BY <1>8, <1>10, <1>11, <1>13, <1>14, <1>15 DEF Numbered
  <1> QED
    BY <1>1, <1>2, <1>4, <1>6, <1>7, <1>12, <1>16
\* The saves of an execution before its next one, and before its last.
LEMMA DidInOrder ==
    ASSUME Typed, NEW e \in Executors, pc[e] = "saving"
    PROVE  LET next == NextSave(e)
           IN  /\ next = "result" => Did(e, "complete") /\ Did(e, "artifact")
               /\ next = "finish" => Did(e, "complete") /\ Did(e, "artifact")
               /\ next = "breaker" => Did(e, "trip")
               /\ next = "stop" => Did(e, "trip") /\ Did(e, "artifact")
               /\ next \in {"complete", "deny", "trip"} =>
                      ~Did(e, "artifact") /\ ~Did(e, "finish") /\ ~Did(e, "stop")
               /\ next \in {"complete", "deny"} => ~Did(e, "trip")
               /\ next \in {"deny", "trip"} => ~Did(e, "complete")
  <1>1. exec[e].how \in Hows /\ exec[e].saved \in Nat
        /\ exec[e].saved < Len(Saves(exec[e].how))
    BY DEF Typed, TypeOK, Execs, Placed, Underway
  <1> QED
    BY <1>1, SavesInOrder DEF Did, NextSave

LEMMA DidCount ==
    ASSUME Typed, NEW e \in Executors, pc[e] = "saving"
    PROVE  LET next == NextSave(e)
           IN  /\ next = "account" => ~Did(e, "account") /\ exec[e].how # "violation"
               /\ next = "score" => ~Did(e, "score") /\ exec[e].how # "broken"
               /\ next \in {"complete", "deny"} => ~Did(e, "account") /\ ~Did(e, "score")
               /\ next \in {"account", "score"} =>
                      /\ Did(e, "complete") <=> exec[e].how = "completed"
                      /\ Did(e, "deny") <=> exec[e].how \in Denying
               /\ next = "artifact" => ~Did(e, "finish") /\ ~Did(e, "stop")
  <1>1. exec[e].how \in Hows /\ exec[e].saved \in Nat
        /\ exec[e].saved < Len(Saves(exec[e].how))
    BY DEF Typed, TypeOK, Execs, Placed, Underway
  <1> QED
    BY <1>1, SavesInOrder, SavesCount DEF Did, NextSave

LEMMA DidInTheEnd ==
    ASSUME Typed, NEW e \in Executors, Saving(e, "close")
    PROVE  LET how == exec[e].how
           IN  /\ how \in Hows
               /\ Did(e, "complete") <=> how = "completed"
               /\ Did(e, "result") <=> how = "completed"
               /\ Did(e, "finish") <=> how = "completed"
               /\ Did(e, "deny") <=> how \in Denying
               /\ Did(e, "trip") <=> how \notin {"completed", "denied"}
               /\ Did(e, "breaker") <=> how \notin {"completed", "denied"}
               /\ Did(e, "stop") <=> how \notin {"completed", "denied"}
               /\ Did(e, "artifact") <=> how # "denied"
               /\ Did(e, "account") <=> how # "violation"
               /\ Did(e, "score") <=> how # "broken"
  <1>1. /\ pc[e] = "saving" /\ exec[e].how \in Hows /\ exec[e].saved \in Nat
        /\ exec[e].saved < Len(Saves(exec[e].how))
        /\ Saves(exec[e].how)[exec[e].saved + 1] = "close"
    BY DEF Typed, TypeOK, Execs, Placed, Underway, Saving
  <1>2. exec[e].saved + 1 = Len(Saves(exec[e].how))
    BY <1>1, SavesEnd
  <1> DEFINE how == exec[e].how
             k == exec[e].saved
  <1>3. how \in Hows /\ k \in Nat /\ k + 1 = Len(Saves(how))
    BY <1>1, <1>2
  <1>4. \A t : Did(e, t) <=> \E i \in 1..k : Saves(how)[i] = t
    BY <1>1 DEF Did
  <1> HIDE DEF how, k
  <1>5. /\ how \in Hows
        /\ Did(e, "complete") <=> how = "completed"
        /\ Did(e, "result") <=> how = "completed"
        /\ Did(e, "finish") <=> how = "completed"
        /\ Did(e, "deny") <=> how \in Denying
        /\ Did(e, "trip") <=> how \notin {"completed", "denied"}
        /\ Did(e, "breaker") <=> how \notin {"completed", "denied"}
        /\ Did(e, "stop") <=> how \notin {"completed", "denied"}
        /\ Did(e, "artifact") <=> how # "denied"
        /\ Did(e, "account") <=> how # "violation"
        /\ Did(e, "score") <=> how # "broken"
    <2> DEFINE Done(t) == \E i \in 1..k : Saves(how)[i] = t
    <2>1. /\ Done("complete") <=> how = "completed"
          /\ Done("result") <=> how = "completed"
          /\ Done("finish") <=> how = "completed"
          /\ Done("deny") <=> how \in Denying
          /\ Done("trip") <=> how \notin {"completed", "denied"}
          /\ Done("breaker") <=> how \notin {"completed", "denied"}
          /\ Done("stop") <=> how \notin {"completed", "denied"}
          /\ Done("artifact") <=> how # "denied"
          /\ Done("account") <=> how # "violation"
          /\ Done("score") <=> how # "broken"
      BY SMTT(30), <1>3, SavedInTheEnd
    <2>2. \A t : Did(e, t) <=> Done(t)
      BY <1>4
    <2> HIDE DEF Done
    <2> QED
      BY <1>3, <2>1, <2>2
  <1> QED
    BY <1>5 DEF how

\* An execution that has saved nothing did nothing, and starts with an event.
LEMMA DidNothing ==
    ASSUME Typed, NEW e \in Executors, exec[e].saved = 0
    PROVE  /\ \A s : ~Did(e, s)
           /\ pc[e] = "saving" => NextSave(e) \notin {"result", "breaker"}
  <1>1. \A s : ~Did(e, s)
    BY DEF Did
  <1>2. ASSUME pc[e] = "saving" PROVE NextSave(e) \notin {"result", "breaker"}
    <2>1. exec[e].how \in Hows /\ 0 < Len(Saves(exec[e].how))
      BY <1>2 DEF Typed, Placed, Underway
    <2> QED
      BY <2>1, SavesCount DEF NextSave
  <1> QED
    BY <1>1, <1>2

\* A save adds itself to what was done.
LEMMA DidMore ==
    ASSUME Typed, NEW e \in Executors, NEW s, Written(e, s)
    PROVE  /\ Busy' = Busy /\ e \in Busy /\ pc[e] = "saving" /\ pc' = pc
           /\ NextSave(e) = s
           /\ \A t : Did(e, t)' <=> Did(e, t) \/ t = s
           /\ \A f \in Executors : f # e =>
                 /\ exec'[f] = exec[f]
                 /\ NextSave(f)' = NextSave(f) /\ \A t : Did(f, t)' <=> Did(f, t)
           /\ NextSave(e)' = "result" => s = "read_results"
           /\ NextSave(e)' = "breaker" => s = "read_breakers"
  <1>1. /\ pc[e] = "saving" /\ pc' = pc /\ exec' = [exec EXCEPT ![e] = exec'[e]]
        /\ exec'[e].how = exec[e].how /\ exec'[e].saved = exec[e].saved + 1
        /\ NextSave(e) = s /\ exec'[e].saved < Len(Saves(exec[e].how))
        /\ exec[e].how \in Hows /\ exec[e].saved \in Nat
    BY DEF Written, Saved, Saving, Underway, Typed, TypeOK, Execs
  <1>2. Busy' = Busy /\ e \in Busy
    BY <1>1 DEF Busy
  <1>3. ASSUME NEW t PROVE Did(e, t)' <=> Did(e, t) \/ t = s
    <2>1. 1..(exec[e].saved + 1) = 1..exec[e].saved \cup {exec[e].saved + 1}
      BY <1>1
    <2> QED
      BY <1>1, <2>1 DEF Did, NextSave
  <1>4. ASSUME NEW f \in Executors, f # e
        PROVE  /\ exec'[f] = exec[f]
               /\ NextSave(f)' = NextSave(f) /\ \A t : Did(f, t)' <=> Did(f, t)
    <2>1. exec'[f] = exec[f]
      BY <1>1, <1>4 DEF Typed, TypeOK
    <2> QED
      BY <1>1, <2>1 DEF NextSave, Did
  <1>5. /\ NextSave(e)' = "result" => s = "read_results"
        /\ NextSave(e)' = "breaker" => s = "read_breakers"
    <2>1. NextSave(e)' = Saves(exec[e].how)[(exec[e].saved + 1) + 1]
      BY <1>1 DEF NextSave
    <2> QED
      BY <1>1, <2>1, SavesCount DEF NextSave
  <1> QED
    BY <1>1, <1>2, <1>3, <1>4, <1>5

LEMMA NumberedStep == Typed /\ Numbered /\ Copies /\ [Next]_vars => Numbered'
  <1> SUFFICES ASSUME Typed, Numbered, Copies, [Next]_vars PROVE Numbered'
    OBVIOUS
  <1> USE DEF rows, history
  <1>t. log' = log => Completed' = Completed /\ Denied' = Denied /\ Tripped' = Tripped
    BY TellsTheSame DEF Completed, Denied, Tripped
  <1>n. /\ results \cup breakers \cup artifacts \cup asked \subseteq Started
        /\ Completed \cup Denied \cup Tripped \subseteq Started
        /\ \A e \in Busy : exec[e].run \in Started
    BY DEF Numbered, Started
  <1>1. CASE Register
    <2>1. Busy' = Busy /\ \A e \in Busy : exec'[e] = exec[e]
      BY <1>1 DEF Register, Busy
    <2> QED
      BY <1>1, <1>t, <1>n, <2>1, NumberedKeeps DEF Register
  <1>2. CASE AnnounceContract
    <2>1. Busy' = Busy /\ \A e \in Busy : exec'[e] = exec[e]
      BY <1>2 DEF AnnounceContract, Busy
    <2> QED
      BY <1>2, <1>n, <2>1, AnnouncedTold, NumberedKeeps DEF AnnounceContract
  <1>3. CASE CreatorDies
    <2>1. Busy' = Busy /\ \A e \in Busy : exec'[e] = exec[e]
      BY <1>3 DEF CreatorDies, Busy
    <2> QED
      BY <1>3, <1>t, <1>n, <2>1, NumberedKeeps DEF CreatorDies
  <1>4. ASSUME NEW e \in Executors, Learnt(e), Stopped(e) \/ Reserved(e) \/ Settled(e)
        PROVE  Numbered'
    <2>1. e \in Busy /\ Busy' = Busy
      BY <1>4 DEF Learnt, Stopped, Reserved, Settled, Busy, Typed, TypeOK
    <2>2. \A f \in Busy : exec'[f].run = exec[f].run
      BY <1>4 DEF Learnt, Busy, Typed, TypeOK
    <2>3. asked' \subseteq Started
      BY <1>4, <1>n, <2>1 DEF Stopped, Reserved, Settled
    <2>4. creator' = "registered" /\ ~overlapped' => Busy' = {}
      BY <1>4, <2>1 DEF Learnt, Numbered
    <2> QED
      BY <1>4, <1>t, <1>n, <2>1, <2>2, <2>3, <2>4, NumberedKeeps DEF Learnt
  <1>5. ASSUME NEW e \in Executors, NEW s, Written(e, s) PROVE Numbered'
    <2>1. /\ Busy' = Busy /\ e \in Busy /\ pc[e] = "saving" /\ NextSave(e) = s
          /\ \A f \in Busy : exec'[f].run = exec[f].run
      BY ZenonT(30), <1>5, DidMore DEF Written, Saved, Busy
    <2>2. s \in {"result", "breaker"} => exec[e].copy \subseteq Started
      BY <1>n, <2>1 DEF Copies, RebuiltResults
    <2>3. results' \cup breakers' \cup artifacts' \cup asked' \subseteq Started
      BY <1>5, <1>n, <2>1, <2>2 DEF Written
    <2>4. Completed' \cup Denied' \cup Tripped' \subseteq Started
      BY <1>5, <1>n, <2>1, WrittenTold
    <2>5. creator' = "registered" /\ ~overlapped' => Busy' = {}
      BY <1>5, <2>1 DEF Written, Numbered
    <2> QED
      BY <1>5, <2>1, <2>3, <2>4, <2>5, NumberedKeeps DEF Written
  <1>6. ASSUME NEW e \in Executors, Close(e) \/ Unreadable(e) \/ Kill(e) PROVE Numbered'
    <2>1. Left(e) /\ log' = log /\ creator' = creator /\ overlapped' = overlapped
          /\ UNCHANGED <<results, breakers, artifacts, asked>>
      BY <1>6 DEF Close, Saving, Unreadable, Kill, Left
    <2>2. e \in Busy /\ Busy' = Busy \ {e} /\ \A f \in Busy' : exec'[f] = exec[f]
      BY <1>6, <2>1 DEF Left, Busy, Close, Saving, Unreadable, Kill, Typed, TypeOK
    <2>3. \A r \in Runs : manifests'[r] = "none" <=> manifests[r] = "none"
      BY <1>6, <2>2 DEF Close, Unreadable, Kill, Numbered, Typed, TypeOK
    <2>4. \A f \in Busy' : manifests'[exec[f].run] = manifests[exec[f].run]
      <3>1. \A f \in Busy' : exec[f].run # exec[e].run /\ exec[f].run \in Runs
        BY <2>2 DEF Numbered
      <3> QED
        BY <1>6, <3>1 DEF Close, Unreadable, Kill, Typed, TypeOK
    <2>5. creator' = "registered" /\ ~overlapped' => Busy' = {}
      BY <2>1, <2>2 DEF Numbered
    <2> QED
      BY <1>t, <1>n, <2>1, <2>2, <2>3, <2>4, <2>5, NumberedKeeps
  <1>7. CASE UNCHANGED vars
    <2>1. Busy' = Busy
      BY <1>7 DEF vars, Busy
    <2> QED
      BY <1>7, <1>t, <1>n, <2>1, NumberedKeeps DEF vars, Numbered
  <1>8. ASSUME NEW e \in Executors, Execute(e) PROVE Numbered'
    BY <1>4, <1>5, <1>6, <1>8, ExecuteCases, NumberedBegin
  <1> QED
    BY <1>1, <1>2, <1>3, <1>7, <1>8 DEF Next
-----------------------------------------------------------------------------
(* Traces *)

LEMMA TracedInit == Init => Traced
  <1> SUFFICES ASSUME Init PROVE Traced
    OBVIOUS
  <1>1. Busy = {} /\ \A e \in Executors : pc[e] # "saving"
    BY DEF Init, Busy
  <1>2. RowsAreRecorded
    BY DEF Init, RowsAreRecorded, NoContract
  <1> QED
    BY <1>1, <1>2 DEF Traced, OwnTraces, Copies, OwnRows

\* No run leaves anything behind, and no execution that stays busy moves.
LEMMA TracedKeeps ==
    ASSUME Traced,
           Completed' = Completed, Denied' = Denied, Tripped' = Tripped,
           UNCHANGED <<results, breakers, artifacts, asked, manifests>>,
           contract' = contract \/ contract'.status = "draft",
           ~overlapped' => ~overlapped,
           \A f \in Busy' : f \in Busy /\ pc'[f] = pc[f] /\ exec'[f] = exec[f]
    PROVE  Traced'
  <1>1. RebuiltResults' = RebuiltResults /\ RebuiltBreakers' = RebuiltBreakers
    BY DEF RebuiltResults, RebuiltBreakers
  <1>2. \A f \in Busy' :
           NextSave(f)' = NextSave(f) /\ \A s : Did(f, s)' <=> Did(f, s)
    BY DEF NextSave, Did
  <1>3. OwnTraces'
    BY <1>2 DEF Traced, OwnTraces
  <1>4. Copies'
    <2>1. \A f \in Executors : pc'[f] = "saving" => f \in Busy'
      BY DEF Busy
    <2> QED
      BY <1>1, <1>2, <2>1 DEF Traced, Copies
  <1>5. OwnRows'
    BY <1>2 DEF Traced, OwnRows
  <1>6. RowsAreRecorded'
    BY <1>1 DEF Traced, RowsAreRecorded
  <1> QED
    BY <1>3, <1>4, <1>5, <1>6 DEF Traced

LEMMA TracedBegin ==
    ASSUME Typed, Typed', Numbered, Traced, NEW e \in Executors, Begin(e)
    PROVE  Traced'
  <1> DEFINE run == exec'[e].run
  <1>1. /\ run \in Runs \ Started
        /\ Busy' = Busy \cup {e} /\ e \notin Busy
        /\ \A r \in Runs : r # run => manifests'[r] = manifests[r]
    BY NumberedBegin
  <1>2. /\ pc' = [pc EXCEPT ![e] = "started"] /\ exec' = [exec EXCEPT ![e] = exec'[e]]
        /\ exec'[e].contract = contract /\ exec'[e].saved = 0
    BY BeginFrame
  <1>3. /\ UNCHANGED <<contract, results, breakers, artifacts, log, asked>>
        /\ manifests' = [manifests EXCEPT ![run] = "running"]
        /\ contract.status \notin {"completed", "stopped"}
        /\ ~overlapped' => ~overlapped
    BY BeginFrame DEF Begin, rows
  <1>4. Completed' = Completed /\ Denied' = Denied /\ Tripped' = Tripped
    BY <1>3, TellsTheSame DEF Completed, Denied, Tripped
  <1>5. /\ RebuiltResults' = RebuiltResults /\ RebuiltBreakers' = RebuiltBreakers
        /\ pc'[e] = "started"
    BY <1>2, <1>3, <1>4 DEF RebuiltResults, RebuiltBreakers, Typed, TypeOK
  <1>6. \A f \in Executors : f # e =>
           /\ pc'[f] = pc[f] /\ exec'[f] = exec[f]
           /\ NextSave(f)' = NextSave(f) /\ \A s : Did(f, s)' <=> Did(f, s)
    <2>1. \A f \in Executors : f # e => pc'[f] = pc[f] /\ exec'[f] = exec[f]
      BY <1>2 DEF Typed, TypeOK
    <2> QED
      BY <2>1 DEF NextSave, Did
  <1>7. \A s : ~Did(e, s)'
    BY <1>5 DEF Did
  <1>8. /\ run \notin Completed' \cup Denied' \cup Tripped'
        /\ run \notin artifacts' \cup asked' \cup results' \cup breakers'
    BY <1>1, <1>3, <1>4 DEF Numbered
  <1>9. exec'[e].contract.status = "draft"
    BY <1>2, <1>3 DEF Typed, TypeOK, Contracts
  <1> HIDE DEF run
  <1>10. OwnTraces'
    <2>1. ASSUME NEW f \in Busy
          PROVE  /\ exec'[f].run \in Completed' <=> Did(f, "complete")'
                 /\ exec'[f].run \in Denied' <=> Did(f, "deny")'
                 /\ exec'[f].run \in Tripped' <=> Did(f, "trip")'
                 /\ exec'[f].run \in artifacts' <=> Did(f, "artifact")'
                 /\ exec'[f].contract.status = "draft"
                 /\ pc'[f] = "started" \/ (pc'[f] = "saving" /\ exec'[f].how = "violation") =>
                        exec'[f].run \notin asked'
      BY <1>1, <1>3, <1>4, <1>6 DEF Traced, OwnTraces, Busy
    <2>2. /\ exec'[e].run \in Completed' <=> Did(e, "complete")'
          /\ exec'[e].run \in Denied' <=> Did(e, "deny")'
          /\ exec'[e].run \in Tripped' <=> Did(e, "trip")'
          /\ exec'[e].run \in artifacts' <=> Did(e, "artifact")'
          /\ exec'[e].contract.status = "draft"
          /\ exec'[e].run \notin asked'
      BY <1>7, <1>8, <1>9 DEF run
    <2> QED
      BY <1>1, <2>1, <2>2 DEF OwnTraces
  <1>11. Copies'
    <2>1. \A f \in Executors : pc'[f] = "saving" => f # e
      BY <1>5
    <2> QED
      BY <1>3, <1>4, <1>5, <1>6, <2>1 DEF Traced, Copies
  <1>12. OwnRows'
    <2>1. ASSUME NEW f \in Busy, ~overlapped'
          PROVE  /\ exec'[f].run \in results' <=> Did(f, "result")'
                 /\ exec'[f].run \in breakers' <=> Did(f, "breaker")'
      BY <1>1, <1>3, <1>6, <2>1 DEF Traced, OwnRows, Busy
    <2>2. /\ exec'[e].run \in results' <=> Did(e, "result")'
          /\ exec'[e].run \in breakers' <=> Did(e, "breaker")'
      BY <1>7, <1>8 DEF run
    <2> QED
      BY <1>1, <2>1, <2>2 DEF OwnRows
  <1>13. RowsAreRecorded'
    <2>1. \A r \in Runs : manifests'[r] \in Closed => manifests'[r] = manifests[r]
      BY <1>1, <1>3 DEF Closed, Typed, TypeOK
    <2> QED
      BY <1>3, <1>4, <1>5, <2>1 DEF Traced, RowsAreRecorded, Closed
  <1> QED
    BY <1>10, <1>11, <1>12, <1>13 DEF Traced

LEMMA TracedLearnt ==
    ASSUME Typed, Typed', Numbered, Traced, NEW e \in Executors,
           Learnt(e), Stopped(e) \/ Reserved(e) \/ Settled(e)
    PROVE  Traced'
  <1>1. /\ UNCHANGED <<contract, results, breakers, artifacts, manifests, log, overlapped>>
        /\ e \in Busy /\ Busy' = Busy /\ pc[e] # "saving"
        /\ exec'[e].run = exec[e].run /\ exec'[e].contract = exec[e].contract
        /\ exec'[e].saved = 0 /\ exec[e].saved = 0
    BY DEF Learnt, Stopped, Reserved, Settled, rows, history, Busy, Typed, TypeOK, Placed
  <1>2. Completed' = Completed /\ Denied' = Denied /\ Tripped' = Tripped
    BY <1>1, TellsTheSame DEF Completed, Denied, Tripped
  <1>3. /\ RebuiltResults' = RebuiltResults /\ RebuiltBreakers' = RebuiltBreakers
    BY <1>1, <1>2 DEF RebuiltResults, RebuiltBreakers
  <1>4. \A f \in Executors : f # e =>
           /\ pc'[f] = pc[f] /\ exec'[f] = exec[f]
           /\ NextSave(f)' = NextSave(f) /\ \A s : Did(f, s)' <=> Did(f, s)
    <2>1. \A f \in Executors : f # e => pc'[f] = pc[f] /\ exec'[f] = exec[f]
      BY DEF Learnt, Typed, TypeOK
    <2> QED
      BY <2>1 DEF NextSave, Did
  <1>5. \A s : ~Did(e, s) /\ ~Did(e, s)'
    BY <1>1 DEF Did
  <1>6. pc'[e] = "saving" => NextSave(e)' \notin {"result", "breaker"}
    <2>1. ASSUME pc'[e] = "saving" PROVE NextSave(e)' \notin {"result", "breaker"}
      <3>1. exec'[e].how \in Hows /\ 0 < Len(Saves(exec'[e].how))
        BY <1>1, <2>1 DEF Typed, Placed, Underway
      <3> QED
        BY <1>1, <3>1, SavesCount DEF NextSave
    <2> QED
      BY <2>1
  <1>7. asked' = asked \/ (pc'[e] = "reading" /\ asked' = asked \cup {exec[e].run})
    BY DEF Stopped, Reserved, Settled
  <1>8. pc'[e] # "started" /\ (pc'[e] = "saving" /\ exec'[e].how = "violation" =>
                                  pc[e] = "started" /\ asked' = asked)
    BY DEF Stopped, Reserved, Settled
  <1>9. OwnTraces'
    <2>1. ASSUME NEW f \in Busy, f # e
          PROVE  /\ exec'[f].run \in Completed' <=> Did(f, "complete")'
                 /\ exec'[f].run \in Denied' <=> Did(f, "deny")'
                 /\ exec'[f].run \in Tripped' <=> Did(f, "trip")'
                 /\ exec'[f].run \in artifacts' <=> Did(f, "artifact")'
                 /\ exec'[f].contract.status = "draft"
                 /\ pc'[f] = "started" \/ (pc'[f] = "saving" /\ exec'[f].how = "violation") =>
                        exec'[f].run \notin asked'
      <3>1. exec[f].run # exec[e].run /\ f \in Executors
        BY <1>1, <2>1 DEF Numbered, Busy
      <3> QED
        BY <1>1, <1>2, <1>4, <1>7, <2>1, <3>1 DEF Traced, OwnTraces
    <2>2. /\ exec'[e].run \in Completed' <=> Did(e, "complete")'
          /\ exec'[e].run \in Denied' <=> Did(e, "deny")'
          /\ exec'[e].run \in Tripped' <=> Did(e, "trip")'
          /\ exec'[e].run \in artifacts' <=> Did(e, "artifact")'
          /\ exec'[e].contract.status = "draft"
          /\ pc'[e] = "started" \/ (pc'[e] = "saving" /\ exec'[e].how = "violation") =>
                 exec'[e].run \notin asked'
      BY <1>1, <1>2, <1>5, <1>8 DEF Traced, OwnTraces
    <2> QED
      BY <1>1, <2>1, <2>2 DEF OwnTraces
  <1>10. Copies'
    BY <1>1, <1>2, <1>3, <1>4, <1>6 DEF Traced, Copies
  <1>11. OwnRows'
    <2>1. \A f \in Busy : f \in Executors
      BY DEF Busy
    <2> QED
      BY <1>1, <1>4, <1>5, <2>1 DEF Traced, OwnRows
  <1>12. RowsAreRecorded'
    BY <1>1, <1>2, <1>3 DEF Traced, RowsAreRecorded
  <1> QED
    BY <1>9, <1>10, <1>11, <1>12 DEF Traced
\* What a save adds, told in full; without an overlap a registry is not lost.
LEMMA WrittenAdds ==
    ASSUME Typed, Numbered, Traced, NEW e \in Executors, NEW s, Written(e, s)
    PROVE  LET run == exec[e].run
               with(T, t) == IF s = t THEN T \cup {run} ELSE T
           IN  /\ Completed' = with(Completed, "complete")
               /\ Denied' = with(Denied, "deny")
               /\ Tripped' = with(Tripped, "trip")
               /\ artifacts' = with(artifacts, "artifact")
               /\ ~overlapped => results' = with(results, "result")
                                 /\ breakers' = with(breakers, "breaker")
               /\ results' \subseteq results \cup RebuiltResults
               /\ breakers' \subseteq breakers \cup Tripped
               /\ run \in Runs
  <1>1. NextSave(e) = s /\ pc[e] = "saving" /\ e \in Busy
    BY DidMore
  <1>2. /\ s = "result" => /\ exec[e].copy \subseteq RebuiltResults
                           /\ ~overlapped => exec[e].copy = results
        /\ s = "breaker" => /\ exec[e].copy \subseteq Tripped
                            /\ ~overlapped => exec[e].copy = breakers
    BY <1>1 DEF Traced, Copies
  <1>3. /\ s = "result" => exec[e].run \in Completed /\ exec[e].run \in artifacts
        /\ s = "breaker" => exec[e].run \in Tripped
    BY <1>1, DidInOrder DEF Traced, OwnTraces
  <1>4. exec[e].run \in Runs
    BY <1>1 DEF Numbered
  <1> QED
    BY <1>2, <1>3, <1>4, WrittenTold DEF Written, RebuiltResults

LEMMA TracedWritten ==
    ASSUME Typed, Typed', Numbered, Traced, NEW e \in Executors, NEW s, Written(e, s)
    PROVE  Traced'
  <1> DEFINE run == exec[e].run
  <1>1. /\ Busy' = Busy /\ e \in Busy /\ pc[e] = "saving" /\ pc' = pc
        /\ NextSave(e) = s
        /\ \A t : Did(e, t)' <=> Did(e, t) \/ t = s
        /\ \A f \in Executors : f # e =>
              /\ exec'[f] = exec[f]
              /\ NextSave(f)' = NextSave(f) /\ \A t : Did(f, t)' <=> Did(f, t)
        /\ NextSave(e)' = "result" => s = "read_results"
        /\ NextSave(e)' = "breaker" => s = "read_breakers"
    BY DidMore
  <1>2. /\ Completed' = IF s = "complete" THEN Completed \cup {run} ELSE Completed
        /\ Denied' = IF s = "deny" THEN Denied \cup {run} ELSE Denied
        /\ Tripped' = IF s = "trip" THEN Tripped \cup {run} ELSE Tripped
        /\ artifacts' = IF s = "artifact" THEN artifacts \cup {run} ELSE artifacts
        /\ ~overlapped =>
              /\ results' = IF s = "result" THEN results \cup {run} ELSE results
              /\ breakers' = IF s = "breaker" THEN breakers \cup {run} ELSE breakers
        /\ results' \subseteq results \cup RebuiltResults
        /\ breakers' \subseteq breakers \cup Tripped
        /\ run \in Runs
    BY WrittenAdds
  <1>3. /\ exec'[e].run = run /\ exec'[e].contract = exec[e].contract
        /\ exec'[e].how = exec[e].how
        /\ UNCHANGED <<manifests, asked, overlapped>>
    BY DEF Written, Saved
  <1>4. /\ RebuiltResults \subseteq RebuiltResults'
        /\ RebuiltBreakers \subseteq RebuiltBreakers'
        /\ Denied \subseteq Denied' /\ Tripped \subseteq Tripped'
        /\ ~overlapped => results \subseteq results' /\ breakers \subseteq breakers'
    BY <1>2 DEF RebuiltResults, RebuiltBreakers
  <1>5. \A f \in Busy : f # e => f \in Executors /\ exec[f].run # run
    BY <1>1 DEF Numbered, Busy
  <1>6. ~overlapped => \A f \in Busy : f = e
    BY <1>1 DEF Numbered
  <1>7. OwnTraces'
    <2>1. ASSUME NEW f \in Busy, f # e
          PROVE  /\ exec'[f].run \in Completed' <=> Did(f, "complete")'
                 /\ exec'[f].run \in Denied' <=> Did(f, "deny")'
                 /\ exec'[f].run \in Tripped' <=> Did(f, "trip")'
                 /\ exec'[f].run \in artifacts' <=> Did(f, "artifact")'
                 /\ exec'[f].contract.status = "draft"
                 /\ pc'[f] = "started" \/ (pc'[f] = "saving" /\ exec'[f].how = "violation") =>
                        exec'[f].run \notin asked'
      <3> HIDE DEF run
      <3> QED
        BY <1>1, <1>2, <1>3, <1>5, <2>1 DEF Traced, OwnTraces
    <2>2. /\ exec'[e].run \in Completed' <=> Did(e, "complete")'
          /\ exec'[e].run \in Denied' <=> Did(e, "deny")'
          /\ exec'[e].run \in Tripped' <=> Did(e, "trip")'
          /\ exec'[e].run \in artifacts' <=> Did(e, "artifact")'
          /\ exec'[e].contract.status = "draft"
          /\ pc'[e] = "started" \/ (pc'[e] = "saving" /\ exec'[e].how = "violation") =>
                 exec'[e].run \notin asked'
      BY <1>1, <1>2, <1>3 DEF Traced, OwnTraces
    <2> QED
      BY <1>1, <2>1, <2>2 DEF OwnTraces
  <1>8. Copies'
    <2>1. ASSUME NEW f \in Executors, f # e, pc'[f] = "saving"
          PROVE  /\ NextSave(f)' = "result" =>
                       /\ exec'[f].copy \subseteq RebuiltResults'
                       /\ ~overlapped' => exec'[f].copy = results'
                 /\ NextSave(f)' = "breaker" =>
                       /\ exec'[f].copy \subseteq Tripped'
                       /\ ~overlapped' => exec'[f].copy = breakers'
      <3>1. overlapped
        BY <1>1, <1>6, <2>1 DEF Busy
      <3> QED
        BY <1>1, <1>3, <1>4, <2>1, <3>1 DEF Traced, Copies
    <2>2. /\ NextSave(e)' = "result" =>
                /\ exec'[e].copy \subseteq RebuiltResults'
                /\ ~overlapped' => exec'[e].copy = results'
          /\ NextSave(e)' = "breaker" =>
                /\ exec'[e].copy \subseteq Tripped'
                /\ ~overlapped' => exec'[e].copy = breakers'
      <3>1. s = "read_results" => exec'[e].copy = results /\ results' = results
        BY DEF Written
      <3>2. s = "read_breakers" => exec'[e].copy = breakers /\ breakers' = breakers
        BY DEF Written
      <3> QED
        BY <1>1, <1>4, <3>1, <3>2 DEF Traced, RowsAreRecorded
    <2> QED
      BY <2>1, <2>2 DEF Copies
  <1>9. OwnRows'
    <2>1. ASSUME ~overlapped'
          PROVE  /\ exec'[e].run \in results' <=> Did(e, "result")'
                 /\ exec'[e].run \in breakers' <=> Did(e, "breaker")'
      BY <1>1, <1>2, <1>3, <2>1 DEF Traced, OwnRows
    <2> QED
      BY <1>1, <1>3, <1>6, <2>1 DEF OwnRows
  <1>10. RowsAreRecorded'
    <2>1. results' \subseteq RebuiltResults' /\ breakers' \subseteq Tripped'
      BY <1>2, <1>4 DEF Traced, RowsAreRecorded
    <2>2. /\ s = "finish" => run \in RebuiltResults'
          /\ s = "stop" => run \in RebuiltBreakers'
      BY <1>1, <1>4, DidInOrder DEF Traced, OwnTraces, RebuiltResults, RebuiltBreakers
    <2>3. /\ s = "finish" => contract'.status = "completed"
          /\ s = "stop" => contract'.status = "stopped"
          /\ s \notin {"finish", "stop"} => contract' = contract
      <3>1. exec[e].contract \in Contracts
        BY DEF Typed, TypeOK, Execs
      <3> QED
        BY <3>1 DEF Written, Contracts
    <2>4. /\ contract'.status = "completed" => RebuiltResults' # {}
          /\ contract'.status = "stopped" => RebuiltBreakers' # {}
      BY <1>4, <2>2, <2>3 DEF Traced, RowsAreRecorded
    <2>5. \A r \in Runs :
             /\ manifests'[r] = "completed" => r \in RebuiltResults'
             /\ manifests'[r] = "blocked" => r \in Denied' \cup RebuiltBreakers'
             /\ manifests'[r] \in {"completed", "blocked"} /\ ~overlapped' =>
                    r \in Denied' \cup results' \cup breakers'
      BY <1>3, <1>4 DEF Traced, RowsAreRecorded
    <2> QED
      BY <2>1, <2>4, <2>5 DEF RowsAreRecorded
  <1> QED
    BY <1>7, <1>8, <1>9, <1>10 DEF Traced

\* How the manifest of a run is closed.
LEMMA ClosedBy ==
    ASSUME Typed, Numbered, Traced, NEW e \in Executors, Close(e)
    PROVE  /\ Saving(e, "close") /\ e \in Busy /\ exec[e].run \in Runs
           /\ Left(e) /\ UNCHANGED <<rows, log, asked, creator, history>>
           /\ Busy' = Busy \ {e}
           /\ manifests' = [manifests EXCEPT ![exec[e].run] =
                 IF exec[e].how = "completed" THEN "completed" ELSE "blocked"]
  <1>1. /\ Saving(e, "close") /\ e \in Busy
        /\ UNCHANGED <<rows, log, asked, creator, history>> /\ Left(e)
    BY DEF Close, Saving, Busy, Left
  <1>2. Busy' = Busy \ {e}
    BY <1>1 DEF Busy, Left, Typed, TypeOK
  <1>3. exec[e].run \in Completed <=> exec[e].how = "completed"
    BY <1>1, DidInTheEnd DEF Traced, OwnTraces
  <1>4. exec[e].run \in Runs
    BY <1>1 DEF Numbered
  <1> QED
    BY <1>1, <1>2, <1>3, <1>4 DEF Close, Completed, Told

LEMMA TracedClose ==
    ASSUME Typed, Typed', Numbered, Traced, NEW e \in Executors, Close(e)
    PROVE  Traced'
  <1> DEFINE run == exec[e].run
  <1>1. /\ Saving(e, "close") /\ e \in Busy /\ run \in Runs
        /\ Left(e) /\ UNCHANGED <<rows, log, asked, creator, history>>
        /\ Busy' = Busy \ {e}
        /\ manifests' = [manifests EXCEPT ![run] =
              IF exec[e].how = "completed" THEN "completed" ELSE "blocked"]
    BY ClosedBy
  <1>2. /\ UNCHANGED <<contract, results, breakers, artifacts, asked, overlapped>>
        /\ Completed' = Completed /\ Denied' = Denied /\ Tripped' = Tripped
    BY <1>1, TellsTheSame DEF rows, history, Completed, Denied, Tripped
  <1>3. RebuiltResults' = RebuiltResults /\ RebuiltBreakers' = RebuiltBreakers
    BY <1>2 DEF RebuiltResults, RebuiltBreakers
  <1>4. \A f \in Busy' : /\ f \in Busy /\ pc'[f] = pc[f] /\ exec'[f] = exec[f]
                         /\ NextSave(f)' = NextSave(f) /\ \A s : Did(f, s)' <=> Did(f, s)
    <2>1. \A f \in Busy' : f \in Busy /\ pc'[f] = pc[f] /\ exec'[f] = exec[f]
      BY <1>1 DEF Busy, Left, Typed, TypeOK
    <2> QED
      BY <2>1 DEF NextSave, Did
  <1>5. OwnTraces'
    BY <1>2, <1>4 DEF Traced, OwnTraces
  <1>6. Copies'
    <2>1. \A f \in Executors : pc'[f] = "saving" => f \in Busy'
      BY DEF Busy
    <2> QED
      BY <1>2, <1>3, <1>4, <2>1 DEF Traced, Copies
  <1>7. OwnRows'
    BY <1>2, <1>4 DEF Traced, OwnRows
  <1>8. RowsAreRecorded'
    <2>1. /\ exec[e].how = "completed" => run \in RebuiltResults
          /\ exec[e].how # "completed" => run \in Denied \cup RebuiltBreakers
          /\ ~overlapped => run \in Denied \cup results \cup breakers
      <3> HIDE DEF run
      <3>1. /\ run \in Completed <=> Did(e, "complete")
            /\ run \in Denied <=> Did(e, "deny")
            /\ run \in Tripped <=> Did(e, "trip")
            /\ run \in artifacts <=> Did(e, "artifact")
            /\ ~overlapped =>
                  /\ run \in results <=> Did(e, "result")
                  /\ run \in breakers <=> Did(e, "breaker")
        BY <1>1 DEF run, Traced, OwnTraces, OwnRows
      <3>2. /\ Did(e, "complete") /\ Did(e, "result") <=> exec[e].how = "completed"
            /\ Did(e, "deny") <=> exec[e].how \in Denying
            /\ Did(e, "trip") /\ Did(e, "breaker") <=> exec[e].how \notin {"completed", "denied"}
            /\ Did(e, "artifact") <=> exec[e].how # "denied"
        BY <1>1, DidInTheEnd
      <3> QED
        BY <3>1, <3>2 DEF RebuiltResults, RebuiltBreakers, Denying
    <2>2. \A r \in Runs : r # run => manifests'[r] = manifests[r]
      BY <1>1 DEF Typed, TypeOK
    <2>3. manifests'[run] = IF exec[e].how = "completed" THEN "completed" ELSE "blocked"
      BY <1>1 DEF Typed, TypeOK
    <2> HIDE DEF run
    <2> QED
      BY <1>2, <1>3, <2>1, <2>2, <2>3 DEF Traced, RowsAreRecorded
  <1> QED
    BY <1>5, <1>6, <1>7, <1>8 DEF Traced

LEMMA TracedStep ==
    Typed /\ Typed' /\ Numbered /\ Traced /\ [Next]_vars => Traced'
  <1> SUFFICES ASSUME Typed, Typed', Numbered, Traced, [Next]_vars PROVE Traced'
    OBVIOUS
  <1> USE DEF rows, history
  <1>1. log' = log => Completed' = Completed /\ Denied' = Denied /\ Tripped' = Tripped
    BY TellsTheSame DEF Completed, Denied, Tripped
  <1>2. CASE Register
    BY <1>1, <1>2, TracedKeeps DEF Register, Busy
  <1>3. CASE AnnounceContract
    BY <1>3, AnnouncedTold, TracedKeeps DEF AnnounceContract, Busy
  <1>4. CASE CreatorDies
    BY <1>1, <1>4, TracedKeeps DEF CreatorDies, Busy
  <1>5. ASSUME NEW e \in Executors, Unreadable(e) \/ Kill(e) PROVE Traced'
    <2>1. /\ UNCHANGED <<rows, manifests, log, asked, overlapped>> /\ Left(e)
      BY <1>5 DEF Unreadable, Kill, Left
    <2>2. \A f \in Busy' : f \in Busy /\ pc'[f] = pc[f] /\ exec'[f] = exec[f]
      BY <2>1 DEF Busy, Left, Typed, TypeOK
    <2> QED
      BY <1>1, <2>1, <2>2, TracedKeeps
  <1>6. CASE UNCHANGED vars
    BY <1>1, <1>6, TracedKeeps DEF vars, Busy
  <1>7. ASSUME NEW e \in Executors, Execute(e) PROVE Traced'
    BY <1>5, <1>7, ExecuteCases, TracedBegin, TracedLearnt, TracedWritten, TracedClose
  <1> QED
    BY <1>2, <1>3, <1>4, <1>6, <1>7 DEF Next
-----------------------------------------------------------------------------
(* The budget *)

\* What the budget is charged with, by the runs that are over and by an execution.
Charges(e) ==
    /\ Held(e).tools + Cardinality(Paid) + One(exec[e].run \in asked) <= ToolBudget
    /\ Held(e).leases + Cardinality(Leased) + One(exec[e].how = "completed") <= LeaseBudget

LEMMA BudgetTypes ==
    ASSUME Typed
    PROVE  /\ Cardinality(Paid) \in Nat /\ Cardinality(Leased) \in Nat
           /\ account.tools \in Nat /\ account.leases \in Nat
           /\ ToolBudget \in Nat /\ LeaseBudget \in Nat
           /\ Paid \subseteq Runs /\ Leased \subseteq Runs
           /\ \A e \in Executors :
                 /\ exec[e].account \in Accounts
                 /\ exec[e].account.tools \in Nat /\ exec[e].account.leases \in Nat
  <1>1. Paid \subseteq Runs /\ Leased \subseteq Runs
    BY DEF Typed, TypeOK, Paid, Leased
  <1>2. \A e \in Executors : exec[e].account \in Accounts
    BY DEF Typed, TypeOK, Execs
  <1> QED
    BY <1>1, <1>2, StartedFinite, ChildAssumption DEF ChildAssumption, Typed, TypeOK, Accounts

LEMMA AffordedInit == Init => Afforded
  <1> SUFFICES ASSUME Init PROVE Afforded
    OBVIOUS
  <1>1. Paid = {} /\ Leased = {}
    BY DEF Init, Paid, Leased
  <1>2. Cardinality({}) = 0
    BY FS_EmptySet
  <1>3. /\ account.tools = ToolBudget /\ account.leases = LeaseBudget
        /\ \A e \in Executors : pc[e] = "idle"
    BY DEF Init, FreshAccount
  <1> QED
    BY <1>1, <1>2, <1>3, ChildAssumption DEF ChildAssumption, Afforded

\* Nothing is charged, and nobody moves who has something to charge.
LEMMA AffordedKeeps ==
    ASSUME Afforded, ~overlapped' => ~overlapped,
           account' = account, Paid' = Paid, Leased' = Leased,
           \A f \in Executors : pc'[f] \in {"reading", "saving"} =>
              /\ pc[f] = pc'[f] /\ exec'[f] = exec[f]
              /\ exec[f].run \in asked' <=> exec[f].run \in asked
    PROVE  Afforded'
  <1>1. \A f \in Executors : pc'[f] \in {"reading", "saving"} =>
           (Did(f, "account")' <=> Did(f, "account"))
    BY DEF Did
  <1>2. \A f \in Executors : pc'[f] \in {"reading", "saving"} => Held(f)' = Held(f)
    BY <1>1 DEF Held
  <1>3. \A f \in Executors : pc'[f] \in {"reading", "saving"} =>
           One(exec[f].run \in asked)' = One(exec[f].run \in asked)
    BY DEF One
  <1> QED
    BY <1>2, <1>3 DEF Afforded

LEMMA AffordedLearnt ==
    ASSUME Typed, Typed', Numbered, Traced, Afforded, NEW e \in Executors,
           Learnt(e), Stopped(e) \/ Reserved(e) \/ Settled(e)
    PROVE  Afforded'
  <1> SUFFICES ASSUME ~overlapped' PROVE Afforded'
    BY DEF Afforded
  <1>1. /\ UNCHANGED <<account, manifests, overlapped>>
        /\ e \in Busy /\ pc[e] # "saving"
        /\ exec'[e].run = exec[e].run
        /\ exec'[e].saved = 0
    BY DEF Learnt, Stopped, Reserved, Settled, rows, history, Busy
  <1>2. ~Did(e, "account") /\ ~Did(e, "account")'
    BY <1>1 DEF Did
  <1>3. Held(e) = exec[e].account /\ Held(e)' = exec'[e].account
    BY <1>2 DEF Held
  <1>4. \A f \in Executors : f # e => pc'[f] = "idle"
    BY <1>1 DEF Numbered, Busy, Learnt, Typed, TypeOK
  <1>5. Paid' = Paid /\ Leased' = Leased
    <2>1. manifests[exec[e].run] = "running"
      BY <1>1 DEF Numbered
    <2> QED
      BY <1>1, <2>1 DEF Paid, Leased, Closed, Stopped, Reserved, Settled
  <1>6. /\ account.tools + Cardinality(Paid) <= ToolBudget
        /\ account.leases + Cardinality(Leased) <= LeaseBudget
        /\ pc[e] = "reading" => Charges(e)
    BY <1>1 DEF Afforded, Charges
  <1>7. Charges(e)'
    <2>1. CASE Stopped(e)
      <3>1. exec[e].run \notin asked'
        BY <1>1, <2>1 DEF Stopped, Traced, OwnTraces
      <3> QED
        BY <1>1, <1>3, <1>5, <1>6, <2>1, <3>1, BudgetTypes DEF Charges, Stopped, One
    <2>2. CASE Reserved(e)
      <3>1. /\ exec'[e].run \in asked' /\ exec'[e].how = "none"
            /\ exec'[e].account.tools + 1 = account.tools
            /\ exec'[e].account.leases = account.leases
        BY <1>1, <2>2 DEF Reserved
      <3>2. One(exec'[e].run \in asked') = 1 /\ One(exec'[e].how = "completed") = 0
        BY <3>1 DEF One
      <3>3. exec'[e].account.tools \in Nat /\ exec'[e].account.leases \in Nat
        BY DEF Typed, TypeOK, Execs, Accounts
      <3>4. /\ exec'[e].account.tools + Cardinality(Paid) + 1 <= ToolBudget
            /\ exec'[e].account.leases + Cardinality(Leased) + 0 <= LeaseBudget
        BY <1>6, <3>1, <3>3, BudgetTypes
      <3> QED
        BY <1>3, <1>5, <3>2, <3>4 DEF Charges
    <2>3. CASE Settled(e)
      <3>1. exec[e].how = "none" /\ asked' = asked
        BY <2>3 DEF Settled, Typed, Placed
      <3>2. exec'[e].account.tools \in Nat /\ exec'[e].account.leases \in Nat
        BY DEF Typed, TypeOK, Execs, Accounts
      <3> QED
        BY <1>1, <1>3, <1>5, <1>6, <2>3, <3>1, <3>2, BudgetTypes DEF Charges, Settled, One
    <2> QED
      BY <2>1, <2>2, <2>3
  <1> QED
    BY <1>1, <1>4, <1>5, <1>6, <1>7 DEF Afforded, Charges

LEMMA AffordedWritten ==
    ASSUME Typed, Typed', Numbered, Traced, Afforded, NEW e \in Executors, NEW s, Written(e, s)
    PROVE  Afforded'
  <1> SUFFICES ASSUME ~overlapped' PROVE Afforded'
    BY DEF Afforded
  <1>1. /\ e \in Busy /\ pc[e] = "saving" /\ pc' = pc /\ NextSave(e) = s
        /\ (Did(e, "account")' <=> Did(e, "account") \/ s = "account")
    BY DidMore
  <1>2. /\ UNCHANGED <<manifests, asked, overlapped>>
        /\ exec'[e].run = exec[e].run /\ exec'[e].how = exec[e].how
        /\ exec'[e].account = exec[e].account
        /\ account' = IF s = "account" THEN exec[e].account ELSE account
    BY DEF Written, Saved
  <1>3. s = "account" => ~Did(e, "account")
    BY <1>1, DidCount
  <1>4. Held(e)' = Held(e)
    BY <1>1, <1>2, <1>3 DEF Held
  <1>5. Paid' = Paid /\ Leased' = Leased
    BY <1>2 DEF Paid, Leased, Closed
  <1>6. \A f \in Executors : f # e => pc'[f] = "idle"
    BY <1>1, <1>2 DEF Numbered, Busy
  <1>7. /\ account.tools + Cardinality(Paid) <= ToolBudget
        /\ account.leases + Cardinality(Leased) <= LeaseBudget
        /\ Charges(e)
    BY <1>1, <1>2 DEF Afforded, Charges
  <1>8. Charges(e)'
    BY <1>2, <1>4, <1>5, <1>7 DEF Charges
  <1>9. /\ account'.tools + Cardinality(Paid) <= ToolBudget
        /\ account'.leases + Cardinality(Leased) <= LeaseBudget
    BY <1>2, <1>3, <1>7, BudgetTypes DEF Charges, Held, One
  <1> QED
    BY <1>5, <1>6, <1>8, <1>9 DEF Afforded, Charges

LEMMA AffordedClose ==
    ASSUME Typed, Typed', Numbered, Traced, Afforded, NEW e \in Executors, Close(e)
    PROVE  Afforded'
  <1> SUFFICES ASSUME ~overlapped' PROVE Afforded'
    BY DEF Afforded
  <1> DEFINE run == exec[e].run
             how == exec[e].how
  <1>1. /\ Saving(e, "close") /\ e \in Busy /\ run \in Runs
        /\ Left(e) /\ account' = account /\ asked' = asked /\ overlapped' = overlapped
        /\ Busy' = Busy \ {e}
        /\ manifests' = [manifests EXCEPT ![run] =
              IF how = "completed" THEN "completed" ELSE "blocked"]
    BY ClosedBy DEF rows, history
  <1>2. pc[e] = "saving"
    BY <1>1 DEF Saving
  <1>3. \A f \in Executors : pc'[f] = "idle"
    BY <1>1 DEF Numbered, Busy
  <1>4. /\ account.tools + Cardinality(Paid) <= ToolBudget
        /\ account.leases + Cardinality(Leased) <= LeaseBudget
        /\ Charges(e)
    BY <1>1, <1>2 DEF Afforded, Charges
  <1>5. CASE how = "violation"
    <2>1. run \notin asked
      BY <1>1, <1>2, <1>5 DEF Traced, OwnTraces
    <2>2. Paid' = Paid /\ Leased' = Leased
      BY <1>1, <2>1 DEF Paid, Leased, Closed, Typed, TypeOK
    <2> QED
      BY <1>1, <1>3, <1>4, <2>2 DEF Afforded
  <1>6. CASE how # "violation"
    <2>1. Held(e) = account
      BY <1>1, <1>6, DidInTheEnd DEF Held
    <2>2. manifests[run] = "running"
      BY <1>1 DEF Numbered
    <2>3. /\ Paid' = IF run \in asked THEN Paid \cup {run} ELSE Paid
          /\ Leased' = IF run \in asked /\ how = "completed" THEN Leased \cup {run} ELSE Leased
          /\ run \notin Paid /\ run \notin Leased
      BY <1>1, <2>2 DEF Paid, Leased, Closed, Typed, TypeOK
    <2>4. /\ IsFiniteSet(Paid) /\ IsFiniteSet(Leased)
      BY BudgetTypes, StartedFinite
    <2>5. /\ Cardinality(Paid') = Cardinality(Paid) + One(run \in asked)
          /\ Cardinality(Leased') <= Cardinality(Leased) + One(how = "completed")
      <3> HIDE DEF run, how
      <3>1. /\ Cardinality(Paid \cup {run}) = Cardinality(Paid) + 1
            /\ Cardinality(Leased \cup {run}) = Cardinality(Leased) + 1
        BY <2>3, <2>4, FS_AddElement
      <3>2. Cardinality(Paid) \in Nat /\ Cardinality(Leased) \in Nat
        BY BudgetTypes
      <3>3. Cardinality(Paid') = Cardinality(Paid) + One(run \in asked)
        BY <2>3, <3>1, <3>2 DEF One
      <3>4. Cardinality(Leased') <= Cardinality(Leased) + One(how = "completed")
        <4>1. CASE run \in asked /\ how = "completed"
          BY <2>3, <3>1, <3>2, <4>1 DEF One
        <4>2. CASE ~(run \in asked /\ how = "completed")
          BY <2>3, <3>2, <4>2 DEF One
        <4> QED
          BY <4>1, <4>2
      <3> QED
        BY <3>3, <3>4
    <2> DEFINE asks == One(run \in asked)
               completes == One(how = "completed")
    <2>6. asks \in Nat /\ completes \in Nat
      BY DEF One
    <2>7. /\ account.tools + Cardinality(Paid) + asks <= ToolBudget
          /\ account.leases + Cardinality(Leased) + completes <= LeaseBudget
      BY <1>4, <2>1 DEF Charges
    <2>8. /\ Cardinality(Paid') = Cardinality(Paid) + asks
          /\ Cardinality(Leased') <= Cardinality(Leased) + completes
      BY <2>5
    <2>9. Cardinality(Paid') \in Nat /\ Cardinality(Leased') \in Nat
      <3>1. Paid' \subseteq Runs /\ Leased' \subseteq Runs
        BY DEF Paid, Leased, Typed, TypeOK
      <3> QED
        BY <3>1, StartedFinite
    <2> HIDE DEF asks, completes
    <2>10. /\ account.tools + Cardinality(Paid') <= ToolBudget
           /\ account.leases + Cardinality(Leased') <= LeaseBudget
      BY <2>6, <2>7, <2>8, <2>9, BudgetTypes
    <2> QED
      BY <1>1, <1>3, <2>10 DEF Afforded
  <1> QED
    BY <1>5, <1>6

LEMMA AffordedStep ==
    Typed /\ Typed' /\ Numbered /\ Traced /\ Afforded /\ [Next]_vars => Afforded'
  <1> SUFFICES ASSUME Typed, Typed', Numbered, Traced, Afforded, [Next]_vars PROVE Afforded'
    OBVIOUS
  <1> USE DEF rows, history
  <1>1. CASE Register \/ AnnounceContract \/ CreatorDies \/ UNCHANGED vars
    <2>1. UNCHANGED <<account, manifests, asked, pc, exec>> /\ (~overlapped' => ~overlapped)
      <3>1. Register => UNCHANGED <<account, manifests, asked, pc, exec>>
                        /\ (~overlapped' => ~overlapped)
        BY DEF Register
      <3>2. AnnounceContract \/ CreatorDies \/ UNCHANGED vars =>
               UNCHANGED <<account, manifests, asked, pc, exec, overlapped>>
        BY DEF AnnounceContract, CreatorDies, vars
      <3> QED
        BY <1>1, <3>1, <3>2
    <2>2. Paid' = Paid /\ Leased' = Leased
      BY <2>1 DEF Paid, Leased, Closed
    <2> QED
      BY <2>1, <2>2, AffordedKeeps
  <1>2. ASSUME NEW e \in Executors, Begin(e) PROVE Afforded'
    <2>1. /\ exec'[e].run \notin asked
          /\ \A r \in Runs : r # exec'[e].run => manifests'[r] = manifests[r]
      BY <1>2, NumberedBegin DEF Numbered
    <2>2. account' = account /\ asked' = asked /\ (~overlapped' => ~overlapped)
      BY <1>2 DEF Begin
    <2>3. Paid' = Paid /\ Leased' = Leased
      BY <2>1, <2>2 DEF Paid, Leased, Closed, Typed, TypeOK
    <2>4. \A f \in Executors : pc'[f] \in {"reading", "saving"} =>
             pc[f] = pc'[f] /\ exec'[f] = exec[f]
      BY <1>2, BeginFrame DEF Typed, TypeOK
    <2> QED
      BY <2>2, <2>3, <2>4, AffordedKeeps
  <1>3. ASSUME NEW e \in Executors, Unreadable(e) \/ Kill(e) PROVE Afforded'
    <2>1. UNCHANGED <<account, manifests, asked, overlapped>> /\ Left(e)
      BY <1>3 DEF Unreadable, Kill, Left
    <2>2. Paid' = Paid /\ Leased' = Leased
      BY <2>1 DEF Paid, Leased, Closed
    <2>3. \A f \in Executors : pc'[f] \in {"reading", "saving"} =>
             pc[f] = pc'[f] /\ exec'[f] = exec[f]
      BY <2>1 DEF Left, Typed, TypeOK
    <2> QED
      BY <2>1, <2>2, <2>3, AffordedKeeps
  <1>4. ASSUME NEW e \in Executors, Execute(e) PROVE Afforded'
    BY <1>2, <1>3, <1>4, ExecuteCases, AffordedLearnt, AffordedWritten, AffordedClose
  <1> QED
    BY <1>1, <1>4 DEF Next
-----------------------------------------------------------------------------
(* Stops *)

LEMMA FinalInit == Init => Final
  <1> SUFFICES ASSUME Init PROVE Final
    OBVIOUS
  <1>1. asked = {} /\ \A e \in Executors : pc[e] = "idle"
    BY DEF Init
  <1> QED
    BY <1>1 DEF Final, Busy

\* Nobody moves who has something to save, and nothing is told or paid.
LEMMA FinalKeeps ==
    ASSUME Final, ~overlapped' => ~overlapped,
           account' = account, asked' = asked, Tripped' = Tripped, Denied' = Denied,
           \A r \in asked : manifests'[r] = manifests[r],
           ~overlapped' => \A e \in Busy' : \A r \in Started' : r <= exec'[e].run,
           \A f \in Executors : pc'[f] \in {"reading", "saving"} =>
              pc[f] = pc'[f] /\ exec'[f] = exec[f]
    PROVE  Final'
  <1>1. \A f \in Executors : pc'[f] \in {"reading", "saving"} =>
           (Did(f, "account")' <=> Did(f, "account"))
    BY DEF Did
  <1>2. \A r \in asked : Ended(r)' <=> Ended(r)
    BY DEF Ended
  <1> QED
    BY <1>1, <1>2 DEF Final

LEMMA FinalLearnt ==
    ASSUME Typed, Typed', Numbered, Traced, Final, NEW e \in Executors,
           Learnt(e), Stopped(e) \/ Reserved(e) \/ Settled(e)
    PROVE  Final'
  <1> SUFFICES ASSUME ~overlapped' PROVE Final'
    BY DEF Final
  <1>1. /\ UNCHANGED <<account, manifests, log, overlapped>>
        /\ e \in Busy /\ pc[e] # "saving" /\ ~overlapped
        /\ exec'[e].run = exec[e].run /\ exec'[e].saved = 0
        /\ pc'[e] \in {"reading", "saving"}
    BY DEF Learnt, Stopped, Reserved, Settled, rows, history, Busy
  <1>2. ~Did(e, "account")'
    BY <1>1 DEF Did
  <1>3. \A f \in Executors : f # e => pc'[f] = "idle"
    BY <1>1 DEF Numbered, Busy, Learnt, Typed, TypeOK
  <1>4. /\ Started' = Started /\ Tripped' = Tripped /\ Denied' = Denied
        /\ \A r : Ended(r)' <=> Ended(r)
    <2>1. Tripped' = Tripped /\ Denied' = Denied
      BY <1>1, TellsTheSame DEF Tripped, Denied
    <2> QED
      BY <1>1, <2>1 DEF Started, Ended
  <1>5. \A r \in Started : r <= exec[e].run
    BY <1>1 DEF Final
  <1>6. /\ pc'[e] = "reading" => account.status = "active" /\ exec'[e].run \in asked'
        /\ pc'[e] = "saving" =>
              /\ exec'[e].how \in Stopping => exec'[e].account.status # "active"
              /\ exec'[e].run \in asked' => account.status = "active"
              /\ exec'[e].run \notin asked' => exec'[e].how \in {"violation", "broken"}
    <2>1. CASE Stopped(e)
      <3>1. exec[e].run \notin asked
        BY <1>1, <2>1 DEF Stopped, Traced, OwnTraces
      <3> QED
        BY <1>1, <2>1, <3>1 DEF Stopped
    <2>2. CASE Reserved(e)
      BY <1>1, <2>2 DEF Reserved
    <2>3. CASE Settled(e)
      <3>1. pc[e] = "reading" /\ account.status = "active" /\ exec[e].run \in asked
        BY <1>1, <2>3 DEF Settled, Final
      <3> QED
        BY <1>1, <2>3, <3>1 DEF Settled
    <2> QED
      BY <2>1, <2>2, <2>3
  <1>7. \A r \in asked' : Ended(r)' =>
           account.status # "active" /\ \A q \in asked' : q <= r
    <2> SUFFICES ASSUME NEW r \in asked', Ended(r)
                 PROVE  account.status # "active" /\ \A q \in asked' : q <= r
      BY <1>4
    <2>1. CASE Reserved(e)
      <3>1. manifests[exec[e].run] = "running" /\ exec[e].run \notin Tripped
        <4>1. pc[e] = "started"
          BY <2>1 DEF Reserved
        <4> QED
          BY <1>1, <4>1 DEF Numbered, Traced, OwnTraces, Did
      <3>2. r \in asked
        BY <2>1, <3>1 DEF Reserved, Ended
      <3>3. account.status # "active"
        BY <1>1, <3>2 DEF Final
      <3> QED
        BY <2>1, <3>3 DEF Reserved
    <2>2. CASE Stopped(e) \/ Settled(e)
      BY <1>1, <2>2 DEF Stopped, Settled, Final
    <2> QED
      BY <2>1, <2>2
  <1>8. \A f \in Busy' : \A r \in Started' : r <= exec'[f].run
    BY <1>1, <1>3, <1>4, <1>5 DEF Busy
  <1> QED
    BY <1>1, <1>2, <1>3, <1>6, <1>7, <1>8 DEF Final

\* A breaker of a denied read is told after the account is saved.
LEMMA DidTripped ==
    ASSUME Typed, Traced, NEW e \in Executors, NEW s, Written(e, s),
           exec[e].run \in Tripped', exec[e].run \in Denied'
    PROVE  exec[e].how = "denied_often" /\ Did(e, "account")'
  <1>1. /\ pc[e] = "saving" /\ e \in Busy /\ NextSave(e) = s /\ pc' = pc
        /\ \A t : Did(e, t)' <=> Did(e, t) \/ t = s
    BY DidMore
  <1>2. Did(e, "trip")' /\ Did(e, "deny")'
    BY <1>1, WrittenTold DEF Traced, OwnTraces
  <1>3. /\ exec'[e].how = exec[e].how /\ exec'[e].saved = exec[e].saved + 1
        /\ exec[e].how \in Hows /\ exec[e].saved \in Nat
        /\ exec[e].saved + 1 < Len(Saves(exec[e].how))
    BY DEF Written, Saved, Typed, TypeOK, Execs, Underway
  <1> DEFINE how == exec[e].how
             k == exec[e].saved + 1
  <1>4. how \in Hows /\ k \in Nat /\ k < Len(Saves(how))
    BY <1>3
  <1>5. \A t : Did(e, t)' <=> \E i \in 1..k : Saves(how)[i] = t
    BY <1>1, <1>3 DEF Did
  <1>6. (\E i \in 1..k : Saves(how)[i] = "trip") /\ (\E i \in 1..k : Saves(how)[i] = "deny")
    BY <1>2, <1>5
  <1> HIDE DEF how, k
  <1>7. how = "denied_often" /\ \E i \in 1..k : Saves(how)[i] = "account"
    BY <1>4, <1>6 DEF Saves, Hows
  <1> QED
    BY <1>5, <1>7 DEF how

LEMMA FinalWritten ==
    ASSUME Typed, Typed', Numbered, Traced, Final, NEW e \in Executors, NEW s, Written(e, s)
    PROVE  Final'
  <1> SUFFICES ASSUME ~overlapped' PROVE Final'
    BY DEF Final
  <1> DEFINE run == exec[e].run
             how == exec[e].how
  <1>1. /\ e \in Busy /\ pc[e] = "saving" /\ pc' = pc /\ NextSave(e) = s
        /\ (Did(e, "account")' <=> Did(e, "account") \/ s = "account")
    BY DidMore
  <1>2. /\ UNCHANGED <<manifests, asked, overlapped>> /\ ~overlapped
        /\ exec'[e].run = run /\ exec'[e].how = how /\ exec'[e].account = exec[e].account
        /\ account' = IF s = "account" THEN exec[e].account ELSE account
    BY DEF Written, Saved
  <1>3. /\ s = "account" => ~Did(e, "account") /\ how # "violation"
        /\ how \in Hows /\ run \in Runs /\ manifests[run] = "running"
    BY <1>1, DidCount DEF Numbered, Typed, Placed, Underway
  <1>4. \A f \in Executors : f # e => pc'[f] = "idle"
    BY <1>1, <1>2 DEF Numbered, Busy
  <1>5. /\ how \in Stopping => exec[e].account.status # "active"
        /\ run \in asked => IF Did(e, "account") THEN account = exec[e].account
                            ELSE account.status = "active"
        /\ run \notin asked => how \in {"violation", "broken"}
        /\ \A r \in Started : r <= run
    BY <1>1, <1>2 DEF Final
  <1>6. \A r \in asked : Ended(r) => account.status # "active" /\ \A q \in asked : q <= r
    BY <1>2 DEF Final
  <1>7. run \in asked => IF Did(e, "account")' THEN account' = exec[e].account
                         ELSE account'.status = "active"
    BY <1>1, <1>2, <1>5
  <1>8. \A r \in asked : r # run => (Ended(r)' <=> Ended(r))
    BY <1>2, WrittenTold DEF Ended
  <1>9. \A r \in asked : r # run /\ Ended(r) => account'.status # "active"
    <2> SUFFICES ASSUME NEW r \in asked, Ended(r), s = "account"
                 PROVE  exec[e].account.status # "active"
      BY <1>2, <1>6
    <2>1. run \notin asked
      BY <1>3, <1>5, <1>6
    <2> QED
      BY <1>3, <1>5, <2>1 DEF Stopping
  <1>10. ASSUME NEW r \in asked, r = run, Ended(r)' PROVE account'.status # "active"
    <2>1. run \in asked /\ run \in Tripped' /\ run \in Denied'
      BY <1>2, <1>3, <1>10 DEF Ended
    <2>2. how = "denied_often" /\ Did(e, "account")'
      BY <1>1, <1>3, <2>1, DidTripped
    <2> QED
      BY <1>5, <1>7, <2>2 DEF Stopping
  <1>11. \A q \in asked : q <= run
    BY <1>5 DEF Numbered
  <1>12. \A r \in asked : Ended(r)' => account'.status # "active" /\ \A q \in asked : q <= r
    <2> SUFFICES ASSUME NEW r \in asked, Ended(r)'
                 PROVE  account'.status # "active" /\ \A q \in asked : q <= r
      OBVIOUS
    <2>1. CASE r = run
      BY <1>10, <1>11, <2>1
    <2>2. CASE r # run
      BY <1>6, <1>8, <1>9, <2>2
    <2> QED
      BY <2>1, <2>2
  <1>13. \A f \in Busy' : \A r \in Started' : r <= exec'[f].run
    BY <1>1, <1>2, <1>4, <1>5 DEF Busy, Started
  <1> QED
    BY <1>1, <1>2, <1>4, <1>5, <1>7, <1>12, <1>13 DEF Final

LEMMA FinalClose ==
    ASSUME Typed, Typed', Numbered, Traced, Final, NEW e \in Executors, Close(e)
    PROVE  Final'
  <1> SUFFICES ASSUME ~overlapped' PROVE Final'
    BY DEF Final
  <1> DEFINE run == exec[e].run
             how == exec[e].how
  <1>1. /\ Saving(e, "close") /\ e \in Busy /\ run \in Runs
        /\ Left(e) /\ UNCHANGED <<account, log, asked, overlapped>> /\ ~overlapped
        /\ Busy' = Busy \ {e}
        /\ manifests' = [manifests EXCEPT ![run] =
              IF how = "completed" THEN "completed" ELSE "blocked"]
    BY ClosedBy DEF rows, history
  <1>2. pc[e] = "saving"
    BY <1>1 DEF Saving
  <1>3. Busy' = {} /\ \A f \in Executors : pc'[f] = "idle"
    BY <1>1 DEF Numbered, Busy
  <1>4. Tripped' = Tripped /\ Denied' = Denied
    BY <1>1, TellsTheSame DEF Tripped, Denied
  <1>5. \A r \in asked : r # run => (Ended(r)' <=> Ended(r))
    BY <1>1, <1>4 DEF Ended, Typed, TypeOK
  <1>6. ASSUME NEW r \in asked, r = run, Ended(r)' PROVE account.status # "active"
    <2>0. run \in asked /\ run \in Tripped
      BY <1>4, <1>6 DEF Ended
    <2>1. how \in Hows /\ how \notin {"completed", "denied"}
          /\ (Did(e, "account") <=> how # "violation")
      BY <1>1, <1>2, <2>0, DidInTheEnd DEF Traced, OwnTraces
    <2>2. how # "violation"
      BY <1>1, <1>2, <2>0 DEF Traced, OwnTraces
    <2>3. how \in Stopping /\ Did(e, "account")
      BY <2>1, <2>2 DEF Hows, Stopping
    <2> QED
      BY <1>1, <1>2, <2>0, <2>3 DEF Final
  <1>7. \A q \in asked : q <= run
    BY <1>1 DEF Final, Numbered
  <1>8. \A r \in asked : Ended(r)' => account.status # "active" /\ \A q \in asked : q <= r
    <2> SUFFICES ASSUME NEW r \in asked, Ended(r)'
                 PROVE  account.status # "active" /\ \A q \in asked : q <= r
      OBVIOUS
    <2>1. CASE r = run
      BY <1>6, <1>7, <2>1
    <2>2. CASE r # run
      BY <1>1, <1>5, <2>2 DEF Final
    <2> QED
      BY <2>1, <2>2
  <1> QED
    BY <1>1, <1>3, <1>8 DEF Final

LEMMA FinalStep ==
    Typed /\ Typed' /\ Numbered /\ Traced /\ Final /\ [Next]_vars => Final'
  <1> SUFFICES ASSUME Typed, Typed', Numbered, Traced, Final, [Next]_vars PROVE Final'
    OBVIOUS
  <1> USE DEF rows, history
  <1>1. CASE Register \/ AnnounceContract \/ CreatorDies \/ UNCHANGED vars
    <2>1. UNCHANGED <<account, manifests, asked, pc, exec>> /\ (~overlapped' => ~overlapped)
      <3>1. Register => UNCHANGED <<account, manifests, asked, pc, exec>>
                        /\ (~overlapped' => ~overlapped)
        BY DEF Register
      <3>2. AnnounceContract \/ CreatorDies \/ UNCHANGED vars =>
               UNCHANGED <<account, manifests, asked, pc, exec, overlapped>>
        BY DEF AnnounceContract, CreatorDies, vars
      <3> QED
        BY <1>1, <3>1, <3>2
    <2>2. Tripped' = Tripped /\ Denied' = Denied
      <3>1. Register \/ CreatorDies \/ UNCHANGED vars => log' = log
        BY DEF Register, CreatorDies, vars
      <3> QED
        BY <1>1, <3>1, AnnouncedTold, TellsTheSame DEF Tripped, Denied
    <2>3. Busy' = Busy /\ Started' = Started
      BY <2>1 DEF Busy, Started
    <2>4. ~overlapped' => \A e \in Busy' : \A r \in Started' : r <= exec'[e].run
      BY <2>1, <2>3 DEF Final
    <2> QED
      BY <2>1, <2>2, <2>4, FinalKeeps
  <1>2. ASSUME NEW e \in Executors, Begin(e) PROVE Final'
    <2>1. /\ exec'[e].run \in Runs \ Started /\ exec'[e].run = Cardinality(Started) + 1
          /\ Busy' = Busy \cup {e}
          /\ Started' = Started \cup {exec'[e].run}
          /\ \A r \in Runs : r # exec'[e].run => manifests'[r] = manifests[r]
          /\ ~overlapped' => AtRest
      BY <1>2, NumberedBegin, BeginFrame
    <2>2. UNCHANGED <<account, asked, log>> /\ (~overlapped' => ~overlapped)
      BY <1>2 DEF Begin
    <2>3. Tripped' = Tripped /\ Denied' = Denied
      BY <2>2, TellsTheSame DEF Tripped, Denied
    <2>4. \A f \in Executors : pc'[f] \in {"reading", "saving"} =>
             pc[f] = pc'[f] /\ exec'[f] = exec[f]
      BY <1>2, BeginFrame DEF Typed, TypeOK
    <2>5. \A r \in asked : manifests'[r] = manifests[r]
      BY <2>1 DEF Numbered, Typed, TypeOK
    <2>6. ~overlapped' => \A f \in Busy' : \A r \in Started' : r <= exec'[f].run
      <3> SUFFICES ASSUME ~overlapped', NEW r \in Started' PROVE r <= exec'[e].run
        BY <2>1 DEF AtRest
      <3>1. /\ Cardinality(Started) \in Nat
            /\ \A q \in Runs : q \in Started <=> q <= Cardinality(Started)
        BY StartedFirst
      <3>2. Started \subseteq Runs /\ Runs \subseteq Nat
        BY ChildAssumption DEF ChildAssumption, Started, Runs
      <3>3. r \in Started => r <= Cardinality(Started)
        BY <3>1, <3>2
      <3>4. r \in Nat /\ (r \in Started \/ r = exec'[e].run)
        BY <2>1, <3>2
      <3> QED
        BY <2>1, <3>1, <3>3, <3>4
    <2> QED
      BY <2>2, <2>3, <2>4, <2>5, <2>6, FinalKeeps
  <1>3. ASSUME NEW e \in Executors, Unreadable(e) \/ Kill(e) PROVE Final'
    <2>1. UNCHANGED <<account, manifests, asked, log, overlapped>> /\ Left(e)
      BY <1>3 DEF Unreadable, Kill, Left
    <2>2. Tripped' = Tripped /\ Denied' = Denied
      BY <2>1, TellsTheSame DEF Tripped, Denied
    <2>3. \A f \in Executors : pc'[f] # "idle" => pc[f] = pc'[f] /\ exec'[f] = exec[f]
      BY <2>1 DEF Left, Typed, TypeOK
    <2>4. Busy' \subseteq Busy /\ Started' = Started
      BY <2>1, <2>3 DEF Busy, Started
    <2>5. ~overlapped' => \A f \in Busy' : \A r \in Started' : r <= exec'[f].run
      BY <2>1, <2>3, <2>4 DEF Final, Busy
    <2> QED
      BY <2>1, <2>2, <2>3, <2>5, FinalKeeps
  <1>4. ASSUME NEW e \in Executors, Execute(e) PROVE Final'
    BY <1>2, <1>3, <1>4, ExecuteCases, FinalLearnt, FinalWritten, FinalClose
  <1> QED
    BY <1>1, <1>4 DEF Next

-----------------------------------------------------------------------------
(* Rows, counts and status *)

LEMMA LogType ==
    ASSUME Typed
    PROVE  /\ log \in Seq([type : EventTypes, run : Nat]) /\ Len(log) \in Nat
           /\ DOMAIN log = 1..Len(log)
           /\ \A i \in 1..Len(log) : log[i].type \in EventTypes /\ log[i].run \in Nat
  <1> DEFINE Events == [type : EventTypes, run : Nat]
  <1>1. log \in Seq(Events)
    BY DEF Typed, TypeOK
  <1>2. \A entry \in Events : entry.type \in EventTypes /\ entry.run \in Nat
    OBVIOUS
  <1> HIDE DEF Events
  <1>3. Len(log) \in Nat /\ DOMAIN log = 1..Len(log) /\ \A i \in 1..Len(log) : log[i] \in Events
    BY <1>1
  <1>4. log \in Seq([type : EventTypes, run : Nat])
    BY <1>1 DEF Events
  <1> QED
    BY <1>2, <1>3, <1>4

\* An event that has no part in the life of the contract.
LEMMA StatusKept ==
    ASSUME Typed, artifacts' = artifacts, NEW entry \in [type : EventTypes, run : Nat],
           log' = log \/ log' = Append(log, entry),
           log' = Append(log, entry) =>
              entry.type # "agent.contract.created" /\ entry.run \notin artifacts
    PROVE  RebuiltStatus' = RebuiltStatus
  <1>1. CASE log' = log
    BY <1>1 DEF RebuiltStatus, Lifecycle
  <1>2. CASE log' = Append(log, entry)
    <2>1. /\ Len(log) \in Nat /\ DOMAIN log = 1..Len(log)
          /\ DOMAIN log' = 1..(Len(log) + 1)
          /\ \A i \in 1..Len(log) : log'[i] = log[i]
          /\ log'[Len(log) + 1] = entry
      BY <1>2, LogType
    <2>2. Lifecycle' = Lifecycle
      <3>1. Len(log) + 1 \notin Lifecycle'
        BY <1>2, <2>1 DEF Lifecycle
      <3>2. \A i \in 1..Len(log) : i \in Lifecycle' <=> i \in Lifecycle
        BY <2>1 DEF Lifecycle
      <3>3. Lifecycle \subseteq 1..Len(log) /\ Lifecycle' \subseteq 1..(Len(log) + 1)
        BY <2>1 DEF Lifecycle
      <3>4. 1..(Len(log) + 1) = 1..Len(log) \cup {Len(log) + 1}
        BY <2>1
      <3> QED
        BY <3>1, <3>2, <3>3, <3>4
    <2>3. \A i \in Lifecycle : log'[i] = log[i]
      BY <2>1 DEF Lifecycle
    <2> QED
      BY <2>2, <2>3 DEF RebuiltStatus
  <1> QED
    BY <1>1, <1>2

LEMMA GreatestIs ==
    ASSUME NEW n \in Nat, NEW L, L \subseteq 1..n, n \in L
    PROVE  {j \in L : \A k \in L : k <= j} = {n}
  <1>1. \A k \in L : k \in Nat /\ k <= n
    OBVIOUS
  <1>2. \A j \in L : (\A k \in L : k <= j) <=> j = n
    BY <1>1
  <1> QED
    BY <1>2

\* The last event of the ledger decides.
LEMMA LastDecides ==
    ASSUME Typed, NEW type, NEW run, LastIs(type, run),
           \/ type = "agent.contract.created"
           \/ type \in {"agent.child.completed", "circuit.opened"} /\ run \in artifacts
    PROVE  RebuiltStatus = {StatusAfter(type)}
  <1>1. /\ Len(log) \in Nat /\ DOMAIN log = 1..Len(log) /\ Len(log) # 0
        /\ log[Len(log)].type = type /\ log[Len(log)].run = run
    BY LogType DEF LastIs, Entry
  <1>2. Len(log) \in Lifecycle /\ Lifecycle \subseteq 1..Len(log)
    BY <1>1 DEF Lifecycle
  <1>3. {j \in Lifecycle : \A k \in Lifecycle : k <= j} = {Len(log)}
    BY <1>1, <1>2, GreatestIs
  <1> QED
    BY <1>1, <1>3 DEF RebuiltStatus

LEMMA ProjectedInit == Init => Projected
  <1> SUFFICES ASSUME Init PROVE Projected
    OBVIOUS
  <1>1. /\ Completed = {} /\ Denied = {} /\ Tripped = {} /\ Busy = {}
        /\ \A e \in Executors : pc[e] = "idle"
        /\ results = {} /\ breakers = {} /\ creator = "idle"
    BY DEF Init, Completed, Denied, Tripped, Told, Busy
  <1>2. RowsProjected
    BY <1>1 DEF RowsProjected, RebuiltResults, RebuiltBreakers
  <1>3. CountsProjected
    <2>1. account.denials = 0 /\ score["success"] = 0 /\ score["policy_denial"] = 0
      BY DEF Init, FreshAccount, NoScore, Outcomes
    <2> QED
      BY <1>1, <2>1, FS_EmptySet DEF CountsProjected
  <1>4. StatusProjected
    BY <1>1 DEF Init, StatusProjected, RebuiltStatus, Lifecycle
  <1> QED
    BY <1>2, <1>3, <1>4 DEF Projected

\* An undisturbed step leaves only its own execution at work.
LEMMA CalmAlone ==
    ASSUME Typed, Numbered, NEW e \in Busy, ~overlapped
    PROVE  /\ e \in Executors /\ Busy = {e} /\ creator = "idle"
           /\ \A f \in Executors : f # e => pc[f] = "idle"
  BY DEF Numbered, Busy, Typed, TypeOK

\* The rows.

LEMMA RowsWritten ==
    ASSUME Typed, Numbered, Traced, ~overlapped, RowsProjected,
           NEW e \in Executors, NEW s, Written(e, s)
    PROVE  RowsProjected'
  <1>1. /\ Busy' = Busy /\ e \in Busy
    BY DidMore
  <1>2. exec'[e].run = exec[e].run
    BY DEF Written, Saved
  <1>3. ASSUME NEW r \in Runs, r # exec[e].run
        PROVE  /\ r \in results' <=> r \in results
               /\ r \in breakers' <=> r \in breakers
               /\ r \in RebuiltResults' <=> r \in RebuiltResults
               /\ r \in RebuiltBreakers' <=> r \in RebuiltBreakers
    BY <1>3, WrittenAdds DEF RebuiltResults, RebuiltBreakers
  <1>4. Busy = {e}
    BY <1>1, CalmAlone
  <1> QED
    BY <1>1, <1>2, <1>3, <1>4 DEF RowsProjected

LEMMA RowsLeft ==
    ASSUME Typed, Numbered, Traced, ~overlapped, RowsProjected,
           NEW e \in Executors, e \in Busy, Saving(e, "close") \/ pc[e] = "reading",
           UNCHANGED <<results, breakers, artifacts, log>>
    PROVE  RowsProjected'
  <1> DEFINE run == exec[e].run
  <1>1. /\ run \in Completed <=> Did(e, "complete")
        /\ run \in Tripped <=> Did(e, "trip")
        /\ run \in artifacts <=> Did(e, "artifact")
        /\ run \in results <=> Did(e, "result")
        /\ run \in breakers <=> Did(e, "breaker")
    BY DEF Traced, OwnTraces, OwnRows
  <1>2. /\ run \in results <=> run \in RebuiltResults
        /\ run \in breakers <=> run \in RebuiltBreakers
    <2>1. CASE pc[e] = "reading"
      BY <1>1, <2>1 DEF Did, RebuiltResults, RebuiltBreakers
    <2>2. CASE Saving(e, "close")
      <3>1. /\ Did(e, "complete") /\ Did(e, "result") <=> exec[e].how = "completed"
            /\ (Did(e, "result") <=> exec[e].how = "completed")
            /\ (Did(e, "complete") <=> exec[e].how = "completed")
            /\ (Did(e, "trip") <=> exec[e].how \notin {"completed", "denied"})
            /\ (Did(e, "breaker") <=> exec[e].how \notin {"completed", "denied"})
            /\ Did(e, "artifact") <=> exec[e].how # "denied"
        BY <2>2, DidInTheEnd
      <3> HIDE DEF run
      <3> QED
        BY <1>1, <3>1 DEF RebuiltResults, RebuiltBreakers
    <2> QED
      BY <2>1, <2>2
  <1>3. RebuiltResults' = RebuiltResults /\ RebuiltBreakers' = RebuiltBreakers
    BY DEF RebuiltResults, RebuiltBreakers, Completed, Tripped, Told
  <1>4. \A r \in Runs : /\ r \in results <=> r \in RebuiltResults
                        /\ r \in breakers <=> r \in RebuiltBreakers
    <2>1. Busy = {e}
      BY CalmAlone
    <2> QED
      BY <1>2, <2>1 DEF RowsProjected
  <1> QED
    BY <1>3, <1>4 DEF RowsProjected
\* The counts.

CountsOf(e) ==
    /\ account.denials = Cardinality(Counted(e, "account", Denied))
    /\ ~Did(e, "account") =>
          exec[e].account.denials = account.denials + One(exec[e].how \in Denying)
    /\ score["success"] = Cardinality(Counted(e, "score", Completed))
    /\ score["policy_denial"] = Cardinality(Counted(e, "score", Denied))
    /\ ~Did(e, "score") => exec[e].score = score
    /\ exec[e].outcome = OutcomeOf(exec[e].how)

\* A run is counted once it is added.
LEMMA CountedAll ==
    ASSUME Typed, Numbered, NEW T, T \subseteq Started, NEW run
    PROVE  /\ IsFiniteSet(T) /\ Cardinality(T) \in Nat /\ Cardinality(T \ {run}) \in Nat
           /\ Cardinality(T) = Cardinality(T \ {run}) + One(run \in T)
  <1>1. T \subseteq Runs /\ (T \ {run}) \subseteq Runs
    BY DEF Started
  <1>2. /\ IsFiniteSet(T) /\ Cardinality(T) \in Nat
        /\ IsFiniteSet(T \ {run}) /\ Cardinality(T \ {run}) \in Nat
    BY <1>1, StartedFinite
  <1>3. Cardinality((T \ {run}) \cup {run}) = Cardinality(T \ {run}) + 1
    BY <1>2, FS_AddElement
  <1>4. CASE run \in T
    <2>1. (T \ {run}) \cup {run} = T
      BY <1>4
    <2> QED
      BY <1>2, <1>3, <1>4, <2>1 DEF One
  <1>5. CASE run \notin T
    <2>1. T \ {run} = T
      BY <1>5
    <2>2. One(run \in T) = 0 /\ Cardinality(T \ {run}) = Cardinality(T)
      BY <1>5, <2>1 DEF One
    <2> QED
      BY <1>2, <2>2
  <1> QED
    BY <1>4, <1>5

LEMMA CountsLearnt ==
    ASSUME Typed, Typed', Numbered, Traced, ~overlapped, CountsProjected,
           NEW e \in Executors, Learnt(e), Stopped(e) \/ Reserved(e) \/ Settled(e)
    PROVE  CountsProjected'
  <1>1. /\ UNCHANGED <<account, score, log>>
        /\ e \in Busy /\ pc[e] # "saving"
        /\ exec'[e].run = exec[e].run /\ exec'[e].saved = 0
    BY DEF Learnt, Stopped, Reserved, Settled, rows, Busy
  <1>2. Denied' = Denied /\ Completed' = Completed
    BY <1>1, TellsTheSame DEF Denied, Completed
  <1>3. \A f \in Executors : f # e => pc[f] = "idle" /\ pc'[f] = "idle"
    BY <1>1, CalmAlone DEF Learnt, Typed, TypeOK
  <1>4. /\ account.denials = Cardinality(Denied)
        /\ score["success"] = Cardinality(Completed)
        /\ score["policy_denial"] = Cardinality(Denied)
    BY <1>1, <1>3 DEF CountsProjected
  <1>5. ASSUME pc'[e] = "saving" PROVE CountsOf(e)'
    <2>1. \A s : ~Did(e, s)'
      BY <1>1 DEF Did
    <2>2. Counted(e, "account", Denied)' = Denied /\ Counted(e, "score", Completed)' = Completed
          /\ Counted(e, "score", Denied)' = Denied
      <3>1. exec[e].run \notin Denied /\ exec[e].run \notin Completed
        BY <1>1 DEF Traced, OwnTraces, Did
      <3> QED
        BY <1>1, <1>2, <2>1, <3>1 DEF Counted
    <2>3. account.denials \in Nat
      BY DEF Typed, TypeOK, Accounts
    <2>4. /\ exec'[e].account.denials = account.denials + One(exec'[e].how \in Denying)
          /\ exec'[e].score = score
          /\ exec'[e].outcome = OutcomeOf(exec'[e].how)
      <3>1. CASE Stopped(e)
        BY <2>3, <3>1 DEF Stopped, One, Denying
      <3>2. CASE Settled(e)
        <4>1. exec[e].account.denials = account.denials /\ exec[e].score = score
          BY <3>2 DEF Settled, CountsProjected
        <4> QED
          BY <3>2, <4>1 DEF Settled
      <3> QED
        BY <1>5, <3>1, <3>2 DEF Reserved
    <2> QED
      BY <1>1, <1>4, <2>1, <2>2, <2>4 DEF CountsOf
  <1>6. pc'[e] = "reading" => exec'[e].account.denials = account.denials /\ exec'[e].score = score
    BY DEF Stopped, Reserved, Settled
  <1> QED
    BY <1>1, <1>2, <1>3, <1>4, <1>5, <1>6 DEF CountsProjected, CountsOf

LEMMA CountsWritten ==
    ASSUME Typed, Typed', Numbered, Traced, ~overlapped, CountsProjected,
           NEW e \in Executors, NEW s, Written(e, s)
    PROVE  CountsProjected'
  <1> DEFINE run == exec[e].run
             how == exec[e].how
  <1>1. /\ e \in Busy /\ pc[e] = "saving" /\ pc' = pc /\ NextSave(e) = s
        /\ \A t : Did(e, t)' <=> Did(e, t) \/ t = s
    BY DidMore
  <1>2. /\ Completed' = IF s = "complete" THEN Completed \cup {run} ELSE Completed
        /\ Denied' = IF s = "deny" THEN Denied \cup {run} ELSE Denied
    BY WrittenTold
  <1>3. /\ exec'[e].run = run /\ exec'[e].how = how
        /\ exec'[e].account = exec[e].account /\ exec'[e].score = exec[e].score
        /\ exec'[e].outcome = exec[e].outcome
        /\ account' = IF s = "account" THEN exec[e].account ELSE account
        /\ score' = IF s = "score" THEN [exec[e].score EXCEPT ![exec[e].outcome] = @ + 1]
                    ELSE score
    BY DEF Written, Saved
  <1>4. /\ account.denials = Cardinality(Counted(e, "account", Denied))
        /\ ~Did(e, "account") => exec[e].account.denials = account.denials + One(how \in Denying)
        /\ score["success"] = Cardinality(Counted(e, "score", Completed))
        /\ score["policy_denial"] = Cardinality(Counted(e, "score", Denied))
        /\ ~Did(e, "score") => exec[e].score = score
        /\ exec[e].outcome = OutcomeOf(how)
    BY <1>1 DEF CountsProjected
  <1>5. Completed \subseteq Started /\ Denied \subseteq Started
    BY DEF Numbered
  <1>6. CASE s = "account"
    <2>1. ~Did(e, "account") /\ (Did(e, "deny") <=> how \in Denying)
      BY <1>1, <1>6, DidCount
    <2>2. run \in Denied <=> how \in Denying
      BY <1>1, <2>1 DEF Traced, OwnTraces
    <2>3. Counted(e, "account", Denied) = Denied \ {run} /\ Counted(e, "account", Denied)' = Denied
      BY <1>1, <1>2, <1>6, <2>1 DEF Counted
    <2>4. One(run \in Denied) = One(how \in Denying)
      BY <2>2 DEF One
    <2>5. account'.denials = Cardinality(Denied)
      <3> HIDE DEF run, how
      <3> QED
        BY <1>3, <1>4, <1>5, <1>6, <2>1, <2>3, <2>4, CountedAll
    <2>6. /\ Counted(e, "score", Completed)' = Counted(e, "score", Completed)
          /\ Counted(e, "score", Denied)' = Counted(e, "score", Denied)
          /\ (Did(e, "score")' <=> Did(e, "score")) /\ Did(e, "account")'
      BY <1>1, <1>2, <1>3, <1>6 DEF Counted
    <2>7. CountsOf(e)'
      BY <1>3, <1>4, <1>6, <2>3, <2>5, <2>6 DEF CountsOf
    <2> QED
      BY <1>1, <2>7, CalmAlone DEF CountsProjected, CountsOf
  <1>7. CASE s = "score"
    <2>1. /\ ~Did(e, "score") /\ how # "broken" /\ how \in Hows
          /\ (Did(e, "complete") <=> how = "completed")
          /\ (Did(e, "deny") <=> how \in Denying)
      BY <1>1, <1>7, DidCount DEF Typed, Placed, Underway
    <2>2. (run \in Denied <=> how \in Denying) /\ (run \in Completed <=> how = "completed")
      BY <1>1, <2>1 DEF Traced, OwnTraces
    <2>3. /\ Counted(e, "score", Denied) = Denied \ {run} /\ Counted(e, "score", Denied)' = Denied
          /\ Counted(e, "score", Completed) = Completed \ {run}
          /\ Counted(e, "score", Completed)' = Completed
      BY <1>1, <1>2, <1>7, <2>1 DEF Counted
    <2>4. score' = [score EXCEPT ![OutcomeOf(how)] = @ + 1] /\ score \in [Outcomes -> Nat]
      BY <1>3, <1>4, <1>7, <2>1 DEF Typed, TypeOK, Scores
    <2>5. /\ OutcomeOf(how) = "success" <=> how = "completed"
          /\ OutcomeOf(how) = "policy_denial" <=> how \in Denying
          /\ OutcomeOf(how) \in Outcomes
      BY <2>1 DEF OutcomeOf, Outcomes, Denying, Hows
    <2>6. /\ score'["success"] = score["success"] + One(run \in Completed)
          /\ score'["policy_denial"] = score["policy_denial"] + One(run \in Denied)
      <3> DEFINE o == OutcomeOf(how)
      <3>1. /\ score' = [score EXCEPT ![o] = @ + 1] /\ o \in Outcomes
            /\ (o = "success" <=> run \in Completed)
            /\ (o = "policy_denial" <=> run \in Denied)
        BY <2>2, <2>4, <2>5
      <3> HIDE DEF o, run, how
      <3> QED
        BY <2>4, <3>1 DEF One, Outcomes
    <2>7. score'["success"] = Cardinality(Completed) /\ score'["policy_denial"] = Cardinality(Denied)
      <3> HIDE DEF run, how
      <3> QED
        BY <1>4, <1>5, <2>3, <2>6, CountedAll
    <2>8. /\ Counted(e, "account", Denied)' = Counted(e, "account", Denied)
          /\ (Did(e, "account")' <=> Did(e, "account")) /\ Did(e, "score")'
      BY <1>1, <1>2, <1>3, <1>7 DEF Counted
    <2>9. CountsOf(e)'
      BY <1>3, <1>4, <1>7, <2>3, <2>7, <2>8 DEF CountsOf
    <2> QED
      BY <1>1, <2>9, CalmAlone DEF CountsProjected, CountsOf
  <1>8. CASE s \notin {"account", "score"}
    <2>1. s \in {"complete", "deny"} => ~Did(e, "account") /\ ~Did(e, "score")
      BY <1>1, DidCount
    <2>2. /\ Counted(e, "account", Denied)' = Counted(e, "account", Denied)
          /\ Counted(e, "score", Denied)' = Counted(e, "score", Denied)
          /\ Counted(e, "score", Completed)' = Counted(e, "score", Completed)
          /\ (Did(e, "account")' <=> Did(e, "account")) /\ (Did(e, "score")' <=> Did(e, "score"))
      BY <1>1, <1>2, <1>3, <1>8, <2>1 DEF Counted
    <2>3. CountsOf(e)'
      BY <1>3, <1>4, <1>8, <2>2 DEF CountsOf
    <2> QED
      BY <1>1, <2>3, CalmAlone DEF CountsProjected, CountsOf
  <1> QED
    BY <1>6, <1>7, <1>8

LEMMA CountsLeft ==
    ASSUME Typed, Typed', Numbered, Traced, ~overlapped, CountsProjected,
           NEW e \in Executors, e \in Busy, Saving(e, "close") \/ pc[e] = "reading",
           Left(e), UNCHANGED <<account, score, log>>
    PROVE  CountsProjected'
  <1> DEFINE run == exec[e].run
             how == exec[e].how
  <1>1. \A f \in Executors : pc'[f] = "idle"
    BY CalmAlone DEF Left, Typed, TypeOK
  <1>2. Denied' = Denied /\ Completed' = Completed
    BY TellsTheSame DEF Denied, Completed
  <1>3. /\ account.denials = Cardinality(Denied)
        /\ score["success"] = Cardinality(Completed)
        /\ score["policy_denial"] = Cardinality(Denied)
    <2>1. CASE pc[e] = "reading"
      BY <2>1, CalmAlone DEF CountsProjected
    <2>2. CASE Saving(e, "close")
      <3>1. /\ Did(e, "account") <=> how # "violation"
            /\ Did(e, "score") <=> how # "broken"
            /\ Did(e, "complete") <=> how = "completed"
            /\ Did(e, "deny") <=> how \in Denying
        BY <2>2, DidInTheEnd
      <3>2. (run \in Denied <=> how \in Denying) /\ (run \in Completed <=> how = "completed")
        BY <3>1 DEF Traced, OwnTraces
      <3> HIDE DEF how
      <3>3. /\ Counted(e, "account", Denied) = Denied
            /\ Counted(e, "score", Denied) = Denied
            /\ Counted(e, "score", Completed) = Completed
        BY <3>1, <3>2 DEF Counted, Denying
      <3>4. pc[e] = "saving"
        BY <2>2 DEF Saving
      <3> QED
        BY <3>3, <3>4 DEF CountsProjected
    <2> QED
      BY <2>1, <2>2
  <1> QED
    BY <1>1, <1>2, <1>3 DEF CountsProjected
\* The status.

LEMMA StatusLearnt ==
    ASSUME Typed, Numbered, Traced, ~overlapped, StatusProjected,
           NEW e \in Executors, Learnt(e), Stopped(e) \/ Reserved(e) \/ Settled(e)
    PROVE  StatusProjected'
  <1>1. /\ UNCHANGED <<contract, artifacts, log, creator>>
        /\ e \in Busy /\ Busy' = Busy
        /\ exec'[e].run = exec[e].run /\ exec'[e].contract = exec[e].contract
        /\ exec'[e].saved = 0 /\ pc[e] # "saving"
    BY DEF Learnt, Stopped, Reserved, Settled, rows, Busy, Typed, TypeOK
  <1>2. Busy = {e} /\ creator = "idle"
    BY <1>1, CalmAlone
  <1>3. \A s : ~Did(e, s) /\ ~Did(e, s)'
    BY <1>1 DEF Did
  <1>4. RebuiltStatus' = RebuiltStatus
    BY <1>1 DEF RebuiltStatus, Lifecycle
  <1>5. RebuiltStatus \subseteq {contract.status} /\ exec[e].contract = contract
    BY <1>2, <1>3 DEF StatusProjected, SavedContract
  <1> QED
    BY <1>1, <1>2, <1>3, <1>4, <1>5 DEF StatusProjected, SavedContract

LEMMA StatusWritten ==
    ASSUME Typed, Numbered, Traced, ~overlapped, StatusProjected,
           NEW e \in Executors, NEW s, Written(e, s)
    PROVE  StatusProjected'
  <1> DEFINE run == exec[e].run
             new == Entry(Tells(s), run)
  <1>1. /\ Busy' = Busy /\ e \in Busy /\ pc[e] = "saving" /\ pc' = pc /\ NextSave(e) = s
        /\ \A t : Did(e, t)' <=> Did(e, t) \/ t = s
    BY DidMore
  <1>2. /\ exec'[e].run = run /\ exec'[e].contract = exec[e].contract
        /\ creator' = creator /\ exec[e].contract \in Contracts
        /\ artifacts' = IF s = "artifact" THEN artifacts \cup {run} ELSE artifacts
        /\ s \in {"complete", "deny", "trip"} => log' = Append(log, new)
        /\ s \notin {"complete", "deny", "trip"} => log' = log
        /\ contract' = IF s = "stop" THEN [exec[e].contract EXCEPT !.status = "stopped"]
                       ELSE IF s = "finish" THEN [exec[e].contract EXCEPT !.status = "completed"]
                       ELSE contract
    BY DEF Written, Saved, Typed, TypeOK, Execs
  <1>3. Busy = {e} /\ creator = "idle"
    BY <1>1, CalmAlone
  <1>4. /\ ~SavedContract(e) => exec[e].contract = contract
        /\ Did(e, "complete") => LastIs("agent.child.completed", run)
        /\ Did(e, "trip") => LastIs("circuit.opened", run)
        /\ (Did(e, "artifact") => SavedContract(e)) => RebuiltStatus \subseteq {contract.status}
    BY <1>1, <1>3 DEF StatusProjected
  <1>5. /\ run \in artifacts <=> Did(e, "artifact")
        /\ run \in Nat
    BY <1>1 DEF Traced, OwnTraces, Typed, TypeOK, Execs
  <1>6. SavedContract(e)' <=> SavedContract(e) \/ s \in {"finish", "stop"}
    BY <1>1 DEF SavedContract
  <1>7. ~SavedContract(e)' => exec'[e].contract = contract'
    BY <1>2, <1>4, <1>6
  <1>8. /\ Did(e, "complete")' => LastIs("agent.child.completed", run)'
        /\ Did(e, "trip")' => LastIs("circuit.opened", run)'
    <2>1. CASE s \in {"complete", "deny", "trip"}
      <3>1. log' # <<>> /\ log'[Len(log')] = new
        <4> HIDE DEF new
        <4> QED
          BY <1>2, <2>1, LogType
      <3>2. /\ s \in {"complete", "deny"} => ~Did(e, "trip")
            /\ s \in {"deny", "trip"} => ~Did(e, "complete")
        BY <1>1, DidInOrder
      <3>3. /\ s = "complete" => new = Entry("agent.child.completed", run)
            /\ s = "trip" => new = Entry("circuit.opened", run)
        BY DEF Tells
      <3> HIDE DEF new
      <3>4. /\ s = "complete" => LastIs("agent.child.completed", run)'
            /\ s = "trip" => LastIs("circuit.opened", run)'
        BY <1>2, <3>1, <3>3 DEF LastIs
      <3> QED
        BY <1>1, <2>1, <3>2, <3>4
    <2>2. CASE s \notin {"complete", "deny", "trip"}
      BY <1>1, <1>2, <1>4, <2>2 DEF LastIs
    <2> QED
      BY <2>1, <2>2
  <1>9. (Did(e, "artifact")' => SavedContract(e)') => RebuiltStatus' \subseteq {contract'.status}
    <2>1. CASE s \in {"complete", "deny", "trip"}
      <3>1. ~Did(e, "artifact")
        BY <1>1, <2>1, DidInOrder
      <3>2. new \in [type : EventTypes, run : Nat] /\ new.run = run
            /\ new.type # "agent.contract.created"
        BY <1>5, <2>1 DEF Entry, Tells, EventTypes
      <3>3. log' = Append(log, new) /\ artifacts' = artifacts /\ contract' = contract
        BY <1>2, <2>1
      <3> HIDE DEF new
      <3>4. RebuiltStatus' = RebuiltStatus
        BY <1>5, <3>1, <3>2, <3>3, StatusKept
      <3> QED
        BY <1>4, <3>1, <3>3, <3>4
    <2>2. CASE s = "artifact"
      <3>1. ~SavedContract(e)
        BY <1>1, <2>2, DidCount DEF SavedContract
      <3> QED
        BY <1>1, <1>6, <2>2, <3>1
    <2>3. CASE s \in {"finish", "stop"}
      <3>1. log' = log /\ artifacts' = artifacts
        BY <1>2, <2>3
      <3>2. RebuiltStatus' = RebuiltStatus
        BY <3>1 DEF RebuiltStatus, Lifecycle
      <3>3. CASE s = "finish"
        <4>1. Did(e, "complete") /\ run \in artifacts
          BY <1>1, <1>5, <3>3, DidInOrder
        <4>2. RebuiltStatus = {StatusAfter("agent.child.completed")}
          BY <1>4, <4>1, LastDecides
        <4>3. contract'.status = "completed"
          BY <1>2, <3>3 DEF Contracts
        <4> QED
          BY <3>2, <4>2, <4>3 DEF StatusAfter
      <3>4. CASE s = "stop"
        <4>1. Did(e, "trip") /\ run \in artifacts
          BY <1>1, <1>5, <3>4, DidInOrder
        <4>2. RebuiltStatus = {StatusAfter("circuit.opened")}
          BY <1>4, <4>1, LastDecides
        <4>3. contract'.status = "stopped"
          BY <1>2, <3>4 DEF Contracts
        <4> QED
          BY <3>2, <4>2, <4>3 DEF StatusAfter
      <3> QED
        BY <2>3, <3>3, <3>4
    <2>4. CASE s \notin {"complete", "deny", "trip", "artifact", "finish", "stop"}
      <3>1. log' = log /\ artifacts' = artifacts /\ contract' = contract
        BY <1>2, <2>4
      <3>2. RebuiltStatus' = RebuiltStatus
        BY <3>1 DEF RebuiltStatus, Lifecycle
      <3> QED
        BY <1>1, <1>4, <1>6, <2>4, <3>1, <3>2
    <2> QED
      BY <2>1, <2>2, <2>3, <2>4
  <1>10. Busy' = {e} /\ creator' = "idle" /\ exec'[e].run = run
    BY <1>1, <1>2, <1>3
  <1> QED
    BY <1>7, <1>8, <1>9, <1>10 DEF StatusProjected

LEMMA StatusLeft ==
    ASSUME Typed, Numbered, Traced, ~overlapped, StatusProjected,
           NEW e \in Executors, e \in Busy, Saving(e, "close") \/ pc[e] = "reading",
           Left(e), UNCHANGED <<contract, artifacts, log, creator>>
    PROVE  StatusProjected'
  <1>1. Busy = {e} /\ creator = "idle" /\ Busy' = {}
    BY CalmAlone DEF Left, Busy, Typed, TypeOK
  <1>2. Did(e, "artifact") => SavedContract(e)
    <2>1. CASE pc[e] = "reading"
      BY <2>1 DEF Did
    <2>2. CASE Saving(e, "close")
      <3>1. /\ Did(e, "finish") <=> exec[e].how = "completed"
            /\ Did(e, "stop") <=> exec[e].how \notin {"completed", "denied"}
            /\ Did(e, "artifact") <=> exec[e].how # "denied"
        BY <2>2, DidInTheEnd
      <3> QED
        BY <3>1 DEF SavedContract
    <2> QED
      BY <2>1, <2>2
  <1>3. RebuiltStatus \subseteq {contract.status} /\ RebuiltStatus' = RebuiltStatus
    BY <1>1, <1>2 DEF StatusProjected, RebuiltStatus, Lifecycle
  <1> QED
    BY <1>1, <1>3 DEF StatusProjected

LEMMA ProjectedStep ==
    Typed /\ Typed' /\ Numbered /\ Traced /\ Projected /\ [Next]_vars => Projected'
  <1> SUFFICES ASSUME Typed, Typed', Numbered, Traced, Projected, [Next]_vars, Calm'
               PROVE  RowsProjected' /\ CountsProjected' /\ StatusProjected'
    BY DEF Projected
  <1> USE DEF rows, history
  <1>n. killed \in Nat /\ killed' = 0
    BY DEF Typed, TypeOK, Calm
  <1>t. log' = log => Completed' = Completed /\ Denied' = Denied /\ Tripped' = Tripped
    BY TellsTheSame DEF Completed, Denied, Tripped
  <1>s. ASSUME UNCHANGED <<results, breakers, artifacts, account, score, pc, exec>>,
               Completed' = Completed, Denied' = Denied, Tripped' = Tripped,
               RowsProjected, CountsProjected
        PROVE  RowsProjected' /\ CountsProjected'
    <2>1. /\ RebuiltResults' = RebuiltResults /\ RebuiltBreakers' = RebuiltBreakers
          /\ Busy' = Busy
      BY <1>s DEF RebuiltResults, RebuiltBreakers, Busy
    <2>2. RowsProjected'
      BY <1>s, <2>1 DEF RowsProjected
    <2>3. CountsProjected'
      BY <1>s DEF CountsProjected, Counted, Did
    <2> QED
      BY <2>2, <2>3
  <1>1. CASE Register
    <2>1. ~overlapped /\ Busy = {} /\ Busy' = {}
      BY <1>1 DEF Register, Calm, Busy
    <2>2. Calm
      BY <1>1, <1>n, <2>1 DEF Register, Calm
    <2>3. contract'.status = "draft" /\ creator' = "registered"
      BY <1>1 DEF Register
    <2>4. StatusProjected'
      BY <2>1, <2>3 DEF StatusProjected
    <2> QED
      BY <1>1, <1>t, <1>s, <2>2, <2>4 DEF Register, Projected
  <1>2. CASE AnnounceContract
    <2>1. /\ Calm /\ creator = "registered" /\ creator' = "idle" /\ contract' = contract
          /\ Busy = {} /\ Busy' = {}
      BY <1>2 DEF AnnounceContract, Calm, Numbered, Busy
    <2>2. contract.status = "draft"
      BY <2>1 DEF Projected, StatusProjected
    <2> DEFINE new == Entry("agent.contract.created", 0)
    <2>3. /\ DOMAIN log' = 1..(Len(log) + 1) /\ Len(log) \in Nat
          /\ log'[Len(log) + 1].type = "agent.contract.created"
      <3>1. log' = Append(log, new) /\ new.type = "agent.contract.created"
        BY <1>2 DEF AnnounceContract, Entry
      <3> HIDE DEF new
      <3> QED
        BY <3>1, LogType
    <2>4. RebuiltStatus' = {StatusAfter("agent.contract.created")}
      <3>1. Len(log) + 1 \in Lifecycle' /\ Lifecycle' \subseteq 1..(Len(log) + 1)
        BY <2>3 DEF Lifecycle
      <3> DEFINE L == Lifecycle'
                 n == Len(log) + 1
      <3>2. n \in Nat /\ L \subseteq 1..n /\ n \in L
        BY <2>3, <3>1
      <3> HIDE DEF L, n
      <3>3. {j \in L : \A k \in L : k <= j} = {n}
        BY <3>2, GreatestIs
      <3> QED
        BY <2>3, <3>3 DEF RebuiltStatus, L, n
    <2>5. StatusProjected'
      BY <2>1, <2>2, <2>4 DEF StatusProjected, StatusAfter
    <2> QED
      BY <1>2, <1>s, <2>1, <2>5, AnnouncedTold DEF AnnounceContract, Projected
  <1>3. CASE CreatorDies
    BY <1>3, <1>n DEF CreatorDies
  <1>4. ASSUME NEW e \in Executors, Begin(e)
        PROVE  RowsProjected' /\ CountsProjected' /\ StatusProjected'
    <2>1. /\ AtRest /\ Calm /\ Busy' = {e} /\ creator' = "idle"
          /\ UNCHANGED <<contract, account, score, results, breakers, artifacts, log>>
      BY <1>4, <1>n, NumberedBegin DEF Begin, Calm, AtRest
    <2>2. exec'[e].contract = contract
      BY <1>4, BeginFrame
    <2>3. pc'[e] = "started" /\ \A f \in Executors : f # e => pc'[f] = "idle"
      BY <1>4, <2>1, BeginFrame DEF AtRest, Busy, Typed, TypeOK
    <2>4. /\ RebuiltResults' = RebuiltResults /\ RebuiltBreakers' = RebuiltBreakers
          /\ RebuiltStatus' = RebuiltStatus
      BY <2>1, <1>t DEF RebuiltResults, RebuiltBreakers, RebuiltStatus, Lifecycle
    <2>5. RowsProjected'
      BY <2>1, <2>4 DEF Projected, RowsProjected, AtRest
    <2>6. CountsProjected'
      BY <1>t, <2>1, <2>3 DEF Projected, CountsProjected, AtRest, Busy
    <2>7. \A s : ~Did(e, s)'
      BY <2>3 DEF Did
    <2>8. StatusProjected'
      BY <2>1, <2>2, <2>4, <2>7 DEF Projected, StatusProjected, AtRest, SavedContract
    <2> QED
      BY <2>5, <2>6, <2>8
  <1>5. ASSUME NEW e \in Executors, Learnt(e), Stopped(e) \/ Reserved(e) \/ Settled(e)
        PROVE  RowsProjected' /\ CountsProjected' /\ StatusProjected'
    <2>1. Calm /\ RowsProjected /\ CountsProjected /\ StatusProjected
      BY <1>5 DEF Learnt, Calm, Projected
    <2>2. Busy' = Busy /\ \A f \in Busy : exec'[f].run = exec[f].run
      BY SMTT(30), <1>5 DEF Learnt, Stopped, Reserved, Settled, Busy, Typed, TypeOK
    <2>3. RowsProjected'
      BY <1>5, <1>t, <2>1, <2>2 DEF Learnt, RowsProjected, RebuiltResults, RebuiltBreakers
    <2> QED
      BY <1>5, <2>1, <2>3, CountsLearnt, StatusLearnt DEF Calm
  <1>6. ASSUME NEW e \in Executors, NEW s, Written(e, s)
        PROVE  RowsProjected' /\ CountsProjected' /\ StatusProjected'
    <2>1. Calm /\ RowsProjected /\ CountsProjected /\ StatusProjected
      BY <1>6 DEF Written, Calm, Projected
    <2> QED
      BY <1>6, <2>1, RowsWritten, CountsWritten, StatusWritten DEF Calm
  <1>7. ASSUME NEW e \in Executors, Close(e) \/ Unreadable(e)
        PROVE  RowsProjected' /\ CountsProjected' /\ StatusProjected'
    <2>1. /\ Saving(e, "close") \/ pc[e] = "reading"
          /\ Left(e) /\ UNCHANGED <<rows, log, creator, history>>
      BY <1>7 DEF Close, Saving, Unreadable, Left
    <2>2. Calm /\ RowsProjected /\ CountsProjected /\ StatusProjected
      BY <2>1 DEF Calm, Projected
    <2>3. e \in Busy
      BY <2>1 DEF Busy, Saving
    <2> QED
      BY <2>1, <2>2, <2>3, RowsLeft, CountsLeft, StatusLeft DEF Calm
  <1>8. ASSUME NEW e \in Executors, Kill(e) PROVE FALSE
    BY <1>8, <1>n DEF Kill
  <1>9. CASE UNCHANGED vars
    <2>1. Calm /\ RowsProjected /\ CountsProjected /\ StatusProjected
      BY <1>9 DEF vars, Calm, Projected
    <2>2. StatusProjected'
      BY <1>9, <2>1 DEF vars, StatusProjected, RebuiltStatus, Lifecycle, Busy, SavedContract,
         Did, LastIs
    <2> QED
      BY <1>9, <1>t, <1>s, <2>1, <2>2 DEF vars
  <1>10. ASSUME NEW e \in Executors, Execute(e)
         PROVE  RowsProjected' /\ CountsProjected' /\ StatusProjected'
    BY <1>4, <1>5, <1>6, <1>7, <1>8, <1>10, ExecuteCases
  <1> QED
    BY <1>1, <1>2, <1>3, <1>9, <1>10 DEF Next

-----------------------------------------------------------------------------
(* Theorems *)

\* What holds of the registries, the accounts and the executions of child agents at
\* every moment, for any number of them.
THEOREM AgentInvariant == Spec => []AgentInv
  <1>1. Init => AgentInv
    BY TypedInit, NumberedInit, TracedInit, AffordedInit, FinalInit, ProjectedInit DEF AgentInv
  <1>2. AgentInv /\ [Next]_vars => AgentInv'
    <2> SUFFICES ASSUME AgentInv, [Next]_vars PROVE AgentInv'
      OBVIOUS
    <2>1. Typed /\ Numbered /\ Traced /\ Afforded /\ Final /\ Projected /\ Copies
      BY DEF AgentInv, Traced
    <2>2. Typed'
      BY <2>1, TypedStep
    <2>3. Numbered'
      BY <2>1, NumberedStep
    <2> QED
      BY <2>1, <2>2, <2>3, TracedStep, AffordedStep, FinalStep, ProjectedStep DEF AgentInv
  <1> QED
    BY <1>1, <1>2, PTL DEF Spec

\* Whatever the budgets and however many commands overlap or die: the registry
\* files that runAgent writes back whole hold only rows whose event is in the
\* ledger, and a closed manifest has its event, its artifact and, without an
\* overlap, its row.
THEOREM RowsAlwaysRecorded == Spec => []RowsAreRecorded
  <1>1. AgentInv => RowsAreRecorded
    BY DEF AgentInv, Traced
  <1> QED
    BY <1>1, AgentInvariant, PTL

\* For every budget, commands that do not overlap have paid for every read of a
\* run that ended: what is left of the account and those reads are together no
\* more than the contract's budget of tool calls and of leases, although every
\* new contract replaces the one before and killed commands never pay.
THEOREM BudgetAlwaysKept == Spec => []WithinBudget
  <1>1. AgentInv => WithinBudget
    <2> SUFFICES ASSUME AgentInv, ~overlapped
                 PROVE  /\ Cardinality(Paid) <= ToolBudget
                        /\ account.tools <= ToolBudget - Cardinality(Paid)
                        /\ Cardinality(Leased) <= LeaseBudget
                        /\ account.leases <= LeaseBudget - Cardinality(Leased)
      <3>1. Read({"completed", "blocked"}) = Paid /\ Read({"completed"}) = Leased
        BY DEF Read, Paid, Leased, Closed
      <3> QED
        BY <3>1 DEF WithinBudget
    <2>1. /\ account.tools + Cardinality(Paid) <= ToolBudget
          /\ account.leases + Cardinality(Leased) <= LeaseBudget
      BY DEF AgentInv, Afforded
    <2> QED
      BY <2>1, BudgetTypes DEF AgentInv
  <1> QED
    BY <1>1, AgentInvariant, PTL

\* For any number of undisturbed commands, the rows, the score and the account
\* are what auditAgentRegistryRebuild derives from the ledger.
THEOREM ProjectionsAlwaysAgree == Spec => []ProjectionsAgree
  <1>1. AgentInv => ProjectionsAgree
    <2> SUFFICES ASSUME AgentInv, AtRest, Calm
                 PROVE  /\ RebuiltStatus \subseteq {contract.status}
                        /\ results = RebuiltResults /\ breakers = RebuiltBreakers
                        /\ account.denials = Cardinality(Denied)
                        /\ score["success"] = Cardinality(Completed)
                        /\ score["policy_denial"] = Cardinality(Denied)
      BY DEF ProjectionsAgree, Calm
    <2>1. Busy = {} /\ creator = "idle" /\ \A e \in Executors : pc[e] = "idle"
      BY DEF AtRest, Busy
    <2>2. RowsProjected /\ CountsProjected /\ StatusProjected
      BY DEF AgentInv, Projected
    <2>3. /\ results \subseteq Runs /\ breakers \subseteq Runs
          /\ RebuiltResults \subseteq Runs /\ RebuiltBreakers \subseteq Runs
      BY DEF AgentInv, Typed, TypeOK, RebuiltResults, RebuiltBreakers
    <2>4. results = RebuiltResults /\ breakers = RebuiltBreakers
      BY <2>1, <2>2, <2>3 DEF RowsProjected
    <2> QED
      BY <2>1, <2>2, <2>4 DEF CountsProjected, StatusProjected
  <1> QED
    BY <1>1, AgentInvariant, PTL

\* For every budget and any number of executions that do not overlap: none reads
\* after one that stopped on the account, whatever contracts are created, whatever
\* commands die and whatever is saved in between.
THEOREM StopsAlwaysHold == Spec => []StopsHold
  <1>1. AgentInv => StopsHold
    BY DEF AgentInv, Final, StopsHold
  <1> QED
    BY <1>1, AgentInvariant, PTL
=============================================================================
