--------------------------- MODULE MCRunManifest ---------------------------
(* Instances of RunManifest for TLC: clients of one run id that race. *)
EXTENDS RunManifest, TLC

Call1(mode, type) ==
    [mode |-> mode, outcomes |-> {[events |-> <<type>>, accepted |-> TRUE]}]

Running(creates, calls) == [creates |-> creates, calls |-> calls, final |-> "completed"]

\* A managed run of cli.ts: the event is appended, then the lock is taken.
Managed == <<Call1("traced", "governance")>>

\* A run that holds the lock across its appends, as the kernel runs do.
Held == <<Call1("locked", "run.started"), Call1("locked", "run.completed")>>

\* agent execute: the child read may be killed or fail half way.
Child == <<
    [mode |-> "child",
     outcomes |-> {[events |-> <<"tool.requested", "tool.result">>, accepted |-> TRUE]}],
    Call1("traced", "agent.child.closed")>>

AllCommands ==
    {Running(TRUE, Managed), Running(FALSE, Managed), Running(TRUE, Held), Running(TRUE, Child)}
Create == {Running(TRUE, Managed)}

ClientSymmetry == Permutations(Clients)

\* A client may be killed at any point.
Anywhere == Points \ Ended
Nowhere == {}
BothFaults == {"timeout", "serve"}
NoFaults == {}
=============================================================================
