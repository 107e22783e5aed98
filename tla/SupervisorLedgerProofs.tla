----------------------- MODULE SupervisorLedgerProofs -----------------------
(***************************************************************************)
(* Theorems about SupervisorLedger, for every set of processes, bound on   *)
(* the appends, set of crash points and set of faults, unless a theorem    *)
(* names a restriction; and about SharedLedger, the same file with its     *)
(* second author, for any number of writers.                               *)
(***************************************************************************)
EXTENDS SharedLedger, SequenceTheorems, TLAPS

-----------------------------------------------------------------------------
(* Building a ledger *)

\* The last event of a sequence of events, or none.
LEMMA LastIdType ==
    ASSUME NEW s \in Seq(Event) PROVE LastId(s) \in 0..MaxEvents
<1>1. CASE s = <<>>
  BY <1>1, SupervisorLedgerAssumption DEF LastId, SupervisorLedgerAssumption
<1>2. CASE s # <<>>
  <2>1. Len(s) \in 1..Len(s)
    BY <1>2, EmptySeq
  <2>2. s[Len(s)] \in Event
    BY <2>1, ElementOfSeq
  <2>3. QED BY <1>2, <2>2 DEF LastId, Event, EventIds
<1>3. QED BY <1>1, <1>2

\* Adding an event to a sequence of events gives a sequence of events.
LEMMA ExtendedType ==
    ASSUME NEW s \in Seq(Event), NEW e \in EventIds
    PROVE  Extended(s, e) \in Seq(Event)
<1>1. LastId(s) \in 0..MaxEvents
  BY LastIdType
<1>2. [id |-> e, parent |-> LastId(s)] \in Event
  BY <1>1 DEF Event
<1>3. QED BY <1>2 DEF Extended

\* Adding an event whose parent is the last event keeps the chain valid.
LEMMA ExtendedChain ==
    ASSUME NEW s \in Seq(Event), NEW e \in EventIds, ChainValidSeq(s)
    PROVE  ChainValidSeq(Extended(s, e))
<1> DEFINE t == Extended(s, e)
<1>1. /\ Len(t) = Len(s) + 1
      /\ \A i \in 1..Len(s) : t[i] = s[i]
      /\ t[Len(s) + 1] = [id |-> e, parent |-> LastId(s)]
      /\ DOMAIN t = 1..(Len(s) + 1)
      /\ DOMAIN s = 1..Len(s)
      /\ Len(s) \in Nat
  BY DEF Extended
<1>2. ASSUME NEW i \in DOMAIN t
      PROVE  t[i].parent = IF i = 1 THEN 0 ELSE t[i - 1].id
  <2>1. CASE i \in 1..Len(s)
    <3>1. s[i].parent = IF i = 1 THEN 0 ELSE s[i - 1].id
      BY <2>1, <1>1 DEF ChainValidSeq
    <3>2. i # 1 => i - 1 \in 1..Len(s)
      BY <2>1, <1>1
    <3>3. QED BY <3>1, <3>2, <2>1, <1>1
  <2>2. CASE i = Len(s) + 1
    <3>1. t[i].parent = LastId(s)
      BY <2>2, <1>1
    <3>2. i = 1 <=> s = <<>>
      BY <2>2, <1>1
    <3>3. i # 1 => i - 1 = Len(s) /\ Len(s) \in 1..Len(s)
      BY <2>2, <1>1
    <3>4. QED BY <3>1, <3>2, <3>3, <1>1 DEF LastId
  <2>3. QED BY <2>1, <2>2, <1>1, <1>2
<1>3. QED BY <1>2 DEF ChainValidSeq

-----------------------------------------------------------------------------
(* Type correctness *)

\* A process that is in the middle of an append has an event id.
HasEvent ==
    \A p \in Procs : job[p] = "append" => event[p] \in EventIds

\* A process past the read of the ledger is appending.
WritersAppend ==
    \A p \in Procs : pc[p] \in {"read", "temp"} => job[p] = "append"

TypeInv == TypeOK /\ HasEvent /\ WritersAppend

LEMMA InitTypeInv == Init => TypeInv
<1> SUFFICES ASSUME Init PROVE TypeInv
  OBVIOUS
<1> USE SupervisorLedgerAssumption DEF Init, TypeOK, Points, NoLock, NoTemp
<1>1. TypeOK
  OBVIOUS
<1>2. HasEvent /\ WritersAppend
  BY DEF HasEvent, WritersAppend
<1>3. QED BY <1>1, <1>2 DEF TypeInv

LEMMA StepTypeInv == TypeInv /\ [Next]_vars => TypeInv'
<1> SUFFICES ASSUME TypeInv, [Next]_vars PROVE TypeInv'
  OBVIOUS
<1>0. <<>> \in Seq(Event)
  BY EmptySeq
<1> USE SupervisorLedgerAssumption
    DEF TypeInv, TypeOK, HasEvent, WritersAppend, Points, LockHeld, NoLock,
        EventIds, Goto
<1>1. ASSUME NEW p \in Procs, Request(p) \/ Respond(p) PROVE TypeInv'
  <2>1. CASE Request(p)
    <3>1. TypeOK'
      BY <2>1 DEF Request
    <3>2. HasEvent' /\ WritersAppend'
      BY <2>1 DEF Request
    <3>3. QED BY <3>1, <3>2
  <2>2. CASE Respond(p)
    BY <2>2 DEF Respond
  <2>3. QED BY <1>1, <2>1, <2>2
<1>2. ASSUME NEW p \in Procs, AppendEvent(p) PROVE TypeInv'
  BY <1>2 DEF AppendEvent
<1>3. ASSUME NEW p \in Procs, CreateLock(p) PROVE TypeInv'
  BY <1>3 DEF CreateLock
<1>4. ASSUME NEW p \in Procs, JudgeStale(p) PROVE TypeInv'
  BY <1>4 DEF JudgeStale
<1>5. ASSUME NEW p \in Procs, RemoveStale(p) \/ RemoveFails(p) PROVE TypeInv'
  BY <1>5 DEF RemoveStale, RemoveFails
<1>6. ASSUME NEW p \in Procs, TimeOut(p) PROVE TypeInv'
  BY <1>6 DEF TimeOut
<1>7. ASSUME NEW p \in Procs, WritePid(p) PROVE TypeInv'
  <2>1. PICK written \in BOOLEAN :
           /\ lock' = IF lock.owner = p /\ written
                      THEN [owner |-> p, pid |-> TRUE, old |-> FALSE]
                      ELSE lock
           /\ pc' = [pc EXCEPT ![p] = IF written THEN "holding" ELSE "idle"]
    BY <1>7 DEF WritePid
  <2>2. UNCHANGED <<ledger, temps, job, snap, event, outcome, lastId, acked>>
    BY <1>7 DEF WritePid
  <2>3. CASE written
    BY <2>1, <2>2, <2>3
  <2>4. CASE ~written
    BY <2>1, <2>2, <2>4
  <2>5. QED BY <2>3, <2>4
<1>9. ASSUME NEW p \in Procs, ReadLedger(p) PROVE TypeInv'
  <2>1. PICK seen \in {ledger, <<>>} : snap' = [snap EXCEPT ![p] = seen]
    BY <1>9 DEF ReadLedger
  <2>2. seen \in Seq(Event)
    BY <2>1, <1>0
  <2>3. QED BY <1>9, <2>1, <2>2 DEF ReadLedger
<1>10. ASSUME NEW p \in Procs, WriteTemp(p) PROVE TypeInv'
  <2>1. Extended(snap[p], event[p]) \in Seq(Event)
    BY <1>10, ExtendedType DEF WriteTemp
  <2>2. QED BY <1>10, <2>1 DEF WriteTemp
<1>11. ASSUME NEW p \in Procs, Rename(p) PROVE TypeInv'
  BY <1>11, <1>0 DEF Rename, NoTemp
<1>12. ASSUME NEW p \in Procs, Return(p) PROVE TypeInv'
  <2>1. acked' \subseteq EventIds
    <3>1. CASE outcome[p] = "ok" /\ job[p] = "append"
      <4>1. event[p] \in EventIds
        BY <3>1
      <4>2. acked' = acked \cup {event[p]}
        BY <1>12, <3>1 DEF Return
      <4>3. QED BY <4>1, <4>2
    <3>2. CASE ~(outcome[p] = "ok" /\ job[p] = "append")
      <4>1. acked' = acked
        BY <1>12, <3>2 DEF Return
      <4>2. QED BY <4>1
    <3>3. QED BY <3>1, <3>2
  <2>2. PICK point \in {"ready", "idle"} : pc' = [pc EXCEPT ![p] = point]
    BY <1>12 DEF Return
  <2>3. /\ lock' \in {NoLock, lock}
        /\ UNCHANGED <<ledger, temps, job, snap, event, outcome, lastId>>
    BY <1>12 DEF Return
  <2>4. TypeOK'
    BY <2>1, <2>2, <2>3
  <2>5. HasEvent' /\ WritersAppend'
    BY <2>2, <2>3
  <2>6. QED BY <2>4, <2>5
<1>13. ASSUME NEW p \in Procs, Recover(p) PROVE TypeInv'
  <2>1. PICK result \in {"ok", "error"} : outcome' = [outcome EXCEPT ![p] = result]
    BY <1>13 DEF Recover
  <2>2. QED BY <1>13, <1>0, <2>1 DEF Recover, NoTemp
<1>14. ASSUME NEW p \in Procs, Crash(p) PROVE TypeInv'
  BY <1>14 DEF Crash
<1>15. ASSUME LockAges PROVE TypeInv'
  BY <1>15 DEF LockAges
<1>16. CASE UNCHANGED vars
  BY <1>16 DEF vars
<1>17. QED
  BY <1>1, <1>2, <1>3, <1>4, <1>5, <1>6, <1>7, <1>9, <1>10, <1>11, <1>12,
     <1>13, <1>14, <1>15, <1>16 DEF Next, Acquire, Locked

\* Every reachable state is well typed, whatever crashes and fails.
THEOREM TypeCorrect == Spec => []TypeOK
<1>1. TypeInv => TypeOK
  BY DEF TypeInv
<1>2. QED BY InitTypeInv, StepTypeInv, <1>1, PTL DEF Spec

-----------------------------------------------------------------------------
(* The hash chain, whatever crashes, fails or races *)

\* Not only the ledger: every snapshot taken of it and every temp file that may
\* be renamed over it is a valid chain, so it does not matter which of two
\* owners of the lock renames last.
ChainInv ==
    /\ TypeInv
    /\ ChainValid
    /\ \A p \in Procs : ChainValidSeq(snap[p]) /\ ChainValidSeq(temps[p])

LEMMA EmptyChain == ChainValidSeq(<<>>)
BY DEF ChainValidSeq

LEMMA InitChainInv == Init => ChainInv
BY InitTypeInv, EmptyChain DEF Init, ChainInv, ChainValid, NoTemp

LEMMA StepChainInv == ChainInv /\ [Next]_vars => ChainInv'
<1> SUFFICES ASSUME ChainInv, [Next]_vars PROVE ChainInv'
  OBVIOUS
<1>0. TypeInv /\ TypeInv'
  BY StepTypeInv DEF ChainInv
<1>1. ASSUME UNCHANGED <<ledger, snap, temps>> PROVE ChainInv'
  BY <1>0, <1>1 DEF ChainInv, ChainValid, ChainValidSeq
<1>2. ASSUME NEW p \in Procs, ReadLedger(p) PROVE ChainInv'
  <2>1. PICK seen \in {ledger, <<>>} : snap' = [snap EXCEPT ![p] = seen]
    BY <1>2 DEF ReadLedger
  <2>2. ChainValidSeq(seen)
    BY <2>1, EmptyChain DEF ChainInv, ChainValid
  <2>3. \A q \in Procs : snap'[q] = snap[q] \/ snap'[q] = seen
    BY <2>1, <1>0 DEF TypeInv, TypeOK
  <2>4. ledger' = ledger /\ temps' = temps
    BY <1>2 DEF ReadLedger
  <2>5. \A q \in Procs : ChainValidSeq(snap'[q])
    BY <2>2, <2>3 DEF ChainInv
  <2>6. ChainValid' /\ \A q \in Procs : ChainValidSeq(temps'[q])
    BY <2>4 DEF ChainInv, ChainValid
  <2>7. QED BY <2>5, <2>6, <1>0 DEF ChainInv
<1>3. ASSUME NEW p \in Procs, WriteTemp(p) PROVE ChainInv'
  <2>1. snap[p] \in Seq(Event) /\ event[p] \in EventIds /\ ChainValidSeq(snap[p])
    BY <1>0, <1>3 DEF WriteTemp, TypeInv, TypeOK, HasEvent, WritersAppend, ChainInv
  <2>2. ChainValidSeq(Extended(snap[p], event[p]))
    BY <2>1, ExtendedChain
  <2>3. \A q \in Procs : temps'[q] = temps[q] \/ temps'[q] = Extended(snap[p], event[p])
    BY <1>0, <1>3 DEF WriteTemp, TypeInv, TypeOK
  <2>4. \A q \in Procs : ChainValidSeq(temps'[q])
    BY <2>2, <2>3 DEF ChainInv
  <2>5. ledger' = ledger /\ snap' = snap
    BY <1>3 DEF WriteTemp
  <2>6. ChainValid' /\ \A q \in Procs : ChainValidSeq(snap'[q])
    BY <2>5 DEF ChainInv, ChainValid
  <2>7. QED BY <2>4, <2>6, <1>0 DEF ChainInv
<1>4. ASSUME NEW p \in Procs, Rename(p) PROVE ChainInv'
  <2>1. ledger' = ledger \/ ledger' = temps[p]
    BY <1>4 DEF Rename
  <2>2. ChainValid'
    BY <2>1 DEF ChainInv, ChainValid
  <2>3. \A q \in Procs : temps'[q] = temps[q] \/ temps'[q] = <<>>
    BY <1>0, <1>4 DEF Rename, TypeInv, TypeOK, NoTemp
  <2>4. \A q \in Procs : ChainValidSeq(temps'[q])
    BY <2>3, EmptyChain DEF ChainInv
  <2>5. \A q \in Procs : ChainValidSeq(snap'[q])
    BY <1>4 DEF ChainInv, Rename
  <2>6. QED BY <2>2, <2>4, <2>5, <1>0 DEF ChainInv
<1>5. ASSUME NEW p \in Procs, Recover(p) PROVE ChainInv'
  <2>1. \A q \in Procs : temps'[q] = <<>>
    BY <1>5 DEF Recover, NoTemp
  <2>2. \A q \in Procs : ChainValidSeq(temps'[q])
    BY <2>1, EmptyChain
  <2>3. ledger' = ledger /\ snap' = snap
    BY <1>5 DEF Recover
  <2>4. ChainValid' /\ \A q \in Procs : ChainValidSeq(snap'[q])
    BY <2>3 DEF ChainInv, ChainValid
  <2>5. QED BY <2>2, <2>4, <1>0 DEF ChainInv
<1>6. QED
  BY <1>1, <1>2, <1>3, <1>4, <1>5
  DEF Next, vars, Acquire, Locked, Request, AppendEvent, Respond, CreateLock, JudgeStale,
      RemoveStale, RemoveFails, TimeOut, WritePid, Return, Crash, LockAges

\* The ledger file is a valid hash chain in every reachable state: two owners
\* of the lock may lose events, they cannot break the chain.
THEOREM ChainAlwaysValid == Spec => []ChainValid
<1>1. ChainInv => ChainValid
  BY DEF ChainInv
<1>2. QED BY InitChainInv, StepChainInv, <1>1, PTL DEF Spec

-----------------------------------------------------------------------------
(* Mutual exclusion, when no process dies owning the lock *)

\* The system lets the processes of this theorem run: they may be killed, but
\* not while they own the lock file, a created lock file gets its pid and the
\* removal of a lock file succeeds.
OwnersSurvive ==
    /\ CrashAt \cap LockHeld = {}
    /\ Faults \cap {"pid_write", "stall", "remove"} = {}

\* Then the pid is written, if the lock is still the one that was created.
LEMMA PidWritten ==
    ASSUME OwnersSurvive, NEW p \in Procs, WritePid(p)
    PROVE  /\ pc[p] = "created"
           /\ lock' = IF lock.owner = p THEN [owner |-> p, pid |-> TRUE, old |-> FALSE] ELSE lock
           /\ pc' = [pc EXCEPT ![p] = "holding"]
           /\ UNCHANGED <<ledger, temps, job, snap, event, outcome, lastId, acked>>
<1>1. PICK written \in {TRUE} :
         /\ lock' = IF lock.owner = p /\ written
                    THEN [owner |-> p, pid |-> TRUE, old |-> FALSE]
                    ELSE lock
         /\ pc' = [pc EXCEPT ![p] = IF written THEN "holding" ELSE "idle"]
  BY DEF WritePid, OwnersSurvive, Goto
<1>2. written
  BY <1>1
<1>3. QED BY <1>1, <1>2 DEF WritePid

\* The lock file exists exactly while its creator is in the critical section,
\* carries the pid from the second step on, and is never taken for stale.
LockInv ==
    /\ TypeInv
    /\ \A p \in Procs : pc[p] \in LockHeld => lock # NoLock /\ lock.owner = p
    /\ lock # NoLock =>
         /\ pc[lock.owner] \in LockHeld
         /\ lock.pid \/ pc[lock.owner] = "created"
         /\ ~lock.old
    /\ \A p \in Procs : pc[p] # "steal"

LEMMA InitLockInv == Init => LockInv
BY InitTypeInv DEF Init, LockInv, LockHeld

LEMMA StepLockInv ==
    ASSUME OwnersSurvive
    PROVE  LockInv /\ [Next]_vars => LockInv'
<1> SUFFICES ASSUME LockInv, [Next]_vars PROVE LockInv'
  OBVIOUS
<1>0. TypeInv /\ TypeInv'
  BY StepTypeInv DEF LockInv
<1>a. /\ lock = NoLock \/ lock \in [owner : Procs, pid : BOOLEAN, old : BOOLEAN]
      /\ pc \in [Procs -> Points]
      /\ "none" \notin Procs
  BY <1>0, SupervisorLedgerAssumption DEF TypeInv, TypeOK, SupervisorLedgerAssumption
<1> USE DEF LockInv, LockHeld, NoLock, Goto
<1>1. ASSUME NEW p \in Procs, Request(p) \/ Respond(p) PROVE LockInv'
  BY <1>0, <1>a, <1>1 DEF Request, Respond
<1>2. ASSUME NEW p \in Procs, AppendEvent(p) PROVE LockInv'
  BY <1>0, <1>a, <1>2 DEF AppendEvent
<1>3. ASSUME NEW p \in Procs, CreateLock(p) PROVE LockInv'
  BY <1>0, <1>a, <1>3 DEF CreateLock
<1>4. ASSUME NEW p \in Procs, JudgeStale(p) PROVE FALSE
  BY <1>0, <1>a, <1>4 DEF JudgeStale, LockIsStale
<1>5. ASSUME NEW p \in Procs, RemoveStale(p) \/ RemoveFails(p) PROVE FALSE
  BY <1>0, <1>a, <1>5 DEF RemoveStale, RemoveFails
<1>6. ASSUME NEW p \in Procs, TimeOut(p) PROVE LockInv'
  BY <1>0, <1>a, <1>6 DEF TimeOut
<1>7. ASSUME NEW p \in Procs, WritePid(p) PROVE LockInv'
  BY <1>0, <1>a, <1>7, PidWritten
<1>9. ASSUME NEW p \in Procs, ReadLedger(p) PROVE LockInv'
  BY <1>0, <1>a, <1>9 DEF ReadLedger
<1>10. ASSUME NEW p \in Procs, WriteTemp(p) PROVE LockInv'
  BY <1>0, <1>a, <1>10 DEF WriteTemp
<1>11. ASSUME NEW p \in Procs, Rename(p) PROVE LockInv'
  BY <1>0, <1>a, <1>11 DEF Rename
<1>12. ASSUME NEW p \in Procs, Return(p) PROVE LockInv'
  <2>1. PICK point \in {"ready", "idle"} : pc' = [pc EXCEPT ![p] = point]
    BY <1>12 DEF Return
  <2>2. lock' = NoLock
    BY <1>12 DEF Return, OwnersSurvive
  <2>3. lock.owner = p /\ \A q \in Procs : pc[q] \in LockHeld => q = p
    BY <1>12 DEF Return
  <2>4. QED BY <1>0, <1>a, <2>1, <2>2, <2>3
<1>13. ASSUME NEW p \in Procs, Recover(p) PROVE LockInv'
  BY <1>0, <1>a, <1>13 DEF Recover
<1>14. ASSUME NEW p \in Procs, Crash(p) PROVE LockInv'
  <2>1. pc[p] \notin LockHeld
    BY <1>14 DEF Crash, OwnersSurvive
  <2>2. QED BY <1>0, <1>a, <2>1, <1>14 DEF Crash
<1>15. ASSUME LockAges PROVE FALSE
  BY <1>15 DEF LockAges, OwnersSurvive
<1>16. CASE UNCHANGED vars
  BY <1>0, <1>16 DEF vars
<1>17. QED
  BY <1>1, <1>2, <1>3, <1>4, <1>5, <1>6, <1>7, <1>9, <1>10, <1>11, <1>12,
     <1>13, <1>14, <1>15, <1>16 DEF Next, Acquire, Locked

\* The ledger lock excludes: no two processes are in the critical section, as
\* long as nobody dies in it.  (The run ledger_two_owners shows what happens
\* when somebody does.)
THEOREM LockExcludes ==
    ASSUME OwnersSurvive
    PROVE  Spec => []MutualExclusion
<1>1. LockInv => MutualExclusion
  BY DEF LockInv, MutualExclusion
<1>2. QED BY InitLockInv, StepLockInv, <1>1, PTL DEF Spec

-----------------------------------------------------------------------------
(* The ledger implements EventLog, when in addition every read succeeds *)

ReadsSucceed == "read" \notin Faults

\* p has an event that it has not put into the ledger yet.
Pending(p) ==
    /\ job[p] = "append"
    /\ pc[p] \in {"acquire", "created", "holding", "read", "temp"}

\* What the owner of the lock read is still what the file holds, ids are handed
\* out once, and a call about to return successfully has its event in the file.
LogInv ==
    /\ LockInv
    /\ \A p \in Procs : pc[p] \in {"read", "temp"} => snap[p] = ledger
    /\ \A p \in Procs : pc[p] = "temp" => temps[p] = Extended(snap[p], event[p])
    /\ LedgerIds \subseteq 1..lastId
    /\ \A p \in Procs : event[p] <= lastId
    /\ \A p \in Procs : Pending(p) => event[p] \notin LedgerIds
    /\ \A p, q \in Procs : Pending(p) /\ Pending(q) /\ p # q => event[p] # event[q]
    /\ \A p \in Procs :
         pc[p] = "closing" /\ job[p] = "append" => event[p] \in LedgerIds
    /\ acked \subseteq LedgerIds

\* The ids of an extended ledger are those of the ledger and the new one.
LEMMA ExtendedIds ==
    ASSUME NEW s \in Seq(Event), NEW e \in EventIds
    PROVE  /\ {Extended(s, e)[i].id : i \in DOMAIN Extended(s, e)}
                 = {s[i].id : i \in DOMAIN s} \cup {e}
           /\ [i \in DOMAIN Extended(s, e) |-> Extended(s, e)[i].id]
                 = Append([i \in DOMAIN s |-> s[i].id], e)
           /\ Extended(s, e) # <<>>
<1> DEFINE t == Extended(s, e)
           ids == [i \in DOMAIN s |-> s[i].id]
<1>1. /\ Len(t) = Len(s) + 1
      /\ \A i \in 1..Len(s) : t[i] = s[i]
      /\ t[Len(s) + 1] = [id |-> e, parent |-> LastId(s)]
      /\ DOMAIN t = 1..(Len(s) + 1)
      /\ DOMAIN s = 1..Len(s)
      /\ Len(s) \in Nat
  BY DEF Extended
<1>2. \A i \in DOMAIN s : i \in DOMAIN t /\ t[i].id = s[i].id
  BY <1>1
<1>3. Len(s) + 1 \in DOMAIN t /\ t[Len(s) + 1].id = e
  BY <1>1
<1>4. \A i \in DOMAIN t : i \in DOMAIN s \/ i = Len(s) + 1
  BY <1>1
<1>5. {t[i].id : i \in DOMAIN t} = {s[i].id : i \in DOMAIN s} \cup {e}
  BY <1>2, <1>3, <1>4
<1>6. \A i \in DOMAIN s : s[i].id \in EventIds
  <2>1. \A i \in DOMAIN s : s[i] \in Event
    BY <1>1, ElementOfSeq
  <2>2. QED BY <2>1 DEF Event
<1>7. ids \in Seq(EventIds) /\ Len(ids) = Len(s)
  BY <1>1, <1>6
<1>8. [i \in DOMAIN t |-> t[i].id] = Append(ids, e)
  <2>1. Append(ids, e) = [i \in 1..(Len(s) + 1) |-> IF i = Len(s) + 1 THEN e ELSE ids[i]]
    BY <1>7, <1>1
  <2>2. \A i \in 1..(Len(s) + 1) :
          t[i].id = IF i = Len(s) + 1 THEN e ELSE ids[i]
    BY <1>1, <1>2, <1>3, <1>4
  <2>3. QED BY <2>1, <2>2, <1>1
<1>9. t # <<>>
  BY <1>1
<1>10. QED BY <1>5, <1>8, <1>9

LEMMA InitLogInv == Init => LogInv
<1> SUFFICES ASSUME Init PROVE LogInv
  OBVIOUS
<1>1. LedgerIds = {}
  BY DEF Init, LedgerIds
<1>2. /\ \A p \in Procs : pc[p] = "idle" /\ job[p] = "recover" /\ event[p] = 0
      /\ lastId = 0 /\ acked = {}
  BY DEF Init
<1>3. \A p \in Procs : ~Pending(p)
  BY <1>2 DEF Pending
<1>4. QED BY <1>1, <1>2, <1>3, InitLockInv DEF LogInv

\* The rename of the lock owner adds its event to the ledger it read, which is
\* the ledger as it is.
LEMMA RenameAppends ==
    ASSUME LogInv, NEW p \in Procs, Rename(p)
    PROVE  /\ event[p] \in EventIds \ LedgerIds
           /\ ledger' = Extended(ledger, event[p])
           /\ LedgerIds' = LedgerIds \cup {event[p]}
           /\ [i \in DOMAIN ledger |-> ledger[i].id]'
                = Append([i \in DOMAIN ledger |-> ledger[i].id], event[p])
<1>1. pc[p] = "temp" /\ TypeInv
  BY DEF Rename, LogInv, LockInv
<1>2. job[p] = "append" /\ event[p] \in EventIds /\ ledger \in Seq(Event)
  BY <1>1 DEF TypeInv, TypeOK, HasEvent, WritersAppend
<1>3. event[p] \notin LedgerIds
  BY <1>1, <1>2 DEF LogInv, Pending
<1>4. temps[p] = Extended(ledger, event[p])
  BY <1>1 DEF LogInv
<1>5. temps[p] # NoTemp
  BY <1>2, <1>4, ExtendedIds DEF NoTemp
<1>6. ledger' = Extended(ledger, event[p])
  BY <1>4, <1>5 DEF Rename
<1>7. LedgerIds' = {Extended(ledger, event[p])[i].id :
                      i \in DOMAIN Extended(ledger, event[p])}
  BY <1>6 DEF LedgerIds
<1>8. LedgerIds' = LedgerIds \cup {event[p]}
  BY <1>2, <1>7, ExtendedIds DEF LedgerIds
<1>9. [i \in DOMAIN ledger |-> ledger[i].id]'
        = [i \in DOMAIN Extended(ledger, event[p]) |-> Extended(ledger, event[p])[i].id]
  BY <1>6
<1>10. QED BY <1>2, <1>3, <1>6, <1>8, <1>9, ExtendedIds

\* Every step keeps LogInv.
LEMMA StepLogInv ==
    ASSUME OwnersSurvive, ReadsSucceed
    PROVE  LogInv /\ [Next]_vars => LogInv'
<1> SUFFICES ASSUME LogInv, [Next]_vars PROVE LogInv'
  OBVIOUS
<1>0. LockInv /\ LockInv' /\ TypeInv /\ TypeInv'
  BY StepLockInv DEF LogInv, LockInv
<1>a. /\ ledger \in Seq(Event)
      /\ temps \in [Procs -> Seq(Event)]
      /\ snap \in [Procs -> Seq(Event)]
      /\ pc \in [Procs -> Points]
      /\ job \in [Procs -> {"recover", "append"}]
      /\ event \in [Procs -> 0..MaxEvents]
      /\ lastId \in 0..MaxEvents
      /\ MaxEvents \in Nat
  BY <1>0, SupervisorLedgerAssumption DEF TypeInv, TypeOK, SupervisorLedgerAssumption
<1>b. ledger' = ledger => LedgerIds' = LedgerIds
  BY DEF LedgerIds
<1>c. \A p, q \in Procs : pc[p] \in LockHeld /\ pc[q] \in LockHeld => p = q
  BY <1>0 DEF LockInv
<1> USE DEF LogInv, Pending, Goto
\* Steps that only move a process from one point to another.
<1>d. ASSUME UNCHANGED <<ledger, temps, snap, event, lastId, acked>>,
             \A q \in Procs :
               \/ pc'[q] = pc[q] /\ job'[q] = job[q]
               \/ pc'[q] \in {"idle", "dead"} /\ job'[q] = job[q]
               \/ pc'[q] = "acquire" /\ job'[q] = "recover"
               \/ job'[q] = job[q] /\ pc[q] \in {"acquire", "created"} /\ pc'[q] \in {"created", "holding"}
      PROVE  LogInv'
  <2>1. \A q \in Procs : Pending(q)' => Pending(q)
    BY <1>d
  <2>2. LedgerIds' = LedgerIds
    BY <1>b, <1>d
  <2>3. \A q \in Procs : pc'[q] \in {"read", "temp", "closing"} =>
          pc'[q] = pc[q] /\ job'[q] = job[q]
    BY <1>d
  <2>4. \A q \in Procs : pc'[q] \in {"read", "temp"} => snap'[q] = ledger'
    BY <1>d, <2>3
  <2>5. \A q \in Procs : pc'[q] = "temp" => temps'[q] = Extended(snap'[q], event'[q])
    BY <1>d, <2>3
  <2>6. \A q \in Procs :
          pc'[q] = "closing" /\ job'[q] = "append" => event'[q] \in LedgerIds'
    BY <1>d, <2>2, <2>3
  <2>7. /\ \A q \in Procs : Pending(q)' => event'[q] \notin LedgerIds'
        /\ \A q, r \in Procs : Pending(q)' /\ Pending(r)' /\ q # r => event'[q] # event'[r]
    BY <1>d, <2>1, <2>2
  <2>8. QED BY <1>0, <1>d, <2>2, <2>4, <2>5, <2>6, <2>7
<1>1. ASSUME NEW p \in Procs, Request(p) \/ Respond(p) PROVE LogInv'
  BY <1>a, <1>d, <1>1 DEF Request, Respond
<1>2. ASSUME NEW p \in Procs, AppendEvent(p) PROVE LogInv'
  <2>1. /\ lastId' = lastId + 1 /\ event' = [event EXCEPT ![p] = lastId + 1]
        /\ pc' = [pc EXCEPT ![p] = "acquire"] /\ job' = [job EXCEPT ![p] = "append"]
        /\ UNCHANGED <<ledger, snap, temps, acked>> /\ pc[p] = "ready"
    BY <1>2 DEF AppendEvent
  <2>2. lastId + 1 \notin LedgerIds /\ LedgerIds \subseteq 1..lastId'
    BY <1>a, <2>1
  <2>3. \A q \in Procs : event'[q] <= lastId'
    BY <1>a, <2>1
  <2>8. \A q \in Procs : q # p => pc'[q] = pc[q] /\ job'[q] = job[q] /\ event'[q] = event[q]
    BY <1>a, <2>1
  <2>4. \A q \in Procs : Pending(q)' => q = p \/ (Pending(q) /\ event'[q] = event[q])
    BY <2>8
  <2>5. event'[p] = lastId + 1 /\ \A q \in Procs : event[q] # lastId + 1
    BY <1>a, <2>1
  <2>6. \A q \in Procs : Pending(q)' => event'[q] \notin LedgerIds'
    BY <2>1, <2>2, <2>4, <2>5, <1>b
  <2>7. \A q, r \in Procs : Pending(q)' /\ Pending(r)' /\ q # r => event'[q] # event'[r]
    BY <2>4, <2>5
  <2>9. pc'[p] = "acquire"
    BY <1>a, <2>1
  <2>10. \A q \in Procs : pc'[q] \in {"read", "temp", "closing"} => q # p
    BY <2>9
  <2>11. /\ \A q \in Procs : pc'[q] \in {"read", "temp"} => snap'[q] = ledger'
         /\ \A q \in Procs : pc'[q] = "temp" => temps'[q] = Extended(snap'[q], event'[q])
    BY <2>1, <2>8, <2>10
  <2>12. /\ \A q \in Procs : pc'[q] = "closing" /\ job'[q] = "append" => event'[q] \in LedgerIds'
         /\ acked' \subseteq LedgerIds'
    BY <1>b, <2>1, <2>8, <2>10
  <2>13. QED BY <1>0, <1>b, <2>1, <2>2, <2>3, <2>6, <2>7, <2>11, <2>12
<1>3. ASSUME NEW p \in Procs, CreateLock(p) PROVE LogInv'
  <2>1. /\ pc[p] = "acquire" /\ pc' = [pc EXCEPT ![p] = "created"]
        /\ UNCHANGED <<ledger, temps, job, snap, event, lastId, acked>>
    BY <1>3 DEF CreateLock
  <2>2. \A q \in Procs : pc'[q] = pc[q] \/ (pc[q] = "acquire" /\ pc'[q] = "created")
    BY <1>a, <2>1
  <2>3. \A q \in Procs : job'[q] = job[q]
    BY <2>1
  <2>4. \A q \in Procs :
           \/ pc'[q] = pc[q] /\ job'[q] = job[q]
           \/ /\ job'[q] = job[q]
              /\ pc[q] \in {"acquire", "created"} /\ pc'[q] \in {"created", "holding"}
    BY <2>2, <2>3
  <2>5. UNCHANGED <<ledger, temps, snap, event, lastId, acked>>
    BY <2>1
  <2>6. QED BY <1>d, <2>4, <2>5
<1>4. ASSUME NEW p \in Procs, JudgeStale(p) PROVE LogInv'
  BY <1>0, <1>a, <1>4 DEF JudgeStale, LockIsStale, LockInv, NoLock, LockHeld
<1>5. ASSUME NEW p \in Procs, RemoveStale(p) \/ RemoveFails(p) PROVE LogInv'
  BY <1>0, <1>5 DEF RemoveStale, RemoveFails, LockInv
<1>6. ASSUME NEW p \in Procs, TimeOut(p) PROVE LogInv'
  BY <1>a, <1>d, <1>6 DEF TimeOut
<1>7. ASSUME NEW p \in Procs, WritePid(p) PROVE LogInv'
  BY <1>a, <1>d, <1>7, PidWritten
<1>9. ASSUME NEW p \in Procs, ReadLedger(p) PROVE LogInv'
  <2>1. snap' = [snap EXCEPT ![p] = ledger]
    BY <1>9 DEF ReadLedger, ReadsSucceed
  <2>2. UNCHANGED <<ledger, temps, job, event, lastId, acked>>
        /\ pc' = [pc EXCEPT ![p] = "read"] /\ pc[p] = "holding" /\ job[p] = "append"
    BY <1>9 DEF ReadLedger
  <2>3. \A q \in Procs : q # p => pc'[q] = pc[q] /\ snap'[q] = snap[q]
    BY <1>a, <2>1, <2>2
  <2>4. pc'[p] = "read" /\ snap'[p] = ledger
    BY <1>a, <2>1, <2>2
  <2>5. \A q \in Procs : Pending(q)' => Pending(q)
    BY <2>2, <2>3
  <2>6. \A q \in Procs : pc'[q] = "temp" => q # p
    BY <2>4
  <2>7. QED BY ZenonT(30), <1>0, <1>b, <2>2, <2>3, <2>4, <2>5, <2>6
<1>10. ASSUME NEW p \in Procs, WriteTemp(p) PROVE LogInv'
  <2>1. \A q \in Procs : q # p => temps'[q] = temps[q] /\ pc'[q] = pc[q]
    BY <1>a, <1>10 DEF WriteTemp
  <2>2. temps'[p] = Extended(snap[p], event[p]) /\ pc'[p] = "temp" /\ pc[p] = "read"
    BY <1>a, <1>10 DEF WriteTemp
  <2>3. UNCHANGED <<ledger, job, snap, event, lastId, acked>>
    BY <1>10 DEF WriteTemp
  <2>4. \A q \in Procs : pc'[q] = "temp" => temps'[q] = Extended(snap'[q], event'[q])
    BY <2>1, <2>2, <2>3
  <2>5. \A q \in Procs : Pending(q)' => Pending(q)
    BY <2>1, <2>2, <2>3
  <2>6. QED BY <1>0, <1>b, <2>1, <2>2, <2>3, <2>4, <2>5
<1>13. ASSUME NEW p \in Procs, Recover(p) PROVE LogInv'
  <2>1. \A q \in Procs : pc[q] # "temp" /\ pc'[q] # "temp"
    BY <1>a, <1>c, <1>13 DEF Recover, LockHeld
  <2>2. QED BY <1>0, <1>a, <1>b, <2>1, <1>13 DEF Recover
<1>14. ASSUME NEW p \in Procs, Crash(p) PROVE LogInv'
  BY <1>a, <1>d, <1>14 DEF Crash
<1>15. ASSUME LockAges PROVE LogInv'
  BY <1>15 DEF LockAges, LockInv, OwnersSurvive
<1>16. CASE UNCHANGED vars
  BY <1>0, <1>b, <1>16 DEF vars
<1>11. ASSUME NEW p \in Procs, Rename(p) PROVE LogInv'
  <2>1. event[p] \notin LedgerIds /\ LedgerIds' = LedgerIds \cup {event[p]}
    BY <1>11, RenameAppends
  <2>2. pc[p] = "temp" /\ pc' = [pc EXCEPT ![p] = "closing"]
        /\ UNCHANGED <<job, snap, event, lastId, acked>>
    BY <1>11 DEF Rename
  <2>3. Pending(p)
    BY <2>2, <1>0 DEF TypeInv, WritersAppend
  <2>4. \A q \in Procs : q # p => pc'[q] = pc[q] /\ pc[q] \notin LockHeld
    BY <1>a, <1>c, <2>2 DEF LockHeld
  <2>5. pc'[p] = "closing"
    BY <1>a, <2>2
  <2>6. \A q \in Procs : pc'[q] \notin {"read", "temp"}
    BY <2>4, <2>5 DEF LockHeld
  <2>7. \A q \in Procs : Pending(q)' => q # p /\ Pending(q)
    BY <2>2, <2>4, <2>5
  <2>8. \A q \in Procs : Pending(q)' => event'[q] \notin LedgerIds'
    BY <2>1, <2>2, <2>3, <2>7
  <2>9. event[p] \in 1..lastId
    BY <1>a, <2>3, <1>0 DEF TypeInv, HasEvent, EventIds
  <2>10. LedgerIds' \subseteq 1..lastId' /\ acked' \subseteq LedgerIds'
    BY <2>1, <2>2, <2>9
  <2>11. \A q \in Procs :
           pc'[q] = "closing" /\ job'[q] = "append" => event'[q] \in LedgerIds'
    BY <2>1, <2>2, <2>4, <2>5
  <2>12. QED BY <1>0, <2>2, <2>6, <2>7, <2>8, <2>10, <2>11
<1>12. ASSUME NEW p \in Procs, Return(p) PROVE LogInv'
  <2>1. PICK point \in {"ready", "idle"} : pc' = [pc EXCEPT ![p] = point]
    BY <1>12 DEF Return
  <2>2. UNCHANGED <<ledger, temps, job, snap, event, lastId>>
    BY <1>12 DEF Return
  <2>3. acked' \subseteq LedgerIds'
    BY <1>12, <1>b, <2>2 DEF Return
  <2>4. \A q \in Procs : pc'[q] \in {"ready", "idle"} \/ pc'[q] = pc[q]
    BY <1>a, <2>1
  <2>5. \A q \in Procs : Pending(q)' => Pending(q)
    BY <2>2, <2>4
  <2>6. QED BY <1>0, <1>b, <2>2, <2>3, <2>4, <2>5
<1>17. QED
  BY <1>1, <1>2, <1>3, <1>4, <1>5, <1>6, <1>7, <1>9, <1>10, <1>11, <1>12,
     <1>13, <1>14, <1>15, <1>16 DEF Next, Acquire, Locked

\* A step of the implementation commits one event, acknowledges one event that
\* is in the ledger, or does nothing the callers of EventLog can see.
LEMMA StepRefines ==
    ASSUME LogInv, [Next]_vars
    PROVE  [Log!Next]_(Log!logVars)
<1> USE DEF Log!logVars
<1>1. ASSUME NEW p \in Procs, Rename(p) PROVE Log!Next
  <2>1. /\ event[p] \in EventIds \ LedgerIds
        /\ [i \in DOMAIN ledger |-> ledger[i].id]'
             = Append([i \in DOMAIN ledger |-> ledger[i].id], event[p])
    BY <1>1, RenameAppends
  <2>2. Log!LogIds = LedgerIds
    BY DEF Log!LogIds, LedgerIds
  <2>3. acked' = acked
    BY <1>1 DEF Rename
  <2>4. PICK e \in EventIds : e = event[p]
    BY <2>1
  <2>5. Log!Commit(e)
    BY <2>1, <2>2, <2>3, <2>4 DEF Log!Commit
  <2>6. QED BY <2>5 DEF Log!Next
<1>2. ASSUME NEW p \in Procs, Return(p) PROVE Log!Next \/ UNCHANGED Log!logVars
  <2>1. ledger' = ledger
    BY <1>2 DEF Return
  <2>2. CASE acked' = acked
    BY <2>1, <2>2
  <2>3. CASE acked' = acked \cup {event[p]} /\ job[p] = "append"
    <3>1. event[p] \in LedgerIds
      BY <1>2, <2>3 DEF Return, LogInv
    <3>2. event[p] \in EventIds
      BY <2>3 DEF LogInv, LockInv, TypeInv, HasEvent
    <3>3. Log!LogIds = LedgerIds
      BY DEF Log!LogIds, LedgerIds
    <3>4. PICK e \in EventIds : e = event[p]
      BY <3>2
    <3>5. Log!Acknowledge(e)
      BY <2>1, <2>3, <3>1, <3>3, <3>4 DEF Log!Acknowledge
    <3>6. QED BY <3>5 DEF Log!Next
  <2>4. QED BY <1>2, <2>2, <2>3 DEF Return
<1>3. CASE UNCHANGED <<ledger, acked>>
  BY <1>3
<1>4. QED
  BY <1>1, <1>2, <1>3
  DEF Next, vars, Acquire, Locked, Request, AppendEvent, Respond, CreateLock, JudgeStale,
      RemoveStale, RemoveFails, TimeOut, WritePid, ReadLedger, WriteTemp,
      Recover, Crash, LockAges

\* Under the lock the supervisors implement the append-only log of EventLog: no
\* event is lost or reordered, and what is acknowledged stays.
THEOREM LedgerImplementsLog ==
    ASSUME OwnersSurvive, ReadsSucceed
    PROVE  Spec => ImplementsLog
<1>1. Init => Log!Init
  <2> SUFFICES ASSUME Init PROVE Log!Init
    OBVIOUS
  <2>1. ledger = <<>> /\ acked = {}
    BY DEF Init
  <2>2. [i \in DOMAIN ledger |-> ledger[i].id] = <<>>
    BY <2>1
  <2>3. QED BY <2>1, <2>2 DEF Log!Init
<1>2. LogInv /\ [Next]_vars => [Log!Next]_(Log!logVars)
  BY StepRefines
<1>3. QED BY InitLogInv, StepLogInv, <1>1, <1>2, PTL DEF Spec, ImplementsLog, Log!Spec

\* An acknowledged event is in the ledger for good.
THEOREM AckedAlwaysDurable ==
    ASSUME OwnersSurvive, ReadsSucceed
    PROVE  Spec => []AckedDurable
<1>1. LogInv => AckedDurable
  BY DEF LogInv, AckedDurable
<1>2. QED BY InitLogInv, StepLogInv, <1>1, PTL DEF Spec

-----------------------------------------------------------------------------
(* The second author *)

SharedTypes ==
    /\ tsPc \in [Writers -> {"idle", "read", "open"}]
    /\ tsLine \in [Writers -> [id : 0..MaxEvents, parent : 0..MaxEvents]]
    /\ \A w \in Writers : tsPc[w] # "idle" => tsLine[w] \in Event
    /\ tsCurrent \in [Writers -> BOOLEAN]

\* The history knows who is under way beside whom.
Noted ==
    /\ \A w \in Writers : Rewriting /\ tsPc[w] # "idle" => tsLine[w].id \in overtaken
    /\ \A v, w \in Writers :
         tsPc[v] # "idle" /\ tsPc[w] # "idle" /\ v # w => tsLine[w].id \in forked

LEMMA InitShared == SharedInit => TypeInv /\ SharedTypes /\ Noted
<1> SUFFICES ASSUME SharedInit PROVE TypeInv /\ SharedTypes /\ Noted
  OBVIOUS
<1>1. SharedTypes
  BY SupervisorLedgerAssumption DEF SharedInit, SharedTypes, NoLine, SupervisorLedgerAssumption
<1>2. TypeInv /\ Noted
  BY InitTypeInv DEF SharedInit, Noted
<1>3. QED BY <1>1, <1>2

\* Every step writes the history, which only grows.
LEMMA HistoryNotes ==
    ASSUME NoteOverlaps
    PROVE  Noted' /\ overtaken \subseteq overtaken' /\ forked \subseteq forked'
<1>1. /\ overtaken' = overtaken \cup BesideRewrite'
      /\ forked' = forked \cup BesideLine'
  BY DEF NoteOverlaps
<1>2. ASSUME NEW w \in Writers, Rewriting', tsPc'[w] # "idle"
      PROVE  tsLine'[w].id \in overtaken'
  BY <1>1, <1>2 DEF BesideRewrite, UnderWay
<1>3. ASSUME NEW v \in Writers, NEW w \in Writers, tsPc'[v] # "idle", tsPc'[w] # "idle", v # w
      PROVE  tsLine'[w].id \in forked'
  BY <1>1, <1>3 DEF BesideLine, UnderWay
<1>4. QED BY <1>1, <1>2, <1>3 DEF Noted

\* What the steps of the supervisors leave alone.
LEMMA SupervisorSteps ==
    ASSUME SharedTypes, NEW p \in Procs, SharedServe(p) \/ SharedAcquire(p) \/ SharedLocked(p)
    PROVE  /\ Next /\ NoteOverlaps /\ SharedTypes'
           /\ UNCHANGED <<tsPc, tsLine, tsAcked>>
<1>1. CASE SharedRename(p)
  BY <1>1 DEF SharedRename, Next, Locked, SharedTypes
<1>2. CASE /\ WritePid(p) \/ ReadLedger(p) \/ WriteTemp(p) \/ Recover(p) \/ Return(p)
           /\ Beside
  BY <1>2 DEF Beside, tsVars, Next, Locked, SharedTypes
<1>3. CASE SharedServe(p) \/ SharedAcquire(p)
  BY <1>3 DEF SharedServe, SharedAcquire, Beside, tsVars, Next, SharedTypes
<1>4. QED BY <1>1, <1>2, <1>3 DEF SharedLocked

\* A step of a writer leaves the supervisors alone, but for the ledger it adds to.
LEMMA WriterSteps ==
    ASSUME TypeInv, SharedTypes, NEW w \in Writers,
           TsRead(w) \/ TsRefuse(w) \/ TsOpen(w) \/ TsWrite(w)
    PROVE  /\ TypeInv' /\ SharedTypes' /\ NoteOverlaps
           /\ UNCHANGED <<lock, temps, pc, job, snap, event, outcome, acked>>
           /\ \A v \in Writers : v # w => UNCHANGED <<tsPc[v], tsLine[v], tsCurrent[v]>>
           /\ ledger' = ledger
                \/ (TsWrite(w) /\ ledger' = Append(ledger, tsLine[w]) /\ tsLine[w] \in Event)
<1>0. TypeOK /\ MaxEvents \in Nat
  BY SupervisorLedgerAssumption DEF TypeInv, SupervisorLedgerAssumption
<1>1. NoLine \in [id : 0..MaxEvents, parent : 0..MaxEvents]
  BY <1>0 DEF NoLine
<1>2. CASE TsRead(w)
  <2>1. /\ tsPc[w] = "idle" /\ lastId < MaxEvents /\ lastId' = lastId + 1
        /\ tsPc' = [tsPc EXCEPT ![w] = "read"] /\ NoteOverlaps
        /\ tsLine' = [tsLine EXCEPT ![w] = [id |-> lastId + 1, parent |-> LastId(ledger)]]
        /\ UNCHANGED <<ledger, lock, temps, pc, job, snap, event, outcome, acked, tsCurrent>>
    BY <1>2 DEF TsRead
  <2>2. lastId' \in 0..MaxEvents /\ lastId + 1 \in EventIds
    BY <1>0, <2>1 DEF TypeOK, EventIds
  <2>3. TypeInv'
    BY <1>0, <2>1, <2>2 DEF TypeInv, TypeOK, HasEvent, WritersAppend
  <2>4. [id |-> lastId + 1, parent |-> LastId(ledger)] \in Event
    BY <1>0, <2>2, LastIdType DEF Event, TypeOK
  <2>5. SharedTypes'
    BY <1>0, <2>1, <2>4 DEF SharedTypes, Event, EventIds
  <2>6. \A v \in Writers : v # w => UNCHANGED <<tsPc[v], tsLine[v], tsCurrent[v]>>
    BY <2>1 DEF SharedTypes
  <2>7. QED BY <2>1, <2>3, <2>5, <2>6
<1>3. CASE TsRefuse(w) \/ TsOpen(w)
  <2>1. UNCHANGED vars /\ NoteOverlaps
    BY <1>3 DEF TsRefuse, TsOpen
  <2>2. TypeInv'
    BY <2>1, StepTypeInv
  <2>3. SharedTypes'
    BY <1>0, <1>1, <1>3 DEF SharedTypes, TsRefuse, TsOpen
  <2>4. \A v \in Writers : v # w => UNCHANGED <<tsPc[v], tsLine[v], tsCurrent[v]>>
    BY <1>3 DEF SharedTypes, TsRefuse, TsOpen
  <2>5. QED BY <2>1, <2>2, <2>3, <2>4 DEF vars
<1>4. CASE TsWrite(w)
  <2>1. /\ tsPc[w] = "open" /\ NoteOverlaps
        /\ ledger' = ledger \/ ledger' = Append(ledger, tsLine[w])
        /\ UNCHANGED <<lock, temps, pc, job, snap, event, outcome, lastId, acked>>
    BY <1>4 DEF TsWrite
  <2>2. tsLine[w] \in Event
    BY <2>1 DEF SharedTypes
  <2>3. ledger' \in Seq(Event)
    <3>1. ledger \in Seq(Event)
      BY <1>0 DEF TypeOK
    <3>2. Append(ledger, tsLine[w]) \in Seq(Event)
      BY <2>2, <3>1
    <3>3. QED BY <2>1, <3>1, <3>2
  <2>4. TypeInv'
    BY <1>0, <2>1, <2>3 DEF TypeInv, TypeOK, HasEvent, WritersAppend
  <2>5. SharedTypes'
    BY <1>0, <1>1, <1>4 DEF SharedTypes, TsWrite
  <2>6. \A v \in Writers : v # w => UNCHANGED <<tsPc[v], tsLine[v], tsCurrent[v]>>
    BY <1>4 DEF SharedTypes, TsWrite
  <2>7. QED BY <1>4, <2>1, <2>2, <2>4, <2>5, <2>6
<1>5. QED BY <1>2, <1>3, <1>4

-----------------------------------------------------------------------------
(* The chain across authors *)

LEMMA LinkedWeaker ==
    ASSUME NEW s, NEW few, NEW more, few \subseteq more, LinkedBut(s, few)
    PROVE  LinkedBut(s, more)
BY DEF LinkedBut

\* A line that names the last one, or is excused, keeps the others linked.
LEMMA LinkedAppend ==
    ASSUME NEW s \in Seq(Event), NEW line \in Event, NEW loose, LinkedBut(s, loose),
           line.id \in loose \/ line.parent = LastId(s)
    PROVE  LinkedBut(Append(s, line), loose)
<1> DEFINE t == Append(s, line)
<1>1. /\ \A i \in 1..Len(s) : t[i] = s[i]
      /\ t[Len(s) + 1] = line
      /\ DOMAIN t = 1..(Len(s) + 1)
      /\ DOMAIN s = 1..Len(s)
      /\ Len(s) \in Nat
  OBVIOUS
<1>2. ASSUME NEW i \in DOMAIN t, t[i].id \notin loose
      PROVE  t[i].parent = IF i = 1 THEN 0 ELSE t[i - 1].id
  <2>1. CASE i \in 1..Len(s)
    <3>1. s[i].parent = IF i = 1 THEN 0 ELSE s[i - 1].id
      BY <2>1, <1>1, <1>2 DEF LinkedBut
    <3>2. i # 1 => i - 1 \in 1..Len(s)
      BY <2>1, <1>1
    <3>3. QED BY <3>1, <3>2, <2>1, <1>1
  <2>2. CASE i = Len(s) + 1
    <3>1. t[i].parent = LastId(s)
      BY <2>2, <1>1, <1>2
    <3>2. i = 1 <=> s = <<>>
      BY <2>2, <1>1
    <3>3. i # 1 => i - 1 = Len(s) /\ Len(s) \in 1..Len(s)
      BY <2>2, <1>1
    <3>4. QED BY <3>1, <3>2, <3>3, <1>1 DEF LastId
  <2>3. QED BY <2>1, <2>2, <1>1, <1>2
<1>3. QED BY <1>2 DEF LinkedBut

LEMMA LinkedExtended ==
    ASSUME NEW s \in Seq(Event), NEW e \in EventIds, NEW loose, LinkedBut(s, loose)
    PROVE  LinkedBut(Extended(s, e), loose)
<1>1. LastId(s) \in 0..MaxEvents
  BY LastIdType
<1> DEFINE line == [id |-> e, parent |-> LastId(s)]
<1>2. line \in Event /\ line.parent = LastId(s)
  BY <1>1 DEF Event
<1>3. LinkedBut(Append(s, line), loose)
  BY <1>2, LinkedAppend
<1>4. QED BY <1>3 DEF Extended

\* Every file that is or may become the ledger is linked but for the raced lines,
\* and a line under way that raced nobody names the last line of the ledger.
LinksInv ==
    /\ TypeInv /\ SharedTypes /\ Noted
    /\ CrossAuthorChain
    /\ \A p \in Procs : /\ LinkedBut(snap[p], overtaken \cup forked)
                        /\ LinkedBut(temps[p], overtaken \cup forked)
    /\ \A w \in Writers : tsPc[w] # "idle" =>
         \/ tsLine[w].id \in overtaken \cup forked
         \/ tsLine[w].parent = LastId(ledger)

LEMMA EmptyLinked == ASSUME NEW loose PROVE LinkedBut(<<>>, loose)
BY DEF LinkedBut

LEMMA StepLinksInv ==
    ASSUME LinksInv, [SharedNext]_sharedVars PROVE LinksInv'
<1> DEFINE loose == overtaken \cup forked
<1>0. TypeInv /\ SharedTypes /\ Noted /\ TypeOK /\ LinkedBut(ledger, loose)
  BY DEF LinksInv, TypeInv, CrossAuthorChain
<1>1. ASSUME NEW w \in Writers, TsRead(w) \/ TsRefuse(w) \/ TsOpen(w) \/ TsWrite(w)
      PROVE  LinksInv'
  <2>1. /\ TypeInv' /\ SharedTypes' /\ NoteOverlaps
        /\ UNCHANGED <<lock, temps, pc, job, snap, event, outcome, acked>>
        /\ \A v \in Writers : v # w => UNCHANGED <<tsPc[v], tsLine[v], tsCurrent[v]>>
        /\ ledger' = ledger
             \/ (TsWrite(w) /\ ledger' = Append(ledger, tsLine[w]) /\ tsLine[w] \in Event)
    BY <1>0, <1>1, WriterSteps
  <2>2. Noted' /\ loose \subseteq loose'
    BY <2>1, HistoryNotes
  <2>3. \A p \in Procs : LinkedBut(snap'[p], loose') /\ LinkedBut(temps'[p], loose')
    BY <2>1, <2>2, LinkedWeaker DEF LinksInv
  <2>4. LinkedBut(ledger', loose')
    <3>1. CASE ledger' = ledger
      BY <1>0, <2>2, <3>1, LinkedWeaker
    <3>2. CASE TsWrite(w) /\ ledger' = Append(ledger, tsLine[w]) /\ tsLine[w] \in Event
      <4>1. tsLine[w].id \in loose \/ tsLine[w].parent = LastId(ledger)
        BY <3>2 DEF LinksInv, TsWrite
      <4>2. LinkedBut(Append(ledger, tsLine[w]), loose)
        BY <1>0, <3>2, <4>1, LinkedAppend DEF TypeOK
      <4>3. QED BY <2>2, <3>2, <4>2, LinkedWeaker
    <3>3. QED BY <2>1, <3>1, <3>2
  <2>5. ASSUME NEW v \in Writers, tsPc'[v] # "idle"
        PROVE  tsLine'[v].id \in loose' \/ tsLine'[v].parent = LastId(ledger')
    <3>1. CASE v # w
      <4>1. UNCHANGED <<tsPc[v], tsLine[v]>>
        BY <2>1, <3>1
      <4>2. CASE ledger' = ledger
        BY <2>2, <2>5, <4>1, <4>2 DEF LinksInv
      <4>3. CASE TsWrite(w)
        <5>1. tsPc[w] # "idle" /\ tsPc[v] # "idle"
          BY <2>5, <4>1, <4>3 DEF TsWrite
        <5>2. tsLine[v].id \in forked
          BY <1>0, <3>1, <5>1 DEF Noted
        <5>3. QED BY <2>2, <4>1, <5>2
      <4>4. QED BY <2>1, <4>2, <4>3
    <3>2. CASE v = w /\ TsRead(w)
      <4>1. tsLine'[w] = [id |-> lastId + 1, parent |-> LastId(ledger)] /\ ledger' = ledger
        BY <1>0, <3>2 DEF TsRead, SharedTypes
      <4>2. QED BY <3>2, <4>1
    <3>3. CASE v = w /\ TsOpen(w)
      <4>1. tsLine' = tsLine /\ ledger' = ledger /\ tsPc[w] # "idle"
        BY <3>3 DEF TsOpen, vars
      <4>2. QED BY <2>2, <3>3, <4>1 DEF LinksInv
    <3>4. CASE v = w /\ (TsRefuse(w) \/ TsWrite(w))
      BY <1>0, <2>5, <3>4 DEF TsRefuse, TsWrite, SharedTypes
    <3>5. QED BY <1>1, <3>1, <3>2, <3>3, <3>4
  <2>6. QED BY <2>1, <2>2, <2>3, <2>4, <2>5 DEF LinksInv, CrossAuthorChain
<1>2. ASSUME NEW p \in Procs, SharedServe(p) \/ SharedAcquire(p) \/ SharedLocked(p)
      PROVE  LinksInv'
  <2>1. Next /\ NoteOverlaps /\ SharedTypes' /\ UNCHANGED <<tsPc, tsLine, tsAcked>>
    BY <1>0, <1>2, SupervisorSteps
  <2>2. TypeInv' /\ Noted' /\ loose \subseteq loose'
    BY <1>0, <2>1, StepTypeInv, HistoryNotes
  <2>3. \A q \in Procs : LinkedBut(snap[q], loose') /\ LinkedBut(temps[q], loose')
    BY <2>2, LinkedWeaker DEF LinksInv
  <2>4. LinkedBut(ledger, loose') /\ LinkedBut(<<>>, loose')
    BY <1>0, <2>2, LinkedWeaker, EmptyLinked
  <2>5. CASE UNCHANGED <<ledger, snap, temps>>
    BY <2>1, <2>2, <2>3, <2>4, <2>5 DEF LinksInv, CrossAuthorChain
  <2>6. CASE ReadLedger(p)
    <3>1. PICK seen \in {ledger, <<>>} : snap' = [snap EXCEPT ![p] = seen]
      BY <2>6 DEF ReadLedger
    <3>2. UNCHANGED <<ledger, temps>>
      BY <2>6 DEF ReadLedger
    <3>3. \A q \in Procs : snap'[q] = snap[q] \/ snap'[q] = seen
      BY <1>0, <3>1 DEF TypeOK
    <3>4. \A q \in Procs : LinkedBut(snap'[q], loose')
      BY <2>3, <2>4, <3>1, <3>3
    <3>5. QED BY <2>1, <2>2, <2>3, <2>4, <3>2, <3>4 DEF LinksInv, CrossAuthorChain
  <2>7. CASE WriteTemp(p)
    <3>1. snap[p] \in Seq(Event) /\ event[p] \in EventIds
      BY <1>0, <2>7 DEF WriteTemp, TypeInv, TypeOK, HasEvent, WritersAppend
    <3>2. LinkedBut(Extended(snap[p], event[p]), loose')
      BY <2>3, <3>1, LinkedExtended
    <3>3. \A q \in Procs : temps'[q] = temps[q] \/ temps'[q] = Extended(snap[p], event[p])
      BY <1>0, <2>7 DEF WriteTemp, TypeOK
    <3>4. UNCHANGED <<ledger, snap>>
      BY <2>7 DEF WriteTemp
    <3>5. QED BY <2>1, <2>2, <2>3, <2>4, <3>2, <3>3, <3>4 DEF LinksInv, CrossAuthorChain
  <2>8. CASE Rename(p)
    <3>1. ledger' = ledger \/ ledger' = temps[p]
      BY <2>8 DEF Rename
    <3>2. LinkedBut(ledger', loose')
      BY <2>3, <2>4, <3>1
    <3>3. \A q \in Procs : temps'[q] = temps[q] \/ temps'[q] = <<>>
      BY <1>0, <2>8 DEF Rename, TypeOK, NoTemp
    <3>4. snap' = snap
      BY <2>8 DEF Rename
    <3>5. Rewriting
      BY <2>8 DEF Rename, Rewriting
    <3>6. \A w \in Writers : tsPc'[w] # "idle" => tsLine'[w].id \in loose'
      BY <1>0, <2>1, <2>2, <3>5 DEF Noted
    <3>7. QED BY <2>1, <2>2, <2>3, <2>4, <3>2, <3>3, <3>4, <3>6 DEF LinksInv, CrossAuthorChain
  <2>9. CASE Recover(p)
    <3>1. \A q \in Procs : temps'[q] = <<>>
      BY <2>9 DEF Recover, NoTemp
    <3>2. UNCHANGED <<ledger, snap>>
      BY <2>9 DEF Recover
    <3>3. QED BY <2>1, <2>2, <2>3, <2>4, <3>1, <3>2 DEF LinksInv, CrossAuthorChain
  <2>10. QED
    BY <1>2, <2>5, <2>6, <2>7, <2>8, <2>9
    DEF SharedServe, SharedAcquire, SharedLocked, SharedRename, Request, AppendEvent, Respond,
        Crash, Acquire, CreateLock, JudgeStale, RemoveStale, RemoveFails, TimeOut, WritePid, Return
<1>3. CASE LockAges /\ Beside
  <2>1. /\ Next /\ NoteOverlaps /\ UNCHANGED <<ledger, snap, temps>>
        /\ UNCHANGED <<tsPc, tsLine, tsCurrent>>
    BY <1>3 DEF Next, Beside, LockAges, tsVars
  <2>2. TypeInv' /\ Noted' /\ SharedTypes' /\ loose \subseteq loose'
    BY <1>0, <2>1, StepTypeInv, HistoryNotes DEF SharedTypes
  <2>3. LinkedBut(ledger', loose')
        /\ \A q \in Procs : LinkedBut(snap'[q], loose') /\ LinkedBut(temps'[q], loose')
    BY <1>0, <2>1, <2>2, LinkedWeaker DEF LinksInv
  <2>4. QED BY <2>1, <2>2, <2>3 DEF LinksInv, CrossAuthorChain
<1>4. CASE UNCHANGED sharedVars
  <2>1. UNCHANGED vars
    BY <1>4 DEF sharedVars
  <2>2. TypeInv'
    BY <1>0, <2>1, StepTypeInv
  <2>3. QED
    BY <1>4, <2>2 DEF sharedVars, vars, tsVars, LinksInv, SharedTypes, Noted, Rewriting,
                      CrossAuthorChain
<1>5. QED BY <1>1, <1>2, <1>3, <1>4 DEF SharedNext

\* Whatever crashes, fails and races, the chain of the shared ledger breaks only at
\* TypeScript lines that ran beside a rewrite or beside each other.
THEOREM CrossAuthorAlwaysChain == SharedSpec => []CrossAuthorChain
<1>1. SharedInit => LinksInv
  BY InitShared, EmptyLinked DEF SharedInit, Init, LinksInv, CrossAuthorChain, NoTemp
<1>2. LinksInv /\ [SharedNext]_sharedVars => LinksInv'
  BY StepLinksInv
<1>3. LinksInv => CrossAuthorChain
  BY DEF LinksInv
<1>4. QED BY <1>1, <1>2, <1>3, PTL DEF SharedSpec


-----------------------------------------------------------------------------
(* What is acknowledged stays, across authors *)

IdsOf(s) == {s[i].id : i \in DOMAIN s}

\* What a supervisor at work read holds all that was acknowledged, but for the
\* lines its own rewrite overtakes.
KeptInv ==
    /\ LockInv /\ SharedTypes /\ Noted
    /\ SharedDurable
    /\ \A p \in Procs : pc[p] \in {"read", "temp"} =>
         acked \subseteq IdsOf(snap[p]) /\ tsAcked \subseteq IdsOf(snap[p]) \cup overtaken
    /\ \A p \in Procs : pc[p] = "temp" => temps[p] = Extended(snap[p], event[p])
    /\ \A p \in Procs : pc[p] = "closing" /\ job[p] = "append" => event[p] \in LedgerIds
    /\ \A w \in Writers : tsPc[w] = "open" /\ ~tsCurrent[w] => tsLine[w].id \in overtaken

LEMMA AppendIds ==
    ASSUME NEW s \in Seq(Event), NEW line \in Event
    PROVE  IdsOf(Append(s, line)) = IdsOf(s) \cup {line.id}
<1> DEFINE t == Append(s, line)
<1>1. /\ \A i \in 1..Len(s) : t[i] = s[i]
      /\ t[Len(s) + 1] = line
      /\ DOMAIN t = 1..(Len(s) + 1)
      /\ DOMAIN s = 1..Len(s)
      /\ Len(s) \in Nat
  OBVIOUS
<1>2. \A i \in DOMAIN s : i \in DOMAIN t /\ t[i].id = s[i].id
  BY <1>1
<1>3. Len(s) + 1 \in DOMAIN t /\ t[Len(s) + 1].id = line.id
  BY <1>1
<1>4. \A i \in DOMAIN t : i \in DOMAIN s \/ i = Len(s) + 1
  BY <1>1
<1>5. QED BY <1>2, <1>3, <1>4 DEF IdsOf

LEMMA StepKeptInv ==
    ASSUME OwnersSurvive, ReadsSucceed, KeptInv, [SharedNext]_sharedVars PROVE KeptInv'
<1>0. /\ LockInv /\ TypeInv /\ TypeOK /\ SharedTypes /\ Noted
      /\ LedgerIds = IdsOf(ledger)
      /\ acked \subseteq LedgerIds /\ tsAcked \subseteq LedgerIds \cup overtaken
  BY DEF KeptInv, LockInv, TypeInv, LedgerIds, IdsOf, SharedDurable, AckedDurable
<1>a. \A p, q \in Procs : pc[p] \in LockHeld /\ pc[q] \in LockHeld => p = q
  BY <1>0 DEF LockInv
<1>1. ASSUME NEW w \in Writers, TsRead(w) \/ TsRefuse(w) \/ TsOpen(w) \/ TsWrite(w)
      PROVE  KeptInv'
  <2>1. /\ TypeInv' /\ SharedTypes' /\ NoteOverlaps
        /\ UNCHANGED <<lock, temps, pc, job, snap, event, outcome, acked>>
        /\ \A v \in Writers : v # w => UNCHANGED <<tsPc[v], tsLine[v], tsCurrent[v]>>
        /\ ledger' = ledger
             \/ (TsWrite(w) /\ ledger' = Append(ledger, tsLine[w]) /\ tsLine[w] \in Event)
    BY <1>0, <1>1, WriterSteps
  <2>2. Noted' /\ overtaken \subseteq overtaken'
    BY <2>1, HistoryNotes
  <2>3. LockInv'
    BY <1>0, <2>1 DEF LockInv
  <2>4. LedgerIds' = IdsOf(ledger')
    BY DEF LedgerIds, IdsOf
  <2>5. LedgerIds \subseteq LedgerIds'
    <3>1. CASE ledger' = ledger
      BY <1>0, <2>4, <3>1
    <3>2. CASE ledger' = Append(ledger, tsLine[w]) /\ tsLine[w] \in Event
      <4>1. IdsOf(ledger') = IdsOf(ledger) \cup {tsLine[w].id}
        BY <1>0, <3>2, AppendIds DEF TypeOK
      <4>2. QED BY <1>0, <2>4, <4>1
    <3>3. QED BY <2>1, <3>1, <3>2
  <2>6. tsAcked' = tsAcked \/ (TsWrite(w) /\ tsAcked' = tsAcked \cup {tsLine[w].id})
    BY <1>1 DEF TsRead, TsRefuse, TsOpen, TsWrite
  <2>7. ASSUME TsWrite(w)
        PROVE  tsLine[w].id \in LedgerIds' \cup overtaken
    <3>1. CASE tsCurrent[w]
      <4>1. ledger' = Append(ledger, tsLine[w]) /\ tsLine[w] \in Event
        BY <1>0, <2>7, <3>1 DEF TsWrite, SharedTypes
      <4>2. IdsOf(ledger') = IdsOf(ledger) \cup {tsLine[w].id}
        BY <1>0, <4>1, AppendIds DEF TypeOK
      <4>3. QED BY <2>4, <4>2
    <3>2. CASE ~tsCurrent[w]
      BY <2>7, <3>2 DEF TsWrite, KeptInv
    <3>3. QED BY <3>1, <3>2
  <2>8. SharedDurable'
    BY <1>0, <2>1, <2>2, <2>5, <2>6, <2>7 DEF SharedDurable, AckedDurable
  <2>9. ASSUME NEW p \in Procs, pc'[p] \in {"read", "temp"}
        PROVE  acked' \subseteq IdsOf(snap'[p]) /\ tsAcked' \subseteq IdsOf(snap'[p]) \cup overtaken'
    <3>1. pc[p] \in {"read", "temp"} /\ snap'[p] = snap[p]
      BY <2>1, <2>9
    <3>2. acked \subseteq IdsOf(snap[p]) /\ tsAcked \subseteq IdsOf(snap[p]) \cup overtaken
      BY <3>1 DEF KeptInv
    <3>3. TsWrite(w) => tsLine[w].id \in overtaken
      BY <1>0, <3>1 DEF TsWrite, Noted, Rewriting
    <3>4. QED BY <2>1, <2>2, <2>6, <3>1, <3>2, <3>3
  <2>10. /\ \A p \in Procs : pc'[p] = "temp" => temps'[p] = Extended(snap'[p], event'[p])
         /\ \A p \in Procs : pc'[p] = "closing" /\ job'[p] = "append" => event'[p] \in LedgerIds'
    BY <2>1, <2>5 DEF KeptInv
  <2>11. ASSUME NEW v \in Writers, tsPc'[v] = "open", ~tsCurrent'[v]
         PROVE  tsLine'[v].id \in overtaken'
    <3>1. CASE v # w
      <4>1. UNCHANGED <<tsPc[v], tsLine[v], tsCurrent[v]>>
        BY <2>1, <3>1
      <4>2. QED BY <2>2, <2>11, <4>1 DEF KeptInv
    <3>2. CASE v = w
      BY <1>0, <1>1, <2>11, <3>2 DEF TsRead, TsRefuse, TsOpen, TsWrite, SharedTypes
    <3>3. QED BY <3>1, <3>2
  <2>12. QED BY <2>1, <2>2, <2>3, <2>8, <2>9, <2>10, <2>11 DEF KeptInv
<1>2. ASSUME NEW p \in Procs, SharedServe(p) \/ SharedAcquire(p) \/ SharedLocked(p)
      PROVE  KeptInv'
  <2>1. Next /\ NoteOverlaps /\ SharedTypes' /\ UNCHANGED <<tsPc, tsLine, tsAcked>>
    BY <1>0, <1>2, SupervisorSteps
  <2>2. LockInv' /\ Noted' /\ overtaken \subseteq overtaken'
    BY <1>0, <2>1, StepLockInv, HistoryNotes
  <2>3. CASE SharedRename(p)
    <3>1. /\ pc[p] = "temp" /\ temps[p] = Extended(snap[p], event[p])
          /\ snap[p] \in Seq(Event) /\ event[p] \in EventIds
          /\ acked \subseteq IdsOf(snap[p]) /\ tsAcked \subseteq IdsOf(snap[p]) \cup overtaken
      BY <1>0, <2>3
      DEF SharedRename, Rename, KeptInv, TypeInv, TypeOK, HasEvent, WritersAppend
    <3>2. temps[p] # NoTemp /\ IdsOf(temps[p]) = IdsOf(snap[p]) \cup {event[p]}
      <4>1. /\ Extended(snap[p], event[p]) # <<>>
            /\ IdsOf(Extended(snap[p], event[p])) = IdsOf(snap[p]) \cup {event[p]}
        BY <3>1, ExtendedIds DEF IdsOf
      <4>2. QED BY <3>1, <4>1 DEF NoTemp
    <3>3. ledger' = temps[p] /\ pc' = [pc EXCEPT ![p] = "closing"]
          /\ UNCHANGED <<job, event, acked>>
      BY <2>3, <3>2 DEF SharedRename, Rename, Goto
    <3>4. LedgerIds' = IdsOf(snap[p]) \cup {event[p]}
      BY <3>2, <3>3 DEF LedgerIds, IdsOf
    <3>5. \A q \in Procs : q # p => pc'[q] \notin LockHeld
      BY <1>0, <1>a, <3>1, <3>3 DEF LockHeld, TypeOK
    <3>6. pc'[p] = "closing"
      BY <1>0, <3>3 DEF TypeOK
    <3>7. /\ \A q \in Procs : pc'[q] \notin {"read", "temp"}
          /\ \A q \in Procs : pc'[q] = "closing" => q = p
      BY <3>5, <3>6 DEF LockHeld
    <3>8. SharedDurable'
      BY <2>1, <2>2, <3>1, <3>3, <3>4 DEF SharedDurable, AckedDurable
    <3>9. \A w \in Writers : tsPc'[w] = "open" => tsLine'[w].id \in overtaken'
      BY <1>0, <2>1, <2>2, <3>1 DEF Noted, Rewriting
    <3>10. QED BY <2>1, <2>2, <3>3, <3>4, <3>7, <3>8, <3>9 DEF KeptInv
  <2>4. CASE /\ ~SharedRename(p)
             /\ UNCHANGED <<ledger, tsCurrent>>
    <3>1. LedgerIds' = LedgerIds
      BY <2>4 DEF LedgerIds
    <3>2. \A w \in Writers : tsPc'[w] = "open" /\ ~tsCurrent'[w] => tsLine'[w].id \in overtaken'
      BY <2>1, <2>2, <2>4 DEF KeptInv
    <3>3. tsAcked' \subseteq LedgerIds' \cup overtaken'
      BY <1>0, <2>1, <2>2, <3>1
    <3>4. CASE ReadLedger(p)
      <4>1. /\ snap' = [snap EXCEPT ![p] = ledger] /\ pc' = [pc EXCEPT ![p] = "read"]
            /\ UNCHANGED <<temps, job, event, acked>> /\ pc[p] = "holding"
        BY <3>4 DEF ReadLedger, ReadsSucceed, Goto
      <4>2. \A q \in Procs : q # p => pc'[q] = pc[q] /\ snap'[q] = snap[q]
        BY <1>0, <4>1 DEF TypeOK
      <4>3. pc'[p] = "read" /\ snap'[p] = ledger
        BY <1>0, <4>1 DEF TypeOK
      <4>4. \A q \in Procs : pc'[q] \in {"read", "temp"} => q = p
        BY <1>a, <4>1, <4>2 DEF LockHeld
      <4>5. \A q \in Procs : pc'[q] \in {"read", "temp"} =>
              acked' \subseteq IdsOf(snap'[q]) /\ tsAcked' \subseteq IdsOf(snap'[q]) \cup overtaken'
        BY <1>0, <2>1, <2>2, <4>1, <4>3, <4>4
      <4>6. /\ \A q \in Procs : pc'[q] = "temp" => temps'[q] = Extended(snap'[q], event'[q])
            /\ \A q \in Procs : pc'[q] = "closing" /\ job'[q] = "append" => event'[q] \in LedgerIds'
        BY <3>1, <4>1, <4>2, <4>3 DEF KeptInv
      <4>7. QED BY <1>0, <2>1, <2>2, <3>1, <3>2, <3>3, <4>1, <4>5, <4>6
                DEF KeptInv, SharedDurable, AckedDurable
    <3>5. CASE WriteTemp(p)
      <4>1. /\ temps' = [temps EXCEPT ![p] = Extended(snap[p], event[p])]
            /\ pc' = [pc EXCEPT ![p] = "temp"] /\ pc[p] = "read"
            /\ UNCHANGED <<snap, job, event, acked>>
        BY <3>5 DEF WriteTemp, Goto
      <4>2. \A q \in Procs : q # p => pc'[q] = pc[q] /\ temps'[q] = temps[q]
        BY <1>0, <4>1 DEF TypeOK
      <4>3. pc'[p] = "temp" /\ temps'[p] = Extended(snap[p], event[p])
        BY <1>0, <4>1 DEF TypeOK
      <4>4. \A q \in Procs : pc'[q] \in {"read", "temp"} => pc[q] \in {"read", "temp"}
        BY <4>1, <4>2
      <4>5. \A q \in Procs : pc'[q] \in {"read", "temp"} =>
              acked' \subseteq IdsOf(snap'[q]) /\ tsAcked' \subseteq IdsOf(snap'[q]) \cup overtaken'
        BY <2>1, <2>2, <4>1, <4>4 DEF KeptInv
      <4>6. /\ \A q \in Procs : pc'[q] = "temp" => temps'[q] = Extended(snap'[q], event'[q])
            /\ \A q \in Procs : pc'[q] = "closing" /\ job'[q] = "append" => event'[q] \in LedgerIds'
        BY <3>1, <4>1, <4>2, <4>3 DEF KeptInv
      <4>7. QED BY <1>0, <2>1, <2>2, <3>1, <3>2, <3>3, <4>1, <4>5, <4>6
                DEF KeptInv, SharedDurable, AckedDurable
    <3>6. CASE Recover(p)
      <4>1. /\ pc' = [pc EXCEPT ![p] = "closing"] /\ pc[p] = "holding" /\ job[p] = "recover"
            /\ UNCHANGED <<snap, job, event, acked>>
        BY <3>6 DEF Recover, Goto
      <4>2. \A q \in Procs : q # p => pc'[q] \notin LockHeld
        BY <1>0, <1>a, <4>1 DEF LockHeld, TypeOK
      <4>3. pc'[p] = "closing" /\ job'[p] = "recover"
        BY <1>0, <4>1 DEF TypeOK
      <4>4. \A q \in Procs : pc'[q] \notin {"read", "temp"}
        BY <4>2, <4>3 DEF LockHeld
      <4>5. \A q \in Procs : ~(pc'[q] = "closing" /\ job'[q] = "append")
        BY <4>2, <4>3 DEF LockHeld
      <4>6. QED BY <1>0, <2>1, <2>2, <3>1, <3>2, <3>3, <4>1, <4>4, <4>5
                DEF KeptInv, SharedDurable, AckedDurable
    <3>7. CASE Return(p)
      <4>1. /\ pc[p] = "closing" /\ pc'[p] \in {"ready", "idle"}
            /\ \A q \in Procs : q # p => pc'[q] = pc[q]
            /\ UNCHANGED <<snap, temps, job, event>>
        BY <1>0, <3>7 DEF Return, Goto, TypeOK
      <4>2. acked' = acked \/ (job[p] = "append" /\ acked' = acked \cup {event[p]})
        BY <3>7 DEF Return
      <4>3. job[p] = "append" => event[p] \in LedgerIds
        BY <4>1 DEF KeptInv
      <4>4. acked' \subseteq LedgerIds'
        BY <1>0, <3>1, <4>2, <4>3
      <4>5. \A q \in Procs : q # p => pc'[q] \notin LockHeld
        BY <1>a, <4>1 DEF LockHeld
      <4>6. \A q \in Procs : pc'[q] \notin {"read", "temp", "closing"}
        BY <4>1, <4>5 DEF LockHeld
      <4>7. QED BY <2>1, <2>2, <3>2, <3>3, <4>4, <4>6
                DEF KeptInv, SharedDurable, AckedDurable
    <3>8. CASE /\ UNCHANGED <<temps, snap, acked>>
               /\ \A q \in Procs : pc'[q] \in {"read", "temp", "closing"} =>
                    pc'[q] = pc[q] /\ job'[q] = job[q] /\ event'[q] = event[q]
      <4>1. \A q \in Procs : pc'[q] \in {"read", "temp"} =>
              acked' \subseteq IdsOf(snap'[q]) /\ tsAcked' \subseteq IdsOf(snap'[q]) \cup overtaken'
        BY <2>1, <2>2, <3>8 DEF KeptInv
      <4>2. /\ \A q \in Procs : pc'[q] = "temp" => temps'[q] = Extended(snap'[q], event'[q])
            /\ \A q \in Procs : pc'[q] = "closing" /\ job'[q] = "append" => event'[q] \in LedgerIds'
        BY <3>1, <3>8 DEF KeptInv
      <4>3. QED BY <1>0, <2>1, <2>2, <3>1, <3>2, <3>3, <3>8, <4>1, <4>2
                DEF KeptInv, SharedDurable, AckedDurable
    <3>9. CASE SharedServe(p) \/ SharedAcquire(p) \/ WritePid(p)
      <4>1. UNCHANGED <<temps, snap, acked>>
        BY <3>9 DEF SharedServe, SharedAcquire, Request, AppendEvent, Respond, Crash, Acquire,
                    CreateLock, JudgeStale, RemoveStale, RemoveFails, TimeOut, WritePid
      <4>2. pc'[p] \notin {"read", "temp", "closing"}
        BY <1>0, <3>9
        DEF SharedServe, SharedAcquire, Request, AppendEvent, Respond, Crash, Acquire,
            CreateLock, JudgeStale, RemoveStale, RemoveFails, TimeOut, WritePid, Goto, TypeOK
      <4>3. \A q \in Procs : q # p => UNCHANGED <<pc[q], job[q], event[q]>>
        BY <1>0, <3>9
        DEF SharedServe, SharedAcquire, Request, AppendEvent, Respond, Crash, Acquire,
            CreateLock, JudgeStale, RemoveStale, RemoveFails, TimeOut, WritePid, Goto, TypeOK
      <4>4. QED BY <3>8, <4>1, <4>2, <4>3
    <3>10. QED
      BY <1>2, <2>4, <3>4, <3>5, <3>6, <3>7, <3>9 DEF SharedLocked
  <2>5. SharedRename(p) \/ UNCHANGED <<ledger, tsCurrent>>
    BY <1>2 DEF SharedServe, SharedAcquire, SharedLocked, Beside, tsVars, Request, AppendEvent,
                Respond, Crash, Acquire, CreateLock, JudgeStale, RemoveStale, RemoveFails,
                TimeOut, WritePid, ReadLedger, WriteTemp, Recover, Return
  <2>6. QED BY <2>3, <2>4, <2>5
<1>3. CASE LockAges /\ Beside
  BY <1>3 DEF LockAges, OwnersSurvive, KeptInv, LockInv
<1>4. CASE UNCHANGED sharedVars
  <2>1. LockInv'
    BY <1>0, <1>4, StepLockInv DEF sharedVars
  <2>2. QED
    BY <1>4, <2>1 DEF sharedVars, vars, tsVars, KeptInv, SharedTypes, Noted, Rewriting,
                      SharedDurable, AckedDurable, LedgerIds
<1>5. QED BY <1>1, <1>2, <1>3, <1>4 DEF SharedNext

\* Beside any number of writers without the lock, an acknowledged append stays in
\* the ledger; a line of the TypeScript author can be lost only if a supervisor
\* rewrote the ledger while it was under way.
THEOREM SharedAlwaysDurable ==
    ASSUME OwnersSurvive, ReadsSucceed PROVE SharedSpec => []SharedDurable
<1>1. SharedInit => KeptInv
  <2> SUFFICES ASSUME SharedInit PROVE KeptInv
    OBVIOUS
  <2>1. LockInv /\ SharedTypes /\ Noted
    BY InitLockInv, InitShared DEF SharedInit
  <2>2. QED BY <2>1 DEF SharedInit, Init, KeptInv, SharedDurable, AckedDurable
<1>2. KeptInv /\ [SharedNext]_sharedVars => KeptInv'
  BY StepKeptInv
<1>3. KeptInv => SharedDurable
  BY DEF KeptInv
<1>4. QED BY <1>1, <1>2, <1>3, PTL DEF SharedSpec
=============================================================================
