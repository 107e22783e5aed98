------------------------- MODULE RunManifestProofs -------------------------
(***************************************************************************)
(* Theorems about RunManifest, and about SupervisedRun, which extends it:  *)
(* for every set of clients, of commands, of crash points and of faults.   *)
(***************************************************************************)
EXTENDS SupervisedRun, SequenceTheorems, TLAPS

-----------------------------------------------------------------------------
(* Type correctness *)

CallType == [todo : Seq(EventTypes), late : Seq(EventTypes), done : Seq(Nat),
             served : BOOLEAN, accepted : BOOLEAN]

\* Event ids are positions in the ledger.
Indexed == \A i \in 1..Len(log) : log[i].id = i

\* A call returns ids of events that are in the ledger.
DoneInLog ==
    \A c \in Clients : \A i \in 1..Len(call[c].done) : call[c].done[i] \in 1..Len(log)

TypeInv == TypeOK /\ Indexed /\ DoneInLog

LEMMA InitTypeInv == Init => TypeInv
<1> SUFFICES ASSUME Init PROVE TypeInv
  OBVIOUS
<1>1. /\ <<>> \in Seq([id : Nat, type : EventTypes])
      /\ <<>> \in Seq(EventTypes)
      /\ <<>> \in Seq(Nat)
  BY EmptySeq
<1>2. Missing \in ManifestFiles
  BY <1>1 DEF Missing, Manifest, ManifestFiles
<1>3. NoCall \in CallType
  BY <1>1 DEF NoCall, CallType
<1>4. TypeOK
  BY <1>1, <1>2, <1>3 DEF Init, TypeOK, CallType, Points
<1>5. Indexed /\ DoneInLog
  BY DEF Init, Indexed, DoneInLog, NoCall
<1>6. QED BY <1>4, <1>5 DEF TypeInv

\* Appending a natural number to a sequence, and the manifest that lists it.
LEMMA RecordedType ==
    ASSUME NEW m \in ManifestFiles, NEW id \in Nat
    PROVE  Recorded(m, id) \in ManifestFiles
BY AppendProperties DEF Recorded, Manifest, ManifestFiles

\* The ids beyond a manifest are positions in the ledger.
LEMMA UnprojectedInLog ==
    ASSUME TypeInv, NEW c \in Clients
    PROVE  /\ Unprojected(c) \in Seq(Nat)
           /\ \A i \in 1..Len(Unprojected(c)) : Unprojected(c)[i] \in 1..Len(log)
<1> DEFINE n == Len(copy[c].ids)
           m == IF Len(log) > n THEN Len(log) - n ELSE 0
<1>1. n \in Nat /\ Len(log) \in Nat
  <2>1. copy[c] \in ManifestFiles
    BY DEF TypeInv, TypeOK
  <2>2. copy[c].ids \in Seq(Nat)
    BY <2>1 DEF ManifestFiles
  <2>3. log \in Seq([id : Nat, type : EventTypes])
    BY DEF TypeInv, TypeOK
  <2>4. QED BY <2>2, <2>3, LenProperties
<1>2. m \in Nat /\ \A i \in 1..m : n + i \in 1..Len(log)
  BY <1>1
<1>3. \A i \in 1..m : log[n + i].id \in 1..Len(log)
  BY <1>2 DEF TypeInv, Indexed
<1>4. Unprojected(c) = [i \in 1..m |-> log[n + i].id]
  BY DEF Unprojected
<1>5. Unprojected(c) \in [1..m -> 1..Len(log)]
  BY <1>3, <1>4
<1> HIDE DEF m
<1>6. Unprojected(c) \in Seq(1..Len(log))
  BY <1>2, <1>5, SeqDef, Zenon
<1>7. QED BY <1>1, <1>6, ElementOfSeq

\* Positions in the ledger have event types.
LEMMA TypesOfType ==
    ASSUME TypeInv, NEW ids \in Seq(Nat),
           \A i \in 1..Len(ids) : ids[i] \in 1..Len(log)
    PROVE  TypesOf(ids) \in Seq(EventTypes)
<1>1. \A i \in 1..Len(ids) : log[ids[i]].type \in EventTypes
  <2>1. \A j \in 1..Len(log) : log[j] \in [id : Nat, type : EventTypes]
    BY ElementOfSeq DEF TypeInv, TypeOK
  <2>2. QED BY <2>1
<1>2. Len(ids) \in Nat /\ DOMAIN ids = 1..Len(ids)
  OBVIOUS
<1>3. QED BY <1>1, <1>2 DEF TypesOf

\* The commands of the clients have steps, and steps have outcomes.
LEMMA StepTypes ==
    ASSUME TypeInv, NEW c \in Clients, ~Completing(c)
    PROVE  /\ Calls(c)[step[c]] \in Step
           /\ \A o \in Calls(c)[step[c]].outcomes : o \in Outcome
<1>1. command[c] \in Command
  BY RunManifestAssumption DEF TypeInv, TypeOK, RunManifestAssumption
<1>2. Calls(c) \in Seq(Step)
  BY <1>1 DEF Calls, Command
<1>3. step[c] \in 1..Len(Calls(c))
  BY <1>2 DEF TypeInv, TypeOK, Completing
<1>4. Calls(c)[step[c]] \in Step
  BY <1>2, <1>3, ElementOfSeq
<1>5. QED BY <1>4 DEF Step

\* Moving a client keeps pc and erred typed.
LEMMA MoveTypes ==
    ASSUME TypeOK, NEW c \in Clients, NEW point \in Points,
           Goto(c, point) \/ Throw(c)
    PROVE  pc' \in [Clients -> Points] /\ erred' \in [Clients -> BOOLEAN]
<1>1. CASE Goto(c, point)
  BY <1>1 DEF Goto, TypeOK
<1>2. CASE Throw(c)
  <2>1. PICK p \in Points : pc' = [pc EXCEPT ![c] = p]
    BY <1>2 DEF Throw, Points
  <2>2. QED BY <1>2, <2>1 DEF Throw, TypeOK
<1>3. QED BY <1>1, <1>2

\* The two ways a supervisor's side of a call changes other than by an append.
LEMMA StartTypes ==
    ASSUME TypeInv, NEW c \in Clients, ~Completing(c), StartCall(c)
    PROVE  /\ call' \in [Clients -> CallType]
           /\ \A d \in Clients : call'[d].done = call[d].done \/ call'[d].done = <<>>
<1>1. PICK o \in Calls(c)[step[c]].outcomes :
        call' = [call EXCEPT ![c].todo = o.events, ![c].done = <<>>,
                             ![c].served = TRUE, ![c].accepted = o.accepted]
  BY DEF StartCall
<1>2. o.events \in Seq(EventTypes) /\ o.accepted \in BOOLEAN
  BY <1>1, StepTypes DEF Outcome
<1>3. <<>> \in Seq(Nat)
  BY EmptySeq
<1>4. call \in [Clients -> CallType]
  BY DEF TypeInv, TypeOK, CallType
<1> DEFINE r == [call[c] EXCEPT !.todo = o.events, !.done = <<>>,
                                !.served = TRUE, !.accepted = o.accepted]
<1>5. r \in CallType /\ r.done = <<>>
  BY <1>2, <1>3, <1>4 DEF CallType
<1>6. call' = [call EXCEPT ![c] = r]
  BY <1>1
<1> HIDE DEF r
<1>7. QED BY <1>4, <1>5, <1>6

LEMMA StepTypeInv == TypeInv /\ [Next]_vars => TypeInv'
<1> SUFFICES ASSUME TypeInv, [Next]_vars PROVE TypeInv'
  OBVIOUS
<1>a. TypeOK /\ Indexed /\ DoneInLog /\ call \in [Clients -> CallType]
  BY DEF TypeInv, TypeOK, CallType
<1>b. <<>> \in Seq(Nat) /\ <<>> \in Seq(EventTypes)
  BY EmptySeq
<1>c. Torn \in ManifestFiles /\ Fresh \in ManifestFiles
  BY <1>b DEF Torn, Fresh, Manifest, ManifestFiles
\* Steps that leave the ledger, and what the supervisors return, alone.
<1>d. ASSUME UNCHANGED <<log, call>>, TypeOK' PROVE TypeInv'
  BY <1>a, <1>d DEF TypeInv, Indexed, DoneInLog
<1>1. ASSUME NEW c \in Clients, CheckMissing(c) PROVE TypeInv'
  <2>1. pc' \in [Clients -> Points] /\ erred' \in [Clients -> BOOLEAN]
    BY <1>a, <1>1, MoveTypes, "write" \in Points DEF CheckMissing, GotoIf, Points
  <2>2. next' \in [Clients -> ManifestFiles]
    BY <1>a, <1>c, <1>1 DEF CheckMissing, TypeOK
  <2>3. TypeOK'
    BY <1>a, <1>1, <2>1, <2>2 DEF CheckMissing, TypeOK
  <2>4. QED BY <1>d, <1>1, <2>3 DEF CheckMissing
<1>2. ASSUME NEW c \in Clients, Open(c) PROVE TypeInv'
  <2>1. pc' \in [Clients -> Points] /\ erred' \in [Clients -> BOOLEAN]
    BY <1>a, <1>2, MoveTypes, "ready" \in Points DEF Open, GotoIf, Points
  <2>2. TypeOK'
    BY <1>a, <1>2, <2>1 DEF Open, TypeOK
  <2>3. QED BY <1>d, <1>2, <2>2 DEF Open
<1>3. ASSUME NEW c \in Clients, Truncate(c) PROVE TypeInv'
  <2>1. TypeOK'
    BY <1>a, <1>c, <1>3 DEF Truncate, Goto, TypeOK, Points
  <2>2. QED BY <1>d, <1>3, <2>1 DEF Truncate
<1>4. ASSUME NEW c \in Clients, Write(c) PROVE TypeInv'
  <2>1. PICK point \in Points : Goto(c, point)
    BY <1>4 DEF Write, Points
  <2>2. pc' \in [Clients -> Points] /\ erred' \in [Clients -> BOOLEAN]
    BY <1>a, <2>1, MoveTypes
  <2>3. file' \in ManifestFiles /\ copy' \in [Clients -> ManifestFiles]
    BY <1>a, <1>c, <1>4 DEF Write, TypeOK
  <2>4. TypeOK'
    BY <1>a, <1>4, <2>2, <2>3 DEF Write, TypeOK
  <2>5. QED BY <1>d, <1>4, <2>4 DEF Write
<1>5. ASSUME NEW c \in Clients, CallLocked(c) \/ Call(c) PROVE TypeInv'
  <2>1. StartCall(c) /\ ~Completing(c)
    BY <1>5 DEF CallLocked, Call
  <2>2. /\ call' \in [Clients -> CallType]
        /\ \A d \in Clients : call'[d].done = call[d].done \/ call'[d].done = <<>>
    BY <2>1, StartTypes
  <2>3. pc' \in [Clients -> Points] /\ erred' \in [Clients -> BOOLEAN]
    BY <1>a, <2>1, MoveTypes, "rpc" \in Points DEF StartCall, Points
  <2>4. lock' \in Clients \cup {"none"}
    BY <1>a, <1>5 DEF CallLocked, Call, TypeOK
  <2>5. TypeOK'
    BY <1>a, <2>1, <2>2, <2>3, <2>4 DEF StartCall, TypeOK, CallType
  <2>6. Indexed'
    BY <1>a, <2>1 DEF StartCall, Indexed
  <2>7. DoneInLog'
    <3>1. log' = log
      BY <2>1 DEF StartCall
    <3>2. QED BY <1>a, <2>2, <3>1 DEF DoneInLog
  <2>8. QED BY <2>5, <2>6, <2>7 DEF TypeInv
<1>6. ASSUME NEW c \in Clients, Reply(c) PROVE TypeInv'
  <2>1. PICK point \in Points : Goto(c, point) \/ Throw(c)
    BY <1>6 DEF Reply, GotoIf, Points
  <2>2. pc' \in [Clients -> Points] /\ erred' \in [Clients -> BOOLEAN]
    BY <1>a, <2>1, MoveTypes
  <2>3. call[c].done \in Seq(Nat)
    BY <1>a DEF CallType
  <2>4. TypeOK'
    BY <1>a, <1>6, <2>2, <2>3 DEF Reply, TypeOK
  <2>5. QED BY <1>d, <1>6, <2>4 DEF Reply
<1>7. ASSUME NEW c \in Clients, ChildReply(c) PROVE TypeInv'
  <2> DEFINE ids == IF call[c].served THEN call[c].done ELSE Unprojected(c)
  <2>1. pc' \in [Clients -> Points] /\ erred' \in [Clients -> BOOLEAN]
    BY <1>a, <1>7, MoveTypes, "record" \in Points DEF ChildReply, Points
  <2>2. ids \in Seq(Nat) /\ \A i \in 1..Len(ids) : ids[i] \in 1..Len(log)
    <3>1. CASE call[c].served
      BY <1>a, <3>1 DEF CallType, DoneInLog
    <3>2. CASE ~call[c].served
      BY <3>2, UnprojectedInLog
    <3>3. QED BY <3>1, <3>2
  <2>3. TypesOf(ids) \in Seq(EventTypes)
    BY <2>2, TypesOfType
  <2>4. /\ pending' = [pending EXCEPT ![c] = ids]
        /\ observed' = [observed EXCEPT ![c] = TypesOf(ids)]
    BY <1>7 DEF ChildReply
  <2>5. pending' \in [Clients -> Seq(Nat)] /\ observed' \in [Clients -> Seq(EventTypes)]
    <3> HIDE DEF ids
    <3>1. QED BY <1>a, <2>2, <2>3, <2>4 DEF TypeOK
  <2>6. TypeOK'
    BY <1>a, <1>7, <2>1, <2>5 DEF ChildReply, TypeOK
  <2>7. QED BY <1>d, <1>7, <2>6 DEF ChildReply
<1>8. ASSUME NEW c \in Clients, Lock(c) PROVE TypeInv'
  <2>1. TypeOK'
    BY <1>a, <1>8 DEF Lock, Goto, TypeOK, Points
  <2>2. QED BY <1>d, <1>8, <2>1 DEF Lock
<1>9. ASSUME NEW c \in Clients, LockBusy(c) PROVE TypeInv'
  <2>1. pc' \in [Clients -> Points] /\ erred' \in [Clients -> BOOLEAN]
    BY <1>a, <1>9, MoveTypes, "failed" \in Points DEF LockBusy, Points
  <2>2. TypeOK'
    BY <1>a, <1>9, <2>1 DEF LockBusy, TypeOK
  <2>3. QED BY <1>d, <1>9, <2>2 DEF LockBusy
<1>10. ASSUME NEW c \in Clients, Unlock(c) PROVE TypeInv'
  <2>1. PICK point \in Points : pc' = [pc EXCEPT ![c] = point]
    BY <1>10 DEF Unlock, Points
  <2>2. pc' \in [Clients -> Points]
    BY <1>a, <2>1 DEF TypeOK
  <2>3. PICK s \in Seq(Nat) : pending' = [pending EXCEPT ![c] = s]
    <3>1. pending[c] \in Seq(Nat)
      BY <1>a DEF TypeOK
    <3>2. pending[c] # <<>> => Tail(pending[c]) \in Seq(Nat)
      BY <3>1, HeadTailProperties
    <3>3. pending' = [pending EXCEPT ![c] =
                        IF pending[c] = <<>> THEN pending[c] ELSE Tail(pending[c])]
      BY <1>10 DEF Unlock
    <3>4. QED BY <3>1, <3>2, <3>3
  <2>4. pending' \in [Clients -> Seq(Nat)]
    BY <1>a, <2>3 DEF TypeOK
  <2>5. TypeOK'
    BY <1>a, <1>10, <2>2, <2>4 DEF Unlock, TypeOK
  <2>6. QED BY <1>d, <1>10, <2>5 DEF Unlock
<1>11. ASSUME NEW c \in Clients, Load(c) \/ LoadForCheck(c) PROVE TypeInv'
  <2>1. PICK point \in Points : Goto(c, point) \/ Throw(c)
    BY <1>11 DEF Load, LoadForCheck, GotoIf, Points
  <2>2. pc' \in [Clients -> Points] /\ erred' \in [Clients -> BOOLEAN]
    BY <1>a, <2>1, MoveTypes
  <2>3. TypeOK'
    BY <1>a, <1>11, <2>2 DEF Load, LoadForCheck, TypeOK
  <2>4. QED BY <1>d, <1>11, <2>3 DEF Load, LoadForCheck
<1>12. ASSUME NEW c \in Clients, VerifyNext(c) PROVE TypeInv'
  <2>1. pc' \in [Clients -> Points] /\ erred' \in [Clients -> BOOLEAN]
    BY <1>a, <1>12, MoveTypes, "verified" \in Points DEF VerifyNext, GotoIf, Points
  <2>2. CASE next' = next
    <3>1. TypeOK'
      BY <1>a, <1>12, <2>1, <2>2 DEF VerifyNext, TypeOK
    <3>2. QED BY <1>d, <1>12, <3>1 DEF VerifyNext
  <2>3. CASE /\ NextInLog(loaded[c], Head(pending[c]))
             /\ next' = [next EXCEPT ![c] = Recorded(loaded[c], Head(pending[c]))]
    <3>1. loaded[c] \in ManifestFiles
      BY <1>a DEF TypeOK
    <3>2. Len(loaded[c].ids) + 1 \in 1..Len(log)
      <4>1. Len(loaded[c].ids) \in Nat /\ Len(log) \in Nat
        BY <1>a, <3>1, LenProperties DEF ManifestFiles, TypeOK
      <4>2. QED BY <2>3, <4>1 DEF NextInLog
    <3>3. Head(pending[c]) \in Nat
      BY <1>a, <2>3, <3>2 DEF NextInLog, Indexed
    <3>4. Recorded(loaded[c], Head(pending[c])) \in ManifestFiles
      BY <3>1, <3>3, RecordedType
    <3>5. next' \in [Clients -> ManifestFiles]
      BY <1>a, <2>3, <3>4 DEF TypeOK
    <3>6. TypeOK'
      BY <1>a, <1>12, <2>1, <3>5 DEF VerifyNext, TypeOK
    <3>7. QED BY <1>d, <1>12, <3>6 DEF VerifyNext
  <2>4. QED BY <1>12, <2>2, <2>3 DEF VerifyNext
<1>13. ASSUME NEW c \in Clients, VerifyAll(c) PROVE TypeInv'
  <2>1. pc' \in [Clients -> Points] /\ erred' \in [Clients -> BOOLEAN]
    BY <1>a, <1>13, MoveTypes, "verified" \in Points DEF VerifyAll, GotoIf, Points
  <2>2. command[c].final \in {"completed", "blocked"}
    <3>1. command[c] \in Command
      BY <1>a, RunManifestAssumption DEF TypeOK, RunManifestAssumption
    <3>2. QED BY <3>1 DEF Command
  <2>3. loaded[c] \in ManifestFiles
    BY <1>a DEF TypeOK
  <2>4. Manifest(loaded[c].generation + 1, loaded[c].ids, command[c].final) \in ManifestFiles
    BY <2>2, <2>3 DEF Manifest, ManifestFiles
  <2>5. next' \in [Clients -> ManifestFiles]
    BY <1>a, <1>13, <2>4 DEF VerifyAll, TypeOK
  <2>6. TypeOK'
    BY <1>a, <1>13, <2>1, <2>5 DEF VerifyAll, TypeOK
  <2>7. QED BY <1>d, <1>13, <2>6 DEF VerifyAll
<1>14. ASSUME NEW c \in Clients, Recheck(c) PROVE TypeInv'
  <2>1. pc' \in [Clients -> Points] /\ erred' \in [Clients -> BOOLEAN]
    BY <1>a, <1>14, MoveTypes, "write" \in Points DEF Recheck, GotoIf, Points
  <2>2. TypeOK'
    BY <1>a, <1>14, <2>1 DEF Recheck, TypeOK
  <2>3. QED BY <1>d, <1>14, <2>2 DEF Recheck
<1>15. ASSUME NEW c \in Clients, CallRecorded(c) PROVE TypeInv'
  <2>1. pc' \in [Clients -> Points] /\ erred' \in [Clients -> BOOLEAN]
    BY <1>a, <1>15, MoveTypes, "ready" \in Points DEF CallRecorded, GotoIf, Points
  <2>2. step' \in [Clients -> Nat \ {0}]
    BY SMTT(30), <1>a, <1>15 DEF CallRecorded, TypeOK
  <2>3. TypeOK'
    BY <1>a, <1>15, <2>1, <2>2 DEF CallRecorded, TypeOK
  <2>4. QED BY <1>d, <1>15, <2>3 DEF CallRecorded
<1>16. ASSUME NEW c \in Clients, CheckSequence(c) PROVE TypeInv'
  <2>1. pc' \in [Clients -> Points] /\ erred' \in [Clients -> BOOLEAN]
    BY <1>a, <1>16, MoveTypes, "complete" \in Points DEF CheckSequence, GotoIf, Points
  <2>2. copy' \in [Clients -> ManifestFiles]
    BY <1>a, <1>16 DEF CheckSequence, TypeOK
  <2>3. TypeOK'
    BY <1>a, <1>16, <2>1, <2>2 DEF CheckSequence, TypeOK
  <2>4. QED BY <1>d, <1>16, <2>3 DEF CheckSequence
<1>17. ASSUME NEW c \in Clients, Serve(c) PROVE TypeInv'
  <2>1. PICK part \in {"todo", "late"} :
          /\ call[c][part] # <<>>
          /\ log' = Append(log, [id |-> Len(log) + 1, type |-> Head(call[c][part])])
          /\ call' = [call EXCEPT
               ![c][part] = Tail(@),
               ![c].done = IF part = "todo" THEN Append(@, Len(log) + 1) ELSE @]
          /\ UNCHANGED <<command, file, lock, pc, step, pending, observed, copy, loaded, next, erred>>
    BY <1>17 DEF Serve
  <2> DEFINE e == [id |-> Len(log) + 1, type |-> Head(call[c][part])]
  <2>2. call[c][part] \in Seq(EventTypes)
    BY <1>a, <2>1 DEF CallType
  <2>3. /\ Head(call[c][part]) \in EventTypes
        /\ Tail(call[c][part]) \in Seq(EventTypes)
    BY <2>1, <2>2, HeadTailProperties
  <2>4. log \in Seq([id : Nat, type : EventTypes]) /\ Len(log) \in Nat
    BY <1>a DEF TypeOK
  <2>5. e \in [id : Nat, type : EventTypes]
    BY <2>3, <2>4
  <2>6. /\ log' \in Seq([id : Nat, type : EventTypes])
        /\ Len(log') = Len(log) + 1
        /\ \A i \in 1..Len(log) : log'[i] = log[i]
        /\ log'[Len(log) + 1] = e
    <3> HIDE DEF e
    <3>1. log' = Append(log, e)
      BY <2>1 DEF e
    <3>2. QED BY <2>4, <2>5, <3>1, AppendProperties
  <2>7. Indexed'
    BY SMTT(30), <1>a, <2>4, <2>6 DEF Indexed
  <2>8. Append(call[c].done, Len(log) + 1) \in Seq(Nat)
    BY <1>a, <2>4, AppendProperties DEF CallType
  <2>9. call' \in [Clients -> CallType]
    <3>1. CASE part = "todo"
      <4> DEFINE r == [call[c] EXCEPT !.todo = Tail(@), !.done = Append(@, Len(log) + 1)]
      <4>1. r \in CallType
        BY <1>a, <2>3, <2>8, <3>1 DEF CallType
      <4>2. call' = [call EXCEPT ![c] = r]
        BY <2>1, <3>1
      <4> HIDE DEF r
      <4>3. QED BY <1>a, <4>1, <4>2
    <3>2. CASE part = "late"
      <4> DEFINE r == [call[c] EXCEPT !.late = Tail(@)]
      <4>1. r \in CallType
        BY <1>a, <2>3, <3>2 DEF CallType
      <4>2. call' = [call EXCEPT ![c] = r]
        BY <1>a, <2>1, <3>2 DEF CallType
      <4> HIDE DEF r
      <4>3. QED BY <1>a, <4>1, <4>2
    <3>3. QED BY <3>1, <3>2
  <2>10. \A d \in Clients : call'[d].done \in {call[d].done, Append(call[d].done, Len(log) + 1)}
    <3>1. CASE part = "todo"
      BY <1>a, <2>1, <3>1 DEF CallType
    <3>2. CASE part = "late"
      BY <1>a, <2>1, <3>2 DEF CallType
    <3>3. QED BY <3>1, <3>2
  <2>11. DoneInLog'
    <3>1. ASSUME NEW d \in Clients, NEW i \in 1..Len(call'[d].done)
          PROVE  call'[d].done[i] \in 1..(Len(log) + 1)
      <4>1. call[d].done \in Seq(Nat) /\ \A j \in 1..Len(call[d].done) : call[d].done[j] \in 1..Len(log)
        BY <1>a DEF CallType, DoneInLog
      <4>2. CASE call'[d].done = call[d].done
        BY <3>1, <4>1, <4>2, <2>4
      <4>3. CASE call'[d].done = Append(call[d].done, Len(log) + 1)
        BY <3>1, <4>1, <4>3, <2>4
      <4>4. QED BY <2>10, <4>2, <4>3
    <3>2. QED BY <2>6, <3>1 DEF DoneInLog
  <2>12. TypeOK'
    BY <1>a, <2>1, <2>6, <2>9 DEF TypeOK, CallType
  <2>13. QED BY <2>7, <2>11, <2>12 DEF TypeInv
<1>18. ASSUME NEW c \in Clients, ServeFails(c) \/ ChildTimeOut(c) \/ TimeOut(c) PROVE TypeInv'
  <2>1. /\ call' \in [Clients -> CallType]
        /\ \A d \in Clients : call'[d].done = call[d].done
    <3>1. CASE ServeFails(c)
      BY ZenonT(30), <1>a, <1>b, <3>1 DEF ServeFails, CallType
    <3>2. CASE ChildTimeOut(c)
      BY <1>a, <1>b, <3>2 DEF ChildTimeOut, CallType
    <3>3. CASE TimeOut(c)
      BY <1>a, <1>b, <3>3 DEF TimeOut, CallType
    <3>4. QED BY <1>18, <3>1, <3>2, <3>3
  <2>2. pc' \in [Clients -> Points] /\ erred' \in [Clients -> BOOLEAN]
    <3>1. CASE TimeOut(c)
      BY <1>a, <3>1, MoveTypes, "failed" \in Points DEF TimeOut, Points
    <3>2. CASE ~TimeOut(c)
      BY <1>a, <1>18, <3>2 DEF ServeFails, ChildTimeOut, TypeOK
    <3>3. QED BY <3>1, <3>2
  <2>3. UNCHANGED <<command, log, file, lock, step, pending, observed, copy, loaded, next>>
    BY <1>18 DEF ServeFails, ChildTimeOut, TimeOut
  <2>4. TypeOK'
    BY <1>a, <2>1, <2>2, <2>3 DEF TypeOK, CallType
  <2>5. Indexed' /\ DoneInLog'
    BY <1>a, <2>1, <2>3 DEF Indexed, DoneInLog
  <2>6. QED BY <2>4, <2>5 DEF TypeInv
<1>19. ASSUME NEW c \in Clients, Crash(c) PROVE TypeInv'
  <2>1. TypeOK'
    BY <1>a, <1>19 DEF Crash, Goto, TypeOK, Points
  <2>2. QED BY <1>d, <1>19, <2>1 DEF Crash
<1>20. CASE UNCHANGED vars
  BY <1>a, <1>20 DEF vars, TypeInv, TypeOK, Indexed, DoneInLog
<1>21. QED
  BY <1>1, <1>2, <1>3, <1>4, <1>5, <1>6, <1>7, <1>8, <1>9, <1>10, <1>11, <1>12, <1>13,
     <1>14, <1>15, <1>16, <1>17, <1>18, <1>19, <1>20 DEF Next, ClientStep

\* Every reachable state is well typed, whatever the commands, crashes and faults.
THEOREM TypeCorrect == Spec => []TypeOK
<1>1. TypeInv => TypeOK
  BY DEF TypeInv
<1>2. QED BY InitTypeInv, StepTypeInv, <1>1, PTL DEF Spec

-----------------------------------------------------------------------------
(* The manifest is a projection of the ledger, whoever races *)

\* Neither the lock nor the generation is what keeps the file a prefix of the
\* ledger: every manifest on its way to the file was compared with the ledger
\* (or is empty), and the ledger only grows.
WritesPrefix ==
    \A c \in Clients :
        pc[c] \in {"verified", "write", "writing"} => PrefixOfLog(next[c].ids)

PrefixInv == TypeInv /\ ProjectionIsPrefix /\ WritesPrefix

LEMMA InitPrefixInv == Init => PrefixInv
<1> SUFFICES ASSUME Init PROVE PrefixInv
  OBVIOUS
<1>1. TypeInv
  BY InitTypeInv
<1>2. ProjectionIsPrefix
  BY DEF Init, ProjectionIsPrefix, Missing, Manifest, Readable
<1>3. WritesPrefix
  BY DEF Init, WritesPrefix
<1>4. QED BY <1>1, <1>2, <1>3 DEF PrefixInv

\* No event is a prefix of every ledger.
LEMMA EmptyIsPrefix == TypeInv => PrefixOfLog(<<>>)
<1> SUFFICES ASSUME TypeInv PROVE PrefixOfLog(<<>>)
  OBVIOUS
<1>1. Len(log) \in Nat
  BY LenProperties DEF TypeInv, TypeOK
<1>2. QED BY <1>1 DEF PrefixOfLog

\* The ids of a manifest with the next event of the ledger.
LEMMA RecordedIsPrefix ==
    ASSUME TypeInv, NEW m \in ManifestFiles, NEW id,
           PrefixOfLog(m.ids), NextInLog(m, id)
    PROVE  PrefixOfLog(Recorded(m, id).ids)
<1>1. m.ids \in Seq(Nat) /\ Len(m.ids) \in Nat /\ Len(log) \in Nat
  <2>1. m.ids \in Seq(Nat) /\ log \in Seq([id : Nat, type : EventTypes])
    BY DEF ManifestFiles, TypeInv, TypeOK
  <2>2. QED BY <2>1, LenProperties
<1>2. Len(m.ids) + 1 \in 1..Len(log) /\ log[Len(m.ids) + 1].id = id
  BY <1>1 DEF NextInLog
<1>3. id \in Nat
  BY <1>1, <1>2 DEF TypeInv, Indexed
<1>4. Recorded(m, id).ids = Append(m.ids, id)
  BY DEF Recorded, Manifest
<1>5. /\ Len(Append(m.ids, id)) = Len(m.ids) + 1
      /\ \A i \in 1..Len(m.ids) : Append(m.ids, id)[i] = m.ids[i]
      /\ Append(m.ids, id)[Len(m.ids) + 1] = id
  BY <1>1, <1>3, AppendProperties
<1>6. QED BY <1>1, <1>2, <1>4, <1>5 DEF PrefixOfLog

\* The ledger only grows, so a prefix of it stays one.
LEMMA PrefixStays ==
    ASSUME TypeInv, NEW c \in Clients, Serve(c), NEW ids \in Seq(Nat), PrefixOfLog(ids)
    PROVE  PrefixOfLog(ids)'
<1>1. PICK e : log' = Append(log, e)
  BY DEF Serve
<1>2. log \in Seq([id : Nat, type : EventTypes]) /\ Len(log) \in Nat /\ Len(ids) \in Nat
  BY LenProperties DEF TypeInv, TypeOK
<1>3. Len(log') = Len(log) + 1 /\ \A i \in 1..Len(log) : log'[i] = log[i]
  BY <1>1, <1>2
<1>4. Len(ids) <= Len(log) /\ \A i \in 1..Len(ids) : ids[i] = log[i].id
  BY DEF PrefixOfLog
<1>5. Len(ids) <= Len(log') /\ \A i \in 1..Len(ids) : i \in 1..Len(log)
  BY <1>2, <1>3, <1>4
<1>6. \A i \in 1..Len(ids) : ids[i] = log'[i].id
  BY <1>3, <1>4, <1>5
<1>7. QED BY <1>5, <1>6 DEF PrefixOfLog

LEMMA StepPrefixInv == PrefixInv /\ [Next]_vars => PrefixInv'
<1> SUFFICES ASSUME PrefixInv, [Next]_vars PROVE PrefixInv'
  OBVIOUS
<1>0. TypeInv /\ TypeInv'
  BY StepTypeInv DEF PrefixInv
<1>a. /\ pc \in [Clients -> Points]
      /\ next \in [Clients -> ManifestFiles]
      /\ file \in ManifestFiles
  BY <1>0 DEF TypeInv, TypeOK
<1>b. log' = log => \A ids : PrefixOfLog(ids)' <=> PrefixOfLog(ids)
  BY DEF PrefixOfLog
\* Steps after which no client that was not about to write is.
<1>c. ASSUME UNCHANGED <<log, file>>,
             \A c \in Clients : pc'[c] \in {"verified", "write", "writing"} =>
               \/ pc[c] \in {"verified", "write", "writing"} /\ next'[c] = next[c]
               \/ PrefixOfLog(next'[c].ids)
      PROVE  PrefixInv'
  <2>1. ProjectionIsPrefix'
    BY <1>b, <1>c DEF PrefixInv, ProjectionIsPrefix
  <2>2. WritesPrefix'
    BY <1>b, <1>c DEF PrefixInv, WritesPrefix
  <2>3. QED BY <1>0, <2>1, <2>2 DEF PrefixInv
\* Steps that write no manifest and bring no client to the write.
<1>d. ASSUME UNCHANGED <<log, file, next>>, NEW c \in Clients, NEW point,
             point \notin {"verified", "write", "writing"},
             pc' = [pc EXCEPT ![c] = point]
      PROVE  PrefixInv'
  <2>1. \A d \in Clients : pc'[d] = point \/ pc'[d] = pc[d]
    BY <1>a, <1>d
  <2>2. QED BY <1>c, <1>d, <2>1
<1>e. ASSUME UNCHANGED <<log, file, next, pc>> PROVE PrefixInv'
  BY <1>c, <1>e
<1>1. ASSUME NEW c \in Clients, CheckMissing(c) PROVE PrefixInv'
  <2>1. PrefixOfLog(Fresh.ids)
    BY <1>0, EmptyIsPrefix DEF Fresh, Manifest
  <2>2. next' = [next EXCEPT ![c] = Fresh] /\ UNCHANGED <<log, file>>
    BY <1>1 DEF CheckMissing
  <2>3. PICK point : pc' = [pc EXCEPT ![c] = point]
    BY <1>1 DEF CheckMissing, GotoIf, Goto, Throw
  <2>4. \A d \in Clients : d # c => pc'[d] = pc[d] /\ next'[d] = next[d]
    BY <1>a, <2>2, <2>3
  <2>5. next'[c] = Fresh
    BY <1>a, <2>2
  <2>6. QED BY <1>c, <2>1, <2>2, <2>4, <2>5
<1>2. ASSUME NEW c \in Clients, Truncate(c) PROVE PrefixInv'
  <2>1. ProjectionIsPrefix'
    BY <1>2 DEF Truncate, ProjectionIsPrefix, Readable, Torn, Manifest
  <2>2. \A d \in Clients : pc'[d] = pc[d] \/ (d = c /\ pc[d] = "write")
    BY <1>a, <1>2 DEF Truncate, Goto
  <2>3. WritesPrefix'
    BY <1>b, <1>2, <2>2 DEF PrefixInv, WritesPrefix, Truncate
  <2>4. QED BY <1>0, <2>1, <2>3 DEF PrefixInv
<1>3. ASSUME NEW c \in Clients, Write(c) PROVE PrefixInv'
  <2>1. pc[c] = "writing" /\ PrefixOfLog(next[c].ids) /\ UNCHANGED <<log, next>>
    BY <1>3 DEF Write, PrefixInv, WritesPrefix
  <2>2. file' = Torn \/ file' = next[c]
    BY <1>3 DEF Write
  <2>3. ProjectionIsPrefix'
    <3>1. CASE file' = Torn
      BY <3>1 DEF ProjectionIsPrefix, Readable, Torn, Manifest
    <3>2. CASE file' = next[c]
      BY <1>b, <2>1, <3>2 DEF ProjectionIsPrefix
    <3>3. QED BY <2>2, <3>1, <3>2
  <2>4. \A d \in Clients : pc'[d] = pc[d] \/ pc'[d] \in {"unlock", "ready"}
    BY <1>a, <1>3 DEF Write, Goto
  <2>5. WritesPrefix'
    BY <1>b, <2>1, <2>4 DEF PrefixInv, WritesPrefix
  <2>6. QED BY <1>0, <2>3, <2>5 DEF PrefixInv
<1>4. ASSUME NEW c \in Clients, VerifyNext(c) PROVE PrefixInv'
  <2>1. PICK point : pc' = [pc EXCEPT ![c] = point]
    BY <1>4 DEF VerifyNext, GotoIf, Goto, Throw
  <2>2. UNCHANGED <<log, file>>
    BY <1>4 DEF VerifyNext
  <2>3. CASE /\ PrefixOfLog(loaded[c].ids)
             /\ NextInLog(loaded[c], Head(pending[c]))
    <3>1. next' = [next EXCEPT ![c] = Recorded(loaded[c], Head(pending[c]))]
      BY <1>4, <2>3 DEF VerifyNext
    <3>2. loaded[c] \in ManifestFiles
      BY <1>0 DEF TypeInv, TypeOK
    <3>3. PrefixOfLog(Recorded(loaded[c], Head(pending[c])).ids)
      BY <1>0, <2>3, <3>2, RecordedIsPrefix
    <3>4. PrefixOfLog(next'[c].ids)
      BY <1>a, <3>1, <3>3
    <3>5. \A d \in Clients : d # c => pc'[d] = pc[d] /\ next'[d] = next[d]
      BY <1>a, <2>1, <3>1
    <3>6. QED BY <1>c, <2>2, <3>4, <3>5
  <2>4. CASE ~(/\ PrefixOfLog(loaded[c].ids)
               /\ NextInLog(loaded[c], Head(pending[c])))
    <3>1. next' = next /\ Throw(c)
      BY <1>4, <2>4 DEF VerifyNext, GotoIf
    <3>2. PICK p \in {"unlock", "failed"} : pc' = [pc EXCEPT ![c] = p]
      BY <3>1 DEF Throw
    <3>3. QED BY <1>d, <2>2, <3>1, <3>2
  <2>5. QED BY <2>3, <2>4
<1>5. ASSUME NEW c \in Clients, VerifyAll(c) PROVE PrefixInv'
  <2>1. PICK point : pc' = [pc EXCEPT ![c] = point]
    BY <1>5 DEF VerifyAll, GotoIf, Goto, Throw
  <2>2. /\ UNCHANGED <<log, file>>
        /\ next' = [next EXCEPT ![c] =
                      Manifest(loaded[c].generation + 1, loaded[c].ids, command[c].final)]
    BY <1>5 DEF VerifyAll
  <2>3. \A d \in Clients : d # c => pc'[d] = pc[d] /\ next'[d] = next[d]
    BY <1>a, <2>1, <2>2
  <2>4. next'[c].ids = loaded[c].ids
    BY <1>a, <2>2 DEF Manifest
  <2>5. pc'[c] \in {"verified", "write", "writing"} => PrefixOfLog(loaded[c].ids)
    BY <1>a, <1>5 DEF VerifyAll, GotoIf, Throw, AllOfLog
  <2>6. QED BY <1>c, <2>2, <2>3, <2>4, <2>5
<1>6. ASSUME NEW c \in Clients, Recheck(c) PROVE PrefixInv'
  <2>1. PICK point : pc' = [pc EXCEPT ![c] = point]
    BY <1>6 DEF Recheck, GotoIf, Goto, Throw
  <2>2. pc[c] = "verified" /\ UNCHANGED <<log, file, next>>
    BY <1>6 DEF Recheck
  <2>3. \A d \in Clients : pc'[d] = pc[d] \/ pc[d] = "verified"
    BY <1>a, <2>1, <2>2
  <2>4. QED BY <1>c, <2>2, <2>3
<1>7. ASSUME NEW c \in Clients, Serve(c) PROVE PrefixInv'
  <2>1. UNCHANGED <<file, next, pc>>
    BY <1>7 DEF Serve
  <2>2. file.ids \in Seq(Nat) /\ \A d \in Clients : next[d].ids \in Seq(Nat)
    BY <1>a DEF ManifestFiles
  <2>3. ProjectionIsPrefix'
    <3>1. PrefixOfLog(file.ids) => PrefixOfLog(file.ids)'
      <4>1. ASSUME NEW ids \in Seq(Nat), PrefixOfLog(ids) PROVE PrefixOfLog(ids)'
        BY <1>0, <1>7, <4>1, PrefixStays
      <4>2. QED BY <2>1, <2>2, <4>1 DEF PrefixOfLog
    <3>2. QED BY <2>1, <3>1 DEF PrefixInv, ProjectionIsPrefix, Readable
  <2>4. WritesPrefix'
    <3>1. ASSUME NEW d \in Clients, PrefixOfLog(next[d].ids)
          PROVE  PrefixOfLog(next[d].ids)'
      <4>1. ASSUME NEW ids \in Seq(Nat), PrefixOfLog(ids) PROVE PrefixOfLog(ids)'
        BY <1>0, <1>7, <4>1, PrefixStays
      <4>2. QED BY <2>1, <2>2, <3>1, <4>1 DEF PrefixOfLog
    <3>2. QED BY <2>1, <3>1 DEF PrefixInv, WritesPrefix
  <2>5. QED BY <1>0, <2>3, <2>4 DEF PrefixInv
<1>8. ASSUME NEW c \in Clients, CallLocked(c) \/ Call(c) PROVE PrefixInv'
  BY <1>d, <1>8 DEF CallLocked, Call, StartCall, Goto
<1>9. ASSUME NEW c \in Clients, Reply(c) \/ ChildReply(c) PROVE PrefixInv'
  <2>1. PICK point \in {"locked", "record", "unlock", "failed"} : pc' = [pc EXCEPT ![c] = point]
    BY <1>9 DEF Reply, ChildReply, GotoIf, Goto, Throw
  <2>2. UNCHANGED <<log, file, next>>
    BY <1>9 DEF Reply, ChildReply
  <2>3. QED BY <1>d, <2>1, <2>2
<1>10. ASSUME NEW c \in Clients, Lock(c) \/ LockBusy(c) \/ TimeOut(c) PROVE PrefixInv'
  <2>1. PICK point \in {"locked", "unlock", "failed"} : pc' = [pc EXCEPT ![c] = point]
    BY <1>10 DEF Lock, LockBusy, TimeOut, Goto, Throw
  <2>2. UNCHANGED <<log, file, next>>
    BY <1>10 DEF Lock, LockBusy, TimeOut
  <2>3. QED BY <1>d, <2>1, <2>2
<1>11. ASSUME NEW c \in Clients, Unlock(c) \/ Open(c) PROVE PrefixInv'
  <2>1. PICK point \in {"failed", "done", "record", "ready", "unlock"} :
          pc' = [pc EXCEPT ![c] = point]
    BY <1>11 DEF Unlock, Open, GotoIf, Goto, Throw
  <2>2. UNCHANGED <<log, file, next>>
    BY <1>11 DEF Unlock, Open
  <2>3. QED BY <1>d, <2>1, <2>2
<1>12. ASSUME NEW c \in Clients, Load(c) \/ LoadForCheck(c) PROVE PrefixInv'
  <2>1. PICK point \in {"loaded", "check", "unlock", "failed"} : pc' = [pc EXCEPT ![c] = point]
    BY <1>12 DEF Load, LoadForCheck, GotoIf, Goto, Throw
  <2>2. UNCHANGED <<log, file, next>>
    BY <1>12 DEF Load, LoadForCheck
  <2>3. QED BY <1>d, <2>1, <2>2
<1>13. ASSUME NEW c \in Clients, CallRecorded(c) \/ CheckSequence(c) PROVE PrefixInv'
  <2>1. PICK point \in {"ready", "complete", "unlock", "failed"} : pc' = [pc EXCEPT ![c] = point]
    BY <1>13 DEF CallRecorded, CheckSequence, GotoIf, Goto, Throw
  <2>2. UNCHANGED <<log, file, next>>
    BY <1>13 DEF CallRecorded, CheckSequence
  <2>3. QED BY <1>d, <2>1, <2>2
<1>14. ASSUME NEW c \in Clients, Crash(c) PROVE PrefixInv'
  BY <1>d, <1>14 DEF Crash, Goto
<1>15. ASSUME NEW c \in Clients, ServeFails(c) \/ ChildTimeOut(c) PROVE PrefixInv'
  BY <1>e, <1>15 DEF ServeFails, ChildTimeOut
<1>16. CASE UNCHANGED vars
  BY <1>e, <1>16 DEF vars
<1>17. QED
  BY <1>1, <1>2, <1>3, <1>4, <1>5, <1>6, <1>7, <1>8, <1>9, <1>10, <1>11, <1>12, <1>13,
     <1>14, <1>15, <1>16 DEF Next, ClientStep

\* A manifest that can be read lists the first events of its run, in the order
\* of the ledger, whatever clients race for it, die or time out.
THEOREM ProjectionAlwaysPrefix == Spec => []ProjectionIsPrefix
<1>1. PrefixInv => ProjectionIsPrefix
  BY DEF PrefixInv
<1>2. QED BY InitPrefixInv, StepPrefixInv, <1>1, PTL DEF Spec

-----------------------------------------------------------------------------
(* What a client has recorded stays recorded *)

Working ==
    {"ready", "rpc", "record", "locked", "loaded", "verified", "check", "complete", "done"}

\* Under the lock, or on the way out of it.
Inside(c) ==
    \/ pc[c] \in {"locked", "loaded", "verified", "unlock"}
    \/ pc[c] \in {"write", "writing"} /\ Readable(copy[c])

\* What a client has at each of its points: only a creator writes outside the
\* lock, an empty manifest, and until it has written it holds none.
Shaped(c) ==
    /\ pc[c] \notin {"unlock", "failed", "dead"} => ~erred[c]
    /\ pc[c] \in Working => Readable(copy[c])
    /\ pc[c] = "new" => ~Readable(copy[c])
    /\ pc[c] \in {"verified", "write", "writing"} => Readable(next[c])
    /\ pc[c] \in {"write", "writing"} /\ ~Readable(copy[c]) =>
          next[c] = Fresh /\ command[c].creates
    /\ pc[c] \in {"loaded", "verified", "check"} => Readable(loaded[c])
    /\ pc[c] = "unlock" => Readable(copy[c]) \/ erred[c]
    /\ Inside(c) => lock = c

\* There is something to read and to hold only after a creator has written.
ShapeInv ==
    /\ \A c \in Clients : Shaped(c)
    /\ Readable(file) \/ Holders # {} => CreatedBy # {}

Begins(s, t) == Len(s) <= Len(t) /\ \A i \in 1..Len(s) : t[i] = s[i]

Writers == {c \in Holders : pc[c] \in {"write", "writing"}}

\* The manifest in the file, or about to be, begins with these ids.
Behind(ids) ==
    /\ Readable(file) => Begins(ids, file.ids)
    /\ \A d \in Writers : Begins(ids, next[d].ids)

\* With one creator: all that clients know is behind the file, and the one under
\* the lock has loaded the manifest that is still there.
BehindInv ==
    AtMostOne(CreatedBy) =>
        /\ Readable(file) => Behind(file.ids)
        /\ \A c \in Clients :
              /\ Readable(copy[c]) => Behind(copy[c].ids)
              /\ pc[c] = "check" => Behind(loaded[c].ids)
              /\ pc[c] \in {"loaded", "verified"} /\ Readable(file) => loaded[c] = file
              /\ pc[c] = "verified" => Begins(loaded[c].ids, next[c].ids)

RecordedInv == TypeInv /\ ShapeInv /\ BehindInv

-----------------------------------------------------------------------------
(* A terminal manifest hides nothing *)

\* The supervisor has nothing left to append for a client.
Quiet(c) == call[c].todo = <<>> /\ call[c].late = <<>>

\* Only a client that gave up on its call leaves it behind.
CallsInv ==
    \A c \in Clients :
        /\ ~Quiet(c) => Readable(copy[c])
        /\ ~Quiet(c) => pc[c] = "rpc" \/ erred[c] \/ pc[c] = "dead"
        /\ pc[c] = "rpc" => call[c].late = <<>>

\* The one client completes its manifest with the last event of the ledger, and
\* asks for no other.
TerminalInv ==
    AtMostOne(Holders) =>
        /\ Terminal(file) =>
              /\ Len(file.ids) = Len(log)
              /\ \A c \in Clients : Quiet(c)
              /\ \A c \in Holders : pc[c] \in {"unlock", "done", "failed", "dead"}
              /\ \A c \in Clients : pc[c] = "unlock" => Completing(c) \/ erred[c]
        /\ \A c \in Clients :
              /\ pc[c] \in {"loaded", "verified"} => ~Terminal(loaded[c])
              /\ pc[c] \in {"verified", "write", "writing"} /\ Terminal(next[c]) =>
                    Len(next[c].ids) = Len(log) /\ Completing(c)

TermInv == RecordedInv /\ CallsInv /\ TerminalInv
-----------------------------------------------------------------------------
(* Lemmas for these invariants *)

LEMMA BeginsItself == ASSUME NEW s \in Seq(Nat) PROVE Begins(s, s)
BY DEF Begins

LEMMA BeginsTransitively ==
    ASSUME NEW s \in Seq(Nat), NEW t \in Seq(Nat), NEW u \in Seq(Nat), Begins(s, t), Begins(t, u)
    PROVE  Begins(s, u)
BY DEF Begins

LEMMA BeginsRecorded ==
    ASSUME NEW m \in ManifestFiles, NEW id \in Nat
    PROVE  Begins(m.ids, Recorded(m, id).ids)
<1>1. m.ids \in Seq(Nat)
  BY DEF ManifestFiles
<1>2. QED BY <1>1, AppendProperties DEF Begins, Recorded, Manifest

LEMMA NothingBegins == ASSUME NEW s \in Seq(Nat) PROVE Begins(<<>>, s)
BY DEF Begins

\* All but one client stay where they are.
OnlyMoves(c) ==
    /\ command' = command
    /\ \A d \in Clients : d # c =>
          /\ pc'[d] = pc[d] /\ erred'[d] = erred[d] /\ copy'[d] = copy[d]
          /\ loaded'[d] = loaded[d] /\ next'[d] = next[d]

LEMMA ShapeMoves ==
    ASSUME ShapeInv, NEW c \in Clients, OnlyMoves(c),
           lock' = lock \/ lock = "none" \/ lock = c,
           Readable(copy[c]) => Readable(copy'[c]),
           Readable(file') => Readable(file) \/ Readable(copy'[c]),
           Readable(copy'[c]) => Readable(copy[c]) \/ Readable(file) \/ command[c].creates,
           Shaped(c)'
    PROVE  ShapeInv' /\ Holders \subseteq Holders' /\ CreatedBy \subseteq CreatedBy'
<1>1. ASSUME NEW d \in Clients, d # c PROVE Shaped(d)'
  <2>1. Shaped(d) /\ d # "none"
    BY RunManifestAssumption DEF RunManifestAssumption, ShapeInv
  <2>2. UNCHANGED <<pc[d], erred[d], copy[d], loaded[d], next[d], command>>
    BY <1>1 DEF OnlyMoves
  <2>3. Inside(d)' => Inside(d)
    BY <2>2 DEF Inside
  <2>4. Inside(d) => lock' = d
    BY <1>1, <2>1 DEF Shaped
  <2>5. QED BY <2>1, <2>2, <2>3, <2>4 DEF Shaped
<1>2. Holders \subseteq Holders'
  BY DEF Holders, OnlyMoves
<1>3. CreatedBy \subseteq CreatedBy'
  BY <1>2 DEF CreatedBy, OnlyMoves
<1>4. Readable(file') \/ Holders' # {} => CreatedBy' # {}
  <2>1. CASE CreatedBy # {}
    BY <1>3, <2>1
  <2>2. CASE CreatedBy = {}
    <3>1. ~Readable(file) /\ Holders = {}
      BY <2>2 DEF ShapeInv
    <3>2. Holders' \subseteq {c} /\ command' = command
      BY <3>1 DEF Holders, OnlyMoves
    <3>3. Readable(file') \/ Holders' # {} => c \in Holders'
      BY <3>1, <3>2 DEF Holders
    <3>4. c \in Holders' => command[c].creates
      BY <3>1 DEF Holders
    <3>5. QED BY <3>2, <3>3, <3>4 DEF CreatedBy
  <2>3. QED BY <2>1, <2>2
<1>5. QED BY <1>1, <1>2, <1>3, <1>4 DEF ShapeInv

\* The client that moves leaves what the invariant is about alone.
LEMMA BehindMoves ==
    ASSUME TypeInv, TypeInv', BehindInv, NEW c \in Clients, OnlyMoves(c),
           CreatedBy \subseteq CreatedBy',
           UNCHANGED <<file, copy>>,
           pc'[c] \notin {"loaded", "verified", "check"},
           pc'[c] \in {"write", "writing"} =>
              ~Readable(copy[c]) \/ (pc[c] \in {"write", "writing"} /\ next'[c] = next[c])
    PROVE  BehindInv'
<1> SUFFICES ASSUME AtMostOne(CreatedBy)'
             PROVE  /\ (Readable(file) => Behind(file.ids))'
                    /\ \A d \in Clients :
                        (/\ Readable(copy[d]) => Behind(copy[d].ids)
                         /\ pc[d] = "check" => Behind(loaded[d].ids)
                         /\ pc[d] \in {"loaded", "verified"} /\ Readable(file) => loaded[d] = file
                         /\ pc[d] = "verified" => Begins(loaded[d].ids, next[d].ids))'
  BY DEF BehindInv
<1>1. AtMostOne(CreatedBy)
  BY DEF AtMostOne
<1>2. Writers' \subseteq Writers /\ \A d \in Writers' : next'[d] = next[d]
  BY DEF Writers, Holders, OnlyMoves
<1>3. \A ids : Behind(ids) => Behind(ids)'
  BY <1>2 DEF Behind
<1>4. QED BY <1>1, <1>3 DEF BehindInv, OnlyMoves

\* Only one client is under the lock.
LEMMA InsideAlone ==
    ASSUME ShapeInv, NEW c \in Clients, Inside(c)
    PROVE  /\ lock = c
           /\ \A d \in Clients : d # c =>
                 pc[d] \notin {"locked", "loaded", "verified", "unlock"} /\ d \notin Writers
BY DEF ShapeInv, Shaped, Inside, Writers, Holders
\* What a step of a client, or of the supervisor it called, may do to the others.
StepOf(c) == ClientStep(c) \/ Serve(c) \/ ServeFails(c) \/ TimeOut(c) \/ ChildTimeOut(c) \/ Crash(c)

Grows == Holders \subseteq Holders' /\ CreatedBy \subseteq CreatedBy'

LEMMA ShapeStep ==
    ASSUME TypeInv, ShapeInv, NEW c \in Clients, StepOf(c)
    PROVE  OnlyMoves(c) /\ ShapeInv' /\ Grows
<1>a. /\ pc \in [Clients -> Points] /\ erred \in [Clients -> BOOLEAN]
      /\ copy \in [Clients -> ManifestFiles] /\ loaded \in [Clients -> ManifestFiles]
      /\ next \in [Clients -> ManifestFiles]
  BY DEF TypeInv, TypeOK
<1>b. Shaped(c) /\ c # "none"
  BY RunManifestAssumption DEF RunManifestAssumption, ShapeInv
<1>c. Readable(Fresh) /\ ~Readable(Torn) /\ ~Readable(Missing)
  BY DEF Readable, Fresh, Torn, Missing, Manifest
<1>d. Readable(file) \/ Holders # {} => CreatedBy # {}
  BY DEF ShapeInv
\* A step under no lock, or one that keeps it, and that writes no file.
<1>e. ASSUME OnlyMoves(c), lock' = lock \/ lock = "none" \/ lock = c,
             UNCHANGED <<file, copy>>, Shaped(c)'
      PROVE  ShapeInv' /\ Grows
  BY <1>e, ShapeMoves DEF Grows
\* A throw.
<1>f. ASSUME Throw(c), UNCHANGED <<command, lock, copy>> PROVE Shaped(c)'
  <2>1. pc'[c] = (IF lock = c THEN "unlock" ELSE "failed") /\ erred'[c] = TRUE
    BY <1>a, <1>f DEF Throw
  <2>2. CASE lock = c
    BY <1>f, <2>1, <2>2 DEF Shaped, Inside, Working
  <2>3. CASE lock # c
    BY <1>f, <2>1, <2>3 DEF Shaped, Inside, Working
  <2>4. QED BY <2>2, <2>3
<1>g. ASSUME NEW point, Goto(c, point) \/ Throw(c)
      PROVE  \A d \in Clients : d # c => pc'[d] = pc[d] /\ erred'[d] = erred[d]
  BY <1>a, <1>g DEF Goto, Throw
<1>h. ASSUME NEW point, Goto(c, point)
      PROVE  pc'[c] = point /\ erred'[c] = erred[c]
  BY <1>a, <1>h DEF Goto
<1>1. ASSUME CheckMissing(c) PROVE OnlyMoves(c) /\ ShapeInv' /\ Grows
  <2>1. /\ UNCHANGED <<command, file, lock, copy, loaded>>
        /\ next' = [next EXCEPT ![c] = Fresh]
        /\ pc[c] = "new" /\ command[c].creates
        /\ Goto(c, "write") \/ Throw(c)
    BY <1>1 DEF CheckMissing, GotoIf
  <2>2. OnlyMoves(c)
    BY <1>a, <1>g, <2>1 DEF OnlyMoves
  <2>3. next'[c] = Fresh
    BY <1>a, <2>1
  <2>4. Goto(c, "write") => Shaped(c)'
    BY <1>b, <1>c, <1>h, <2>1, <2>3 DEF Shaped, Inside, Working
  <2>5. QED BY <1>e, <1>f, <2>1, <2>2, <2>4
<1>2. ASSUME Open(c) PROVE OnlyMoves(c) /\ ShapeInv' /\ Grows
  <2>1. /\ UNCHANGED <<command, file, lock, loaded, next>>
        /\ copy' = [copy EXCEPT ![c] = file] /\ pc[c] = "new"
        /\ (Goto(c, "ready") /\ Readable(file)) \/ Throw(c)
    BY <1>2 DEF Open, GotoIf
  <2>2. OnlyMoves(c) /\ copy'[c] = file
    BY <1>a, <1>g, <2>1 DEF OnlyMoves
  <2>3. ~Readable(copy[c])
    BY <1>b, <2>1 DEF Shaped
  <2>4. Shaped(c)'
    <3>1. CASE Goto(c, "ready") /\ Readable(file)
      BY <1>b, <1>h, <2>1, <2>2, <3>1 DEF Shaped, Inside, Working
    <3>2. CASE Throw(c)
      <4>1. pc'[c] = (IF lock = c THEN "unlock" ELSE "failed") /\ erred'[c] = TRUE
        BY <1>a, <3>2 DEF Throw
      <4>2. QED BY <2>1, <4>1 DEF Shaped, Inside, Working
    <3>3. QED BY <2>1, <3>1, <3>2
  <2>5. QED BY <2>1, <2>2, <2>3, <2>4, ShapeMoves DEF Grows
<1>3. ASSUME Truncate(c) PROVE OnlyMoves(c) /\ ShapeInv' /\ Grows
  <2>1. /\ UNCHANGED <<command, lock, copy, loaded, next>>
        /\ file' = Torn /\ pc[c] = "write" /\ Goto(c, "writing")
    BY <1>3 DEF Truncate
  <2>2. OnlyMoves(c)
    BY <1>g, <2>1 DEF OnlyMoves
  <2>3. Shaped(c)'
    BY <1>b, <1>h, <2>1 DEF Shaped, Inside, Working
  <2>4. QED BY <1>c, <2>1, <2>2, <2>3, ShapeMoves DEF Grows
<1>4. ASSUME Write(c) PROVE OnlyMoves(c) /\ ShapeInv' /\ Grows
  <2>1. /\ UNCHANGED <<command, lock, loaded, next>>
        /\ copy' = [copy EXCEPT ![c] = next[c]]
        /\ pc[c] = "writing" /\ Goto(c, IF lock = c THEN "unlock" ELSE "ready")
    BY <1>4 DEF Write
  <2>2. OnlyMoves(c) /\ copy'[c] = next[c]
    BY <1>a, <1>g, <2>1 DEF OnlyMoves
  <2>3. Readable(next[c])
    BY <1>b, <2>1 DEF Shaped
  <2>4. pc'[c] = (IF lock = c THEN "unlock" ELSE "ready") /\ erred'[c] = erred[c]
    BY <1>a, <2>1 DEF Goto
  <2>5. Shaped(c)'
    <3>1. CASE lock = c
      BY <1>b, <2>1, <2>2, <2>3, <2>4, <3>1 DEF Shaped, Inside, Working
    <3>2. CASE lock # c
      BY <1>b, <2>1, <2>2, <2>3, <2>4, <3>2 DEF Shaped, Inside, Working
    <3>3. QED BY <3>1, <3>2
  <2>6. ~Readable(copy[c]) => command[c].creates
    BY <1>b, <2>1 DEF Shaped
  <2>7. QED BY <2>1, <2>2, <2>3, <2>5, <2>6, ShapeMoves DEF Grows
<1>5. ASSUME CallLocked(c) \/ Call(c) PROVE OnlyMoves(c) /\ ShapeInv' /\ Grows
  <2>1. /\ UNCHANGED <<command, file, copy, loaded, next>>
        /\ pc[c] = "ready" /\ Goto(c, "rpc")
        /\ lock' = lock \/ (lock = "none" /\ lock' = c)
    BY <1>5 DEF CallLocked, Call, StartCall
  <2>2. OnlyMoves(c)
    BY <1>g, <2>1 DEF OnlyMoves
  <2>3. Shaped(c)'
    BY <1>b, <1>h, <2>1 DEF Shaped, Inside, Working
  <2>4. QED BY SMTT(30), <1>e, <2>1, <2>2, <2>3
<1>6. ASSUME Reply(c) \/ ChildReply(c) PROVE OnlyMoves(c) /\ ShapeInv' /\ Grows
  <2>1. /\ UNCHANGED <<command, file, lock, copy, loaded, next>>
        /\ pc[c] = "rpc"
        /\ \/ Goto(c, IF lock = c THEN "locked" ELSE "record")
           \/ Goto(c, "record") \/ Throw(c)
    BY <1>6 DEF Reply, ChildReply, GotoIf
  <2>2. OnlyMoves(c)
    BY <1>g, <2>1 DEF OnlyMoves
  <2>3. Goto(c, "record") => Shaped(c)'
    BY <1>b, <1>h, <2>1 DEF Shaped, Inside, Working
  <2>4. Goto(c, "locked") /\ lock = c => Shaped(c)'
    BY <1>b, <1>h, <2>1 DEF Shaped, Inside, Working
  <2>5. QED BY <1>e, <1>f, <2>1, <2>2, <2>3, <2>4
<1>7. ASSUME Lock(c) \/ LockBusy(c) PROVE OnlyMoves(c) /\ ShapeInv' /\ Grows
  <2>1. /\ UNCHANGED <<command, file, copy, loaded, next>>
        /\ pc[c] \in {"record", "complete", "ready"}
        /\ \/ Goto(c, "locked") /\ lock' = c /\ lock = "none"
           \/ Throw(c) /\ lock' = lock
    BY <1>7 DEF Lock, LockBusy, WantsLock
  <2>2. OnlyMoves(c)
    BY <1>g, <2>1 DEF OnlyMoves
  <2>3. Goto(c, "locked") /\ lock' = c => Shaped(c)'
    BY <1>b, <1>h, <2>1 DEF Shaped, Inside, Working
  <2>4. QED BY <1>e, <1>f, <2>1, <2>2, <2>3
<1>8. ASSUME Unlock(c) PROVE OnlyMoves(c) /\ ShapeInv' /\ Grows
  <2>1. /\ UNCHANGED <<command, file, copy, loaded, next, erred>>
        /\ pc[c] = "unlock" /\ lock' = "none"
    BY <1>8 DEF Unlock
  <2>2. PICK point \in {"failed", "done", "record"} :
           pc' = [pc EXCEPT ![c] = point] /\ (point # "failed" => ~erred[c])
    BY <1>8 DEF Unlock
  <2>3. OnlyMoves(c) /\ pc'[c] = point
    BY <1>a, <2>1, <2>2 DEF OnlyMoves
  <2>4. Shaped(c)' /\ lock = c
    BY <1>b, <2>1, <2>2, <2>3 DEF Shaped, Inside, Working
  <2>5. QED BY <1>e, <2>1, <2>3, <2>4
<1>9. ASSUME Load(c) \/ LoadForCheck(c) PROVE OnlyMoves(c) /\ ShapeInv' /\ Grows
  <2>1. /\ UNCHANGED <<command, file, lock, copy, next>>
        /\ loaded' = [loaded EXCEPT ![c] = file]
        /\ \/ Readable(file) /\ pc[c] = "locked" /\ Goto(c, "loaded")
           \/ Readable(file) /\ pc[c] = "ready" /\ Goto(c, "check")
           \/ Throw(c)
    BY <1>9 DEF Load, LoadForCheck, GotoIf, SameGeneration
  <2>2. OnlyMoves(c) /\ loaded'[c] = file
    BY <1>a, <1>g, <2>1 DEF OnlyMoves
  <2>3. Readable(file) /\ pc[c] = "locked" /\ Goto(c, "loaded") => Shaped(c)'
    BY <1>b, <1>h, <2>1, <2>2 DEF Shaped, Inside, Working
  <2>4. Readable(file) /\ pc[c] = "ready" /\ Goto(c, "check") => Shaped(c)'
    BY <1>b, <1>h, <2>1, <2>2 DEF Shaped, Inside, Working
  <2>5. QED BY <1>e, <1>f, <2>1, <2>2, <2>3, <2>4
<1>10. ASSUME VerifyNext(c) \/ VerifyAll(c) PROVE OnlyMoves(c) /\ ShapeInv' /\ Grows
  <2>1. /\ UNCHANGED <<command, file, lock, copy, loaded>> /\ pc[c] = "loaded"
    BY <1>10 DEF VerifyNext, VerifyAll
  <2>2. Readable(loaded[c])
    BY <1>b, <2>1 DEF Shaped
  <2>3. PICK m : /\ next' = [next EXCEPT ![c] = m] \/ next' = next
                 /\ \/ Throw(c)
                    \/ Goto(c, "verified") /\ next' = [next EXCEPT ![c] = m] /\ Readable(m)
    <3>1. CASE VerifyNext(c)
      <4>1. Readable(Recorded(loaded[c], Head(pending[c])))
        BY <2>2 DEF Recorded, Manifest, Readable
      <4>2. QED BY <3>1, <4>1 DEF VerifyNext, GotoIf
    <3>2. CASE VerifyAll(c)
      <4>1. command[c].final \in {"completed", "blocked"}
        <5>1. command[c] \in Command
          BY RunManifestAssumption DEF TypeInv, TypeOK, RunManifestAssumption
        <5>2. QED BY <5>1 DEF Command
      <4>2. Readable(Manifest(loaded[c].generation + 1, loaded[c].ids, command[c].final))
        BY <4>1 DEF Manifest, Readable
      <4>3. QED BY <3>2, <4>2 DEF VerifyAll, GotoIf
    <3>3. QED BY <1>10, <3>1, <3>2
  <2>4. OnlyMoves(c)
    BY <1>a, <1>g, <2>1, <2>3 DEF OnlyMoves
  <2>5. Goto(c, "verified") /\ next' = [next EXCEPT ![c] = m] /\ Readable(m) => Shaped(c)'
    <3>1. SUFFICES ASSUME Goto(c, "verified"), next'[c] = m, Readable(m) PROVE Shaped(c)'
      BY <1>a
    <3>2. QED BY <1>b, <1>h, <2>1, <3>1 DEF Shaped, Inside, Working
  <2>6. QED BY <1>e, <1>f, <2>1, <2>3, <2>4, <2>5
<1>11. ASSUME Recheck(c) PROVE OnlyMoves(c) /\ ShapeInv' /\ Grows
  <2>1. /\ UNCHANGED <<command, file, lock, copy, loaded, next>> /\ pc[c] = "verified"
        /\ Goto(c, "write") \/ Throw(c)
    BY <1>11 DEF Recheck, GotoIf
  <2>2. OnlyMoves(c)
    BY <1>g, <2>1 DEF OnlyMoves
  <2>3. Goto(c, "write") => Shaped(c)'
    BY <1>b, <1>h, <2>1 DEF Shaped, Inside, Working
  <2>4. QED BY <1>e, <1>f, <2>1, <2>2, <2>3
<1>12. ASSUME CallRecorded(c) PROVE OnlyMoves(c) /\ ShapeInv' /\ Grows
  <2>1. /\ UNCHANGED <<command, file, lock, copy, loaded, next>> /\ pc[c] = "record"
        /\ Goto(c, "ready") \/ Throw(c)
    BY <1>12 DEF CallRecorded, GotoIf
  <2>2. OnlyMoves(c)
    BY <1>g, <2>1 DEF OnlyMoves
  <2>3. Goto(c, "ready") => Shaped(c)'
    BY <1>b, <1>h, <2>1 DEF Shaped, Inside, Working
  <2>4. QED BY <1>e, <1>f, <2>1, <2>2, <2>3
<1>13. ASSUME CheckSequence(c) PROVE OnlyMoves(c) /\ ShapeInv' /\ Grows
  <2>1. /\ UNCHANGED <<command, file, lock, loaded, next>> /\ pc[c] = "check"
        /\ copy' = [copy EXCEPT ![c] = loaded[c]]
        /\ Goto(c, "complete") \/ Throw(c)
    BY <1>13 DEF CheckSequence, GotoIf
  <2>2. OnlyMoves(c) /\ copy'[c] = loaded[c]
    BY <1>a, <1>g, <2>1 DEF OnlyMoves
  <2>3. Readable(loaded[c]) /\ Readable(copy[c])
    BY <1>b, <2>1 DEF Shaped, Working
  <2>4. Shaped(c)'
    <3>1. CASE Goto(c, "complete")
      BY <1>b, <1>h, <2>1, <2>2, <2>3, <3>1 DEF Shaped, Inside, Working
    <3>2. CASE Throw(c)
      <4>1. pc'[c] = (IF lock = c THEN "unlock" ELSE "failed") /\ erred'[c] = TRUE
        BY <1>a, <3>2 DEF Throw
      <4>2. QED BY <2>1, <4>1 DEF Shaped, Inside, Working
    <3>3. QED BY <2>1, <3>1, <3>2
  <2>5. QED BY <2>1, <2>2, <2>3, <2>4, ShapeMoves DEF Grows
<1>14. ASSUME Serve(c) \/ ServeFails(c) \/ ChildTimeOut(c)
       PROVE  OnlyMoves(c) /\ ShapeInv' /\ Grows
  <2>1. UNCHANGED <<command, file, lock, copy, loaded, next, pc, erred>>
    BY <1>14 DEF Serve, ServeFails, ChildTimeOut
  <2>2. OnlyMoves(c)
    BY <2>1 DEF OnlyMoves
  <2>3. Shaped(c)'
    BY <1>b, <2>1 DEF Shaped, Inside
  <2>4. QED BY <1>e, <2>1, <2>2, <2>3
<1>15. ASSUME TimeOut(c) PROVE OnlyMoves(c) /\ ShapeInv' /\ Grows
  <2>1. UNCHANGED <<command, file, lock, copy, loaded, next>> /\ Throw(c)
    BY <1>15 DEF TimeOut
  <2>2. OnlyMoves(c)
    BY <1>g, <2>1 DEF OnlyMoves
  <2>3. QED BY <1>e, <1>f, <2>1, <2>2
<1>16. ASSUME Crash(c) PROVE OnlyMoves(c) /\ ShapeInv' /\ Grows
  <2>1. UNCHANGED <<command, file, lock, copy, loaded, next>> /\ Goto(c, "dead")
    BY <1>16 DEF Crash
  <2>2. OnlyMoves(c)
    BY <1>g, <2>1 DEF OnlyMoves
  <2>3. Shaped(c)'
    BY <1>h, <2>1 DEF Shaped, Inside, Working
  <2>4. QED BY <1>e, <2>1, <2>2, <2>3
<1>17. QED
  BY <1>1, <1>2, <1>3, <1>4, <1>5, <1>6, <1>7, <1>8, <1>9, <1>10, <1>11, <1>12, <1>13,
     <1>14, <1>15, <1>16 DEF StepOf, ClientStep
-----------------------------------------------------------------------------
(* The proof of RecordedStays *)

LEMMA RecordedInit == Init => ShapeInv /\ BehindInv
<1> SUFFICES ASSUME Init PROVE ShapeInv /\ BehindInv
  OBVIOUS
<1>1. ~Readable(Missing)
  BY DEF Readable, Missing, Manifest
<1>2. ~Readable(file) /\ Holders = {}
  BY <1>1 DEF Init, Holders
<1>3. ASSUME NEW c \in Clients PROVE Shaped(c)
  <2>1. pc[c] = "new" /\ copy[c] = Missing /\ erred[c] = FALSE
    BY DEF Init
  <2>2. QED BY <1>1, <2>1 DEF Shaped, Inside, Working
<1>4. BehindInv
  BY <1>1, <1>2 DEF Init, BehindInv
<1>5. QED BY <1>2, <1>3, <1>4 DEF ShapeInv

LEMMA BehindStep ==
    ASSUME TypeInv, TypeInv', ShapeInv, BehindInv, NEW c \in Clients, StepOf(c)
    PROVE  BehindInv'
<1>0. OnlyMoves(c) /\ ShapeInv' /\ Grows
  BY ShapeStep
<1>a. /\ pc \in [Clients -> Points] /\ copy \in [Clients -> ManifestFiles]
      /\ loaded \in [Clients -> ManifestFiles] /\ next \in [Clients -> ManifestFiles]
      /\ file \in ManifestFiles
  BY DEF TypeInv, TypeOK
<1>b. \A m \in ManifestFiles : m.ids \in Seq(Nat)
  BY DEF ManifestFiles
<1>c. Readable(Fresh) /\ ~Readable(Torn) /\ Fresh.ids = <<>>
  BY DEF Readable, Fresh, Torn, Manifest
<1>d. Shaped(c)
  BY DEF ShapeInv
<1>e. \A d \in Clients : d # c =>
        /\ pc'[d] = pc[d] /\ copy'[d] = copy[d]
        /\ loaded'[d] = loaded[d] /\ next'[d] = next[d]
  BY <1>0 DEF OnlyMoves
<1>f. AtMostOne(CreatedBy)' => AtMostOne(CreatedBy)
  BY <1>0 DEF AtMostOne, Grows
\* Steps that neither write, load nor verify.
<1>g. ASSUME UNCHANGED <<file, copy>>,
             pc'[c] \in {"ready", "rpc", "record", "locked", "unlock", "complete", "done",
                         "failed", "dead"}
      PROVE  BehindInv'
  BY <1>0, <1>g, BehindMoves DEF Grows
<1>h. ASSUME UNCHANGED <<file, copy>>, Throw(c) PROVE BehindInv'
  <2>1. pc'[c] \in {"unlock", "failed"}
    BY <1>a, <1>h DEF Throw
  <2>2. QED BY <1>g, <1>h, <2>1
<1>i. ASSUME NEW point, Goto(c, point) PROVE pc'[c] = point
  BY <1>a, <1>i DEF Goto
<1>1. ASSUME CheckMissing(c) PROVE BehindInv'
  <2>1. UNCHANGED <<file, copy>> /\ pc[c] = "new" /\ (Goto(c, "write") \/ Throw(c))
    BY <1>1 DEF CheckMissing, GotoIf
  <2>2. ~Readable(copy[c])
    BY <1>d, <2>1 DEF Shaped
  <2>3. CASE Goto(c, "write")
    <3>1. pc'[c] = "write"
      BY <1>i, <2>3
    <3>2. QED BY <1>0, <2>1, <2>2, <3>1, BehindMoves DEF Grows
  <2>4. QED BY <1>h, <2>1, <2>3
<1>2. ASSUME Open(c) PROVE BehindInv'
  <2>1. /\ UNCHANGED <<file, next>> /\ pc[c] = "new" /\ copy'[c] = file
        /\ Goto(c, "ready") \/ Throw(c)
    BY <1>a, <1>2 DEF Open, GotoIf
  <2>2. pc'[c] \in {"ready", "unlock", "failed"}
    BY <1>a, <1>i, <2>1 DEF Throw
  <2>3. Writers' = Writers
    BY <1>e, <2>1, <2>2 DEF Writers, Holders
  <2>4. \A ids : Behind(ids) => Behind(ids)'
    BY <2>1, <2>3 DEF Behind
  <2>5. SUFFICES ASSUME AtMostOne(CreatedBy)'
                 PROVE  /\ Readable(file') => Behind(file.ids)'
                        /\ \A d \in Clients :
                              (/\ Readable(copy[d]) => Behind(copy[d].ids)
                               /\ pc[d] = "check" => Behind(loaded[d].ids)
                               /\ pc[d] \in {"loaded", "verified"} /\ Readable(file) => loaded[d] = file
                               /\ pc[d] = "verified" => Begins(loaded[d].ids, next[d].ids))'
    BY DEF BehindInv
  <2>6. Readable(file) => Behind(file.ids)'
    <3>1. Readable(file) => Behind(file.ids)
      BY <1>f, <2>5 DEF BehindInv
    <3>2. Readable(file) => \A ids : ids = file.ids => Behind(ids)'
      BY <2>4, <3>1
    <3>3. QED BY <2>1, <3>2 DEF Behind
  <2>7. QED BY <1>e, <1>f, <2>1, <2>2, <2>4, <2>5, <2>6 DEF BehindInv
<1>3. ASSUME Truncate(c) PROVE BehindInv'
  <2>1. /\ UNCHANGED <<copy, loaded, next>> /\ file' = Torn
        /\ pc[c] = "write" /\ pc'[c] = "writing"
    BY <1>i, <1>3 DEF Truncate
  <2>2. Writers' = Writers
    BY <1>e, <2>1 DEF Writers, Holders
  <2>3. \A ids : Behind(ids) => Behind(ids)'
    BY <1>c, <2>1, <2>2 DEF Behind
  <2>4. QED BY <1>c, <1>e, <1>f, <2>1, <2>3 DEF BehindInv
<1>4. ASSUME Write(c) PROVE BehindInv'
  <2>1. /\ UNCHANGED <<loaded, next>> /\ copy'[c] = next[c] /\ pc[c] = "writing"
        /\ pc'[c] \in {"unlock", "ready"} /\ file' \in {Torn, next[c]}
    BY <1>a, <1>i, <1>4 DEF Write
  <2>2. Readable(next[c])
    BY <1>d, <2>1 DEF Shaped
  <2>3. SUFFICES ASSUME AtMostOne(CreatedBy)' PROVE BehindInv'
    BY DEF BehindInv
  <2>4. c \notin Writers'
    BY <2>1 DEF Writers
  \* The holder that writes is alone under the lock.
  <2>5. CASE Readable(copy[c])
    <3>1. Inside(c) /\ c \in Writers
      BY <2>1, <2>5 DEF Inside, Writers, Holders
    <3>2. \A d \in Clients : d # c => pc[d] \notin {"loaded", "verified"} /\ d \notin Writers
      BY <3>1, InsideAlone
    <3>3. Writers' = {}
      BY <1>e, <2>4, <3>2 DEF Writers, Holders
    <3>4. \A ids : Begins(ids, next[c].ids) => Behind(ids)'
      BY <1>c, <2>1, <3>3 DEF Behind
    <3>5. \A ids : Behind(ids) => Behind(ids)'
      BY <3>1, <3>4 DEF Behind
    <3>6. Begins(next[c].ids, next[c].ids)
      BY <1>a, <1>b, BeginsItself
    <3>7. Behind(next[c].ids)'
      <4>1. \A ids : ids = next[c].ids => Behind(ids)'
        BY <3>4, <3>6
      <4>2. QED BY <2>1, <4>1 DEF Behind
    <3>8. Readable(file') => Behind(file.ids)'
      <4>1. Readable(file') => file' = next[c]
        BY <1>c, <2>1
      <4>2. QED BY <2>1, <3>7, <4>1 DEF Behind
    <3>9. \A d \in Clients : d = c => Behind(copy[d].ids)'
      BY <2>1, <3>7 DEF Behind
    <3>10. \A d \in Clients : d # c =>
             (/\ Readable(copy[d]) => Behind(copy[d].ids)
              /\ pc[d] = "check" => Behind(loaded[d].ids))'
      BY <1>e, <1>f, <2>1, <2>3, <3>5 DEF BehindInv
    <3>11. \A d \in Clients : pc'[d] \notin {"loaded", "verified"} /\ pc'[c] # "check"
      BY <1>e, <2>1, <3>2
    <3>12. ASSUME NEW d \in Clients
           PROVE  (/\ Readable(copy[d]) => Behind(copy[d].ids)
                   /\ pc[d] = "check" => Behind(loaded[d].ids)
                   /\ pc[d] \in {"loaded", "verified"} /\ Readable(file) => loaded[d] = file
                   /\ pc[d] = "verified" => Begins(loaded[d].ids, next[d].ids))'
      <4>1. CASE d = c
        <5>1. pc'[d] \notin {"loaded", "verified", "check"}
          BY <3>11, <4>1
        <5>2. Behind(copy[d].ids)'
          BY <3>9, <4>1
        <5>3. QED BY <5>1, <5>2
      <4>2. CASE d # c
        BY <3>10, <3>11, <4>2
      <4>3. QED BY <4>1, <4>2
    <3>13. QED BY <3>8, <3>12 DEF BehindInv
  \* The creator that writes is the first to hold the manifest.
  <2>6. CASE ~Readable(copy[c])
    <3>1. next[c] = Fresh /\ command[c].creates
      BY <1>d, <2>1, <2>6 DEF Shaped
    <3>2. c \in CreatedBy'
      BY <1>0, <1>c, <2>1, <3>1 DEF CreatedBy, Holders, OnlyMoves
    <3>3. c \notin CreatedBy
      BY <2>6 DEF CreatedBy, Holders
    <3>4. CreatedBy = {}
      BY <1>0, <2>3, <3>2, <3>3 DEF AtMostOne, CreatedBy, Holders, Grows
    <3>5. Holders = {}
      BY <3>4 DEF ShapeInv
    <3>6. \A d \in Clients : d # c => ~Readable(copy'[d]) /\ pc'[d] \notin Working
      BY <1>e, <3>5 DEF Holders, ShapeInv, Shaped
    <3>7. Writers' = {}
      BY <2>4, <3>6 DEF Writers, Holders
    <3>8. file'.ids \in Seq(Nat)
      BY <1>b DEF TypeInv, TypeOK
    <3>9. \A ids : ids = <<>> => Behind(ids)'
      BY <3>7, <3>8, NothingBegins DEF Behind
    <3>10. Behind(copy[c].ids)'
      BY <1>c, <2>1, <3>1, <3>9 DEF Behind
    <3>11. Readable(file') => Behind(file.ids)'
      <4>1. Readable(file') => file' = Fresh
        BY <1>c, <2>1, <3>1
      <4>2. QED BY <1>c, <3>9, <4>1 DEF Behind
    <3>12. \A d \in Clients : pc'[d] \notin {"loaded", "verified", "check"}
      BY <2>1, <3>6 DEF Working
    <3>13. QED BY <3>6, <3>10, <3>11, <3>12 DEF BehindInv
  <2>7. QED BY <2>5, <2>6
<1>5. ASSUME Load(c) PROVE BehindInv'
  <2>1. /\ UNCHANGED <<file, copy, next>> /\ pc[c] = "locked" /\ loaded'[c] = file
        /\ Goto(c, "loaded") \/ Throw(c)
    BY <1>a, <1>5 DEF Load, GotoIf
  <2>2. CASE Goto(c, "loaded")
    <3>1. pc'[c] = "loaded"
      BY <1>i, <2>2
    <3>2. Writers' = Writers
      BY <1>e, <2>1, <3>1 DEF Writers, Holders
    <3>3. \A ids : Behind(ids) => Behind(ids)'
      BY <2>1, <3>2 DEF Behind
    <3>4. QED BY <1>e, <1>f, <2>1, <3>1, <3>3 DEF BehindInv
  <2>3. QED BY <1>h, <2>1, <2>2
<1>6. ASSUME VerifyNext(c) \/ VerifyAll(c) PROVE BehindInv'
  <2>1. UNCHANGED <<file, copy, loaded>> /\ pc[c] = "loaded"
    BY <1>6 DEF VerifyNext, VerifyAll
  <2>2. \/ Throw(c)
        \/ Goto(c, "verified") /\ Begins(loaded[c].ids, next'[c].ids)
    <3>1. loaded[c] \in ManifestFiles /\ loaded[c].ids \in Seq(Nat)
      BY <1>a, <1>b
    <3>2. CASE VerifyNext(c)
      <4>1. CASE /\ PrefixOfLog(loaded[c].ids)
                 /\ NextInLog(loaded[c], Head(pending[c]))
        <5>1. /\ next' = [next EXCEPT ![c] = Recorded(loaded[c], Head(pending[c]))]
              /\ Goto(c, "verified")
          BY <3>2, <4>1 DEF VerifyNext, GotoIf
        <5>2. Head(pending[c]) \in Nat
          <6>1. Len(loaded[c].ids) + 1 \in 1..Len(log)
            <7>1. Len(loaded[c].ids) \in Nat /\ Len(log) \in Nat
              BY <3>1, LenProperties DEF TypeInv, TypeOK
            <7>2. QED BY <4>1, <7>1 DEF NextInLog
          <6>2. QED BY <4>1, <6>1 DEF NextInLog, TypeInv, Indexed
        <5>3. next'[c] = Recorded(loaded[c], Head(pending[c]))
          BY <1>a, <5>1
        <5>4. QED BY <3>1, <5>1, <5>2, <5>3, BeginsRecorded
      <4>2. CASE ~(/\ PrefixOfLog(loaded[c].ids)
                   /\ NextInLog(loaded[c], Head(pending[c])))
        BY <3>2, <4>2 DEF VerifyNext, GotoIf
      <4>3. QED BY <4>1, <4>2
    <3>3. CASE VerifyAll(c)
      <4>1. next'[c].ids = loaded[c].ids
        BY <1>a, <3>3 DEF VerifyAll, Manifest
      <4>2. Goto(c, "verified") \/ Throw(c)
        BY <3>3 DEF VerifyAll, GotoIf
      <4>3. QED BY <3>1, <4>1, <4>2, BeginsItself
    <3>4. QED BY <1>6, <3>2, <3>3
  <2>3. CASE Goto(c, "verified") /\ Begins(loaded[c].ids, next'[c].ids)
    <3>1. pc'[c] = "verified"
      BY <1>i, <2>3
    <3>2. Writers' = Writers /\ \A d \in Writers : next'[d] = next[d]
      BY <1>e, <2>1, <3>1 DEF Writers, Holders
    <3>3. \A ids : Behind(ids) => Behind(ids)'
      BY <2>1, <3>2 DEF Behind
    <3>4. QED BY <1>e, <1>f, <2>1, <2>3, <3>1, <3>3 DEF BehindInv
  <2>4. QED BY <1>h, <2>1, <2>2, <2>3
<1>7. ASSUME Recheck(c) PROVE BehindInv'
  <2>1. UNCHANGED <<file, copy, loaded, next>> /\ pc[c] = "verified"
        /\ ((Goto(c, "write") /\ Readable(file)) \/ Throw(c))
    BY <1>7 DEF Recheck, GotoIf, SameGeneration
  <2>2. CASE Goto(c, "write") /\ Readable(file)
    <3>1. pc'[c] = "write"
      BY <1>i, <2>2
    <3>2. Writers' \subseteq Writers \cup {c}
      BY <1>e, <2>1, <3>1 DEF Writers, Holders
    <3>3. SUFFICES ASSUME AtMostOne(CreatedBy)' PROVE BehindInv'
      BY DEF BehindInv
    <3>4. Begins(file.ids, next[c].ids)
      BY <1>f, <2>1, <2>2, <3>3 DEF BehindInv
    <3>5. ASSUME NEW ids \in Seq(Nat), Behind(ids) PROVE Behind(ids)'
      <4>1. Begins(ids, file.ids)
        BY <2>2, <3>5 DEF Behind
      <4>2. Begins(ids, next[c].ids)
        BY <1>a, <1>b, <3>4, <3>5, <4>1, BeginsTransitively
      <4>3. QED BY <2>1, <3>2, <3>5, <4>2 DEF Behind
    <3>6. file.ids \in Seq(Nat) /\ \A d \in Clients :
             copy[d].ids \in Seq(Nat) /\ loaded[d].ids \in Seq(Nat)
      BY <1>a, <1>b
    <3>7. Readable(file') => Behind(file.ids)'
      <4>1. Behind(file.ids)
        BY <1>f, <2>2, <3>3 DEF BehindInv
      <4>2. \A ids : ids = file.ids => Behind(ids)'
        BY <3>5, <3>6, <4>1
      <4>3. QED BY <2>1, <4>2 DEF Behind
    <3>8. ASSUME NEW d \in Clients, Readable(copy[d]) PROVE Behind(copy[d].ids)'
      <4>1. Behind(copy[d].ids)
        BY <1>f, <3>3, <3>8 DEF BehindInv
      <4>2. \A ids : ids = copy[d].ids => Behind(ids)'
        BY <3>5, <3>6, <4>1
      <4>3. QED BY <2>1, <4>2 DEF Behind
    <3>9. ASSUME NEW d \in Clients, pc'[d] = "check" PROVE Behind(loaded[d].ids)'
      <4>1. Behind(loaded[d].ids)
        BY <1>e, <1>f, <3>1, <3>3, <3>9 DEF BehindInv
      <4>2. \A ids : ids = loaded[d].ids => Behind(ids)'
        BY <3>5, <3>6, <4>1
      <4>3. QED BY <2>1, <4>2 DEF Behind
    <3>10. \A d \in Clients :
             (/\ pc[d] \in {"loaded", "verified"} /\ Readable(file) => loaded[d] = file
              /\ pc[d] = "verified" => Begins(loaded[d].ids, next[d].ids))'
      BY <1>e, <1>f, <2>1, <3>1, <3>3 DEF BehindInv
    <3>11. QED BY <2>1, <3>7, <3>8, <3>9, <3>10 DEF BehindInv
  <2>3. QED BY <1>h, <2>1, <2>2
<1>8. ASSUME LoadForCheck(c) PROVE BehindInv'
  <2>1. /\ UNCHANGED <<file, copy, next>> /\ pc[c] = "ready" /\ loaded'[c] = file
        /\ (Goto(c, "check") /\ Readable(file)) \/ Throw(c)
    BY <1>a, <1>8 DEF LoadForCheck, GotoIf, SameGeneration
  <2>2. CASE Goto(c, "check") /\ Readable(file)
    <3>1. pc'[c] = "check"
      BY <1>i, <2>2
    <3>2. Writers' = Writers
      BY <1>e, <2>1, <3>1 DEF Writers, Holders
    <3>3. \A ids : Behind(ids) => Behind(ids)'
      BY <2>1, <3>2 DEF Behind
    <3>4. QED BY <1>e, <1>f, <2>1, <2>2, <3>1, <3>3 DEF BehindInv
  <2>3. QED BY <1>h, <2>1, <2>2
<1>9. ASSUME CheckSequence(c) PROVE BehindInv'
  <2>1. /\ UNCHANGED <<file, loaded, next>> /\ pc[c] = "check" /\ copy'[c] = loaded[c]
        /\ Goto(c, "complete") \/ Throw(c)
    BY <1>a, <1>9 DEF CheckSequence, GotoIf
  <2>2. pc'[c] \in {"complete", "unlock", "failed"}
    BY <1>a, <1>i, <2>1 DEF Throw
  <2>3. Writers' = Writers
    BY <1>e, <2>1, <2>2 DEF Writers, Holders
  <2>4. \A ids : Behind(ids) => Behind(ids)'
    BY <2>1, <2>3 DEF Behind
  <2>5. QED BY <1>e, <1>f, <2>1, <2>2, <2>4 DEF BehindInv
<1>10. ASSUME CallLocked(c) \/ Call(c) PROVE BehindInv'
  <2>1. StartCall(c)
    BY <1>10 DEF CallLocked, Call
  <2>2. UNCHANGED <<file, copy>> /\ Goto(c, "rpc")
    BY <2>1 DEF StartCall
  <2>3. QED BY <1>g, <1>i, <2>2
<1>11. ASSUME Reply(c) \/ ChildReply(c) PROVE BehindInv'
  <2>1. /\ UNCHANGED <<file, copy>>
        /\ Goto(c, IF lock = c THEN "locked" ELSE "record") \/ Goto(c, "record") \/ Throw(c)
    BY <1>11 DEF Reply, ChildReply, GotoIf
  <2>2. QED BY <1>g, <1>h, <1>i, <2>1
<1>12. ASSUME Lock(c) \/ LockBusy(c) PROVE BehindInv'
  <2>1. UNCHANGED <<file, copy>> /\ (Goto(c, "locked") \/ Throw(c))
    BY <1>12 DEF Lock, LockBusy
  <2>2. QED BY <1>g, <1>h, <1>i, <2>1
<1>13. ASSUME Unlock(c) PROVE BehindInv'
  BY <1>a, <1>g, <1>13 DEF Unlock
<1>14. ASSUME CallRecorded(c) PROVE BehindInv'
  <2>1. UNCHANGED <<file, copy>> /\ (Goto(c, "ready") \/ Throw(c))
    BY <1>14 DEF CallRecorded, GotoIf
  <2>2. QED BY <1>g, <1>h, <1>i, <2>1
<1>15. ASSUME Serve(c) \/ ServeFails(c) \/ ChildTimeOut(c) PROVE BehindInv'
  <2>1. UNCHANGED <<file, copy, loaded, next, pc>>
    BY <1>15 DEF Serve, ServeFails, ChildTimeOut
  <2>2. Writers' = Writers
    BY <2>1 DEF Writers, Holders
  <2>3. \A ids : Behind(ids) => Behind(ids)'
    BY <2>1, <2>2 DEF Behind
  <2>4. QED BY <1>f, <2>1, <2>3 DEF BehindInv
<1>16. ASSUME TimeOut(c) PROVE BehindInv'
  BY <1>h, <1>16 DEF TimeOut
<1>17. ASSUME Crash(c) PROVE BehindInv'
  BY <1>g, <1>i, <1>17 DEF Crash
<1>18. QED
  BY <1>1, <1>2, <1>3, <1>4, <1>5, <1>6, <1>7, <1>8, <1>9, <1>10, <1>11, <1>12, <1>13,
     <1>14, <1>15, <1>16, <1>17 DEF StepOf, ClientStep

LEMMA StepRecordedInv == RecordedInv /\ [Next]_vars => RecordedInv'
<1> SUFFICES ASSUME RecordedInv, [Next]_vars PROVE RecordedInv'
  OBVIOUS
<1>1. TypeInv'
  BY StepTypeInv DEF RecordedInv
<1>2. CASE UNCHANGED vars
  <2>1. ShapeInv'
    BY <1>2 DEF vars, RecordedInv, ShapeInv, Shaped, Inside, Holders, CreatedBy
  <2>2. Writers' = Writers /\ CreatedBy' = CreatedBy
    BY <1>2 DEF vars, Writers, CreatedBy, Holders
  <2>3. \A ids : Behind(ids) => Behind(ids)'
    BY <1>2, <2>2 DEF vars, Behind
  <2>4. BehindInv'
    BY <1>2, <2>2, <2>3 DEF vars, RecordedInv, BehindInv, AtMostOne
  <2>5. QED BY <1>1, <2>1, <2>4 DEF RecordedInv
<1>3. CASE Next
  <2>1. PICK c \in Clients : StepOf(c)
    BY <1>3 DEF Next, StepOf
  <2>2. ShapeInv' /\ BehindInv'
    BY <1>1, <2>1, ShapeStep, BehindStep DEF RecordedInv
  <2>3. QED BY <1>1, <2>2 DEF RecordedInv
<1>4. QED BY <1>2, <1>3

\* What a client has recorded stays recorded: whoever holds the lock or lost it to
\* a crash, no write of another client goes back behind it.
THEOREM RecordedAlwaysStays == Spec => []RecordedStays
<1>1. Init => RecordedInv
  BY InitTypeInv, RecordedInit DEF RecordedInv
<1>2. ASSUME RecordedInv PROVE RecordedStays
  <2>1. SUFFICES ASSUME AtMostOne(CreatedBy), Readable(file), NEW c \in Holders
                 PROVE  Begins(copy[c].ids, file.ids)
    BY DEF RecordedStays, Begins
  <2>2. c \in Clients /\ Readable(copy[c])
    BY DEF Holders
  <2>3. Behind(copy[c].ids)
    BY <1>2, <2>1, <2>2 DEF RecordedInv, BehindInv
  <2>4. QED BY <2>1, <2>3 DEF Behind
<1>3. QED BY <1>1, <1>2, StepRecordedInv, PTL DEF Spec
-----------------------------------------------------------------------------
(* The proof of TerminalHidesNothing *)

LEMMA CallsStep ==
    ASSUME TypeInv, ShapeInv, CallsInv, NEW c \in Clients, StepOf(c)
    PROVE  CallsInv' /\ \A d \in Clients : d # c => call'[d] = call[d] /\ step'[d] = step[d]
<1>0. OnlyMoves(c) /\ Grows
  BY ShapeStep
<1>a. /\ pc \in [Clients -> Points] /\ erred \in [Clients -> BOOLEAN]
      /\ call \in [Clients -> CallType] /\ step \in [Clients -> Nat \ {0}]
  BY DEF TypeInv, TypeOK, CallType
<1>b. Readable(copy[c]) => Readable(copy'[c])
  BY <1>0 DEF Grows, Holders
<1>c. Shaped(c)
  BY DEF ShapeInv
<1> DEFINE Rest == \A d \in Clients : d # c => call'[d] = call[d] /\ step'[d] = step[d]
           Mine == /\ ~Quiet(c) => Readable(copy[c])
                   /\ ~Quiet(c) => pc[c] = "rpc" \/ erred[c] \/ pc[c] = "dead"
                   /\ pc[c] = "rpc" => call[c].late = <<>>
<1>d. ASSUME Rest, Mine' PROVE CallsInv' /\ Rest
  BY <1>0, <1>d DEF CallsInv, OnlyMoves, Quiet
<1>e. Mine
  BY DEF CallsInv
\* Steps that leave the calls alone.
<1>f. ASSUME UNCHANGED call, pc'[c] # "rpc", erred[c] => erred'[c],
             Quiet(c) \/ pc[c] # "rpc" \/ erred'[c] \/ pc'[c] = "dead",
             pc[c] # "dead"
      PROVE  Mine'
  <2>1. Quiet(c)' = Quiet(c)
    BY <1>f DEF Quiet
  <2>2. QED BY <1>b, <1>e, <1>f, <2>1
<1>g. ASSUME NEW point, Goto(c, point) PROVE pc'[c] = point /\ erred'[c] = erred[c]
  BY <1>a, <1>g DEF Goto
<1>h. ASSUME Throw(c) PROVE pc'[c] \in {"unlock", "failed"} /\ erred'[c]
  BY <1>a, <1>h DEF Throw
<1>1. ASSUME CallLocked(c) \/ Call(c) PROVE CallsInv' /\ Rest
  <2>1. StartCall(c) /\ pc[c] = "ready"
    BY <1>1 DEF CallLocked, Call
  <2>2. PICK o \in Calls(c)[step[c]].outcomes :
          call' = [call EXCEPT ![c].todo = o.events, ![c].done = <<>>,
                               ![c].served = TRUE, ![c].accepted = o.accepted]
    BY <2>1, Zenon DEF StartCall
  <2>3. step' = step /\ Goto(c, "rpc")
    BY <2>1 DEF StartCall
  <2>4. call'[c].late = call[c].late /\ \A d \in Clients : d # c => call'[d] = call[d]
    BY <1>a, <2>2 DEF CallType
  <2>5. Readable(copy[c]) /\ ~erred[c]
    BY <1>c, <2>1 DEF Shaped, Working
  <2>6. call[c].late = <<>>
    BY <1>e, <2>1, <2>5 DEF Quiet
  <2>7. Mine'
    BY <1>b, <1>g, <2>3, <2>4, <2>5, <2>6
  <2>8. QED BY <1>d, <2>3, <2>4, <2>7
<1>2. ASSUME Reply(c) \/ ChildReply(c) PROVE CallsInv' /\ Rest
  <2>1. /\ UNCHANGED <<call, step>> /\ pc[c] = "rpc" /\ call[c].todo = <<>>
        /\ Goto(c, IF lock = c THEN "locked" ELSE "record") \/ Goto(c, "record") \/ Throw(c)
    BY <1>2 DEF Reply, ChildReply, GotoIf
  <2>2. Quiet(c)
    BY <1>e, <2>1 DEF Quiet
  <2>3. pc'[c] # "rpc" /\ (erred[c] => erred'[c])
    BY <1>g, <1>h, <2>1
  <2>4. QED BY <1>d, <1>f, <2>1, <2>2, <2>3
<1>3. ASSUME CheckMissing(c) \/ Open(c) \/ LockBusy(c) \/ Load(c) \/ Recheck(c)
               \/ LoadForCheck(c) \/ CheckSequence(c)
      PROVE  CallsInv' /\ Rest
  <2>1. /\ UNCHANGED <<call, step>> /\ pc[c] \notin {"rpc", "dead"}
        /\ \/ \E point \in Points \ {"rpc"} : Goto(c, point)
           \/ Throw(c)
    BY <1>3 DEF CheckMissing, Open, LockBusy, Load, Recheck, LoadForCheck, CheckSequence,
       GotoIf, WantsLock, Points
  <2>2. pc'[c] # "rpc" /\ (erred[c] => erred'[c])
    BY <1>g, <1>h, <2>1
  <2>3. QED BY <1>d, <1>f, <2>1, <2>2
<1>4. ASSUME Truncate(c) \/ Write(c) \/ Lock(c) PROVE CallsInv' /\ Rest
  <2>1. /\ UNCHANGED <<call, step>> /\ pc[c] \notin {"rpc", "dead"}
        /\ \E point \in {"writing", "unlock", "ready", "locked"} : Goto(c, point)
    BY <1>4 DEF Truncate, Write, Lock, WantsLock
  <2>2. pc'[c] # "rpc" /\ (erred[c] => erred'[c])
    BY <1>g, <2>1
  <2>3. QED BY <1>d, <1>f, <2>1, <2>2
<1>5. ASSUME VerifyNext(c) \/ VerifyAll(c) PROVE CallsInv' /\ Rest
  <2>1. /\ UNCHANGED <<call, step>> /\ pc[c] = "loaded"
        /\ Goto(c, "verified") \/ Throw(c)
    BY <1>5 DEF VerifyNext, VerifyAll, GotoIf
  <2>2. pc'[c] # "rpc" /\ (erred[c] => erred'[c])
    BY <1>g, <1>h, <2>1
  <2>3. QED BY <1>d, <1>f, <2>1, <2>2
<1>6. ASSUME Unlock(c) PROVE CallsInv' /\ Rest
  <2>1. UNCHANGED <<call, step, erred>> /\ pc[c] = "unlock"
    BY <1>6 DEF Unlock
  <2>2. pc'[c] \in {"failed", "done", "record"}
    BY <1>a, <1>6 DEF Unlock
  <2>3. QED BY <1>d, <1>f, <2>1, <2>2
<1>7. ASSUME CallRecorded(c) PROVE CallsInv' /\ Rest
  <2>1. /\ UNCHANGED call /\ pc[c] = "record" /\ step' = [step EXCEPT ![c] = @ + 1]
        /\ Goto(c, "ready") \/ Throw(c)
    BY <1>7 DEF CallRecorded, GotoIf
  <2>2. pc'[c] # "rpc" /\ (erred[c] => erred'[c])
    BY <1>g, <1>h, <2>1
  <2>3. Rest
    BY <1>a, <2>1
  <2>4. QED BY <1>d, <1>f, <2>1, <2>2, <2>3
<1>8. ASSUME Serve(c) PROVE CallsInv' /\ Rest
  <2>1. PICK part \in {"todo", "late"} :
          /\ call[c][part] # <<>>
          /\ call' = [call EXCEPT
               ![c][part] = Tail(@),
               ![c].done = IF part = "todo" THEN Append(@, Len(log) + 1) ELSE @]
          /\ UNCHANGED <<pc, erred, copy, step>>
    BY <1>8 DEF Serve
  <2>2. ~Quiet(c)
    BY <2>1 DEF Quiet
  <2>3. \A d \in Clients : d # c => call'[d] = call[d]
    BY <1>a, <2>1
  <2>4. part = "todo" => call'[c].late = call[c].late
    BY <1>a, <2>1 DEF CallType
  <2>5. pc[c] = "rpc" => call'[c].late = <<>>
    BY <1>e, <2>1, <2>4
  <2>6. Mine'
    BY <1>e, <2>1, <2>2, <2>5
  <2>7. QED BY <1>d, <2>1, <2>3, <2>6
<1>9. ASSUME ServeFails(c) \/ ChildTimeOut(c) PROVE CallsInv' /\ Rest
  <2>1. /\ UNCHANGED <<pc, erred, copy, step>>
        /\ \/ call' = [call EXCEPT ![c].todo = <<>>, ![c].late = <<>>, ![c].served = FALSE]
           \/ /\ call' = [call EXCEPT ![c].todo = <<>>, ![c].served = FALSE]
              /\ pc[c] = "rpc"
    BY <1>9 DEF ServeFails, ChildTimeOut
  <2>2. \A d \in Clients : d # c => call'[d] = call[d]
    BY <1>a, <2>1
  <2>3. call'[c].todo = <<>> /\ call'[c].late \in {<<>>, call[c].late}
    BY <1>a, <2>1 DEF CallType
  <2>4. Mine'
    BY <1>e, <2>1, <2>3 DEF Quiet
  <2>5. QED BY <1>d, <2>1, <2>2, <2>4
<1>10. ASSUME TimeOut(c) PROVE CallsInv' /\ Rest
  <2>1. /\ UNCHANGED <<copy, step>> /\ Throw(c) /\ pc[c] = "rpc"
        /\ call' = [call EXCEPT ![c].late = call[c].todo, ![c].todo = <<>>]
    BY <1>10 DEF TimeOut
  <2>2. \A d \in Clients : d # c => call'[d] = call[d]
    BY <1>a, <2>1
  <2>3. Readable(copy[c])
    BY <1>c, <2>1 DEF Shaped, Working
  <2>4. Mine'
    BY <1>b, <1>h, <2>1, <2>3
  <2>5. QED BY <1>d, <2>1, <2>2, <2>4
<1>11. ASSUME Crash(c) PROVE CallsInv' /\ Rest
  <2>1. /\ UNCHANGED <<call, step, copy>> /\ pc'[c] = "dead" /\ erred'[c] = erred[c]
    BY <1>g, <1>11 DEF Crash
  <2>2. Mine'
    BY <1>e, <2>1 DEF Quiet
  <2>3. QED BY <1>d, <2>1, <2>2
<1>12. QED
  BY <1>1, <1>2, <1>3, <1>4, <1>5, <1>6, <1>7, <1>8, <1>9, <1>10, <1>11 DEF StepOf, ClientStep
\* With one holder, a terminal manifest leaves the client that moves no work.
LEMMA TerminalMoves ==
    ASSUME TerminalInv, NEW c \in Clients, OnlyMoves(c), Grows,
           \A d \in Clients : d # c => call'[d] = call[d] /\ step'[d] = step[d],
           UNCHANGED <<log, file>>,
           AtMostOne(Holders)' /\ Terminal(file) =>
              /\ Quiet(c)'
              /\ pc'[c] \in {"unlock", "failed", "done", "dead"}
              /\ pc'[c] = "unlock" => Completing(c)' \/ erred'[c],
           AtMostOne(Holders)' =>
              /\ pc'[c] \in {"loaded", "verified"} => ~Terminal(loaded'[c])
              /\ pc'[c] \in {"verified", "write", "writing"} /\ Terminal(next'[c]) =>
                    Len(next'[c].ids) = Len(log) /\ Completing(c)'
    PROVE  TerminalInv'
<1> SUFFICES ASSUME AtMostOne(Holders)'
             PROVE  /\ (Terminal(file) =>
                          /\ Len(file.ids) = Len(log)
                          /\ \A d \in Clients : Quiet(d)
                          /\ \A d \in Holders : pc[d] \in {"unlock", "done", "failed", "dead"}
                          /\ \A d \in Clients : pc[d] = "unlock" => Completing(d) \/ erred[d])'
                    /\ \A d \in Clients :
                          (/\ pc[d] \in {"loaded", "verified"} => ~Terminal(loaded[d])
                           /\ pc[d] \in {"verified", "write", "writing"} /\ Terminal(next[d]) =>
                                 Len(next[d].ids) = Len(log) /\ Completing(d))'
  BY DEF TerminalInv
<1>1. AtMostOne(Holders)
  BY DEF AtMostOne, Grows
<1>2. \A d \in Clients : d # c =>
        /\ Quiet(d)' = Quiet(d)
        /\ Completing(d)' = Completing(d)
        /\ d \in Holders' => d \in Holders
  BY DEF OnlyMoves, Quiet, Completing, Calls, Holders
<1>3. Holders' \subseteq Clients
  BY DEF Holders
<1>4. ASSUME Terminal(file)
      PROVE  /\ Len(file'.ids) = Len(log')
             /\ \A d \in Clients : Quiet(d)'
             /\ \A d \in Holders' : pc'[d] \in {"unlock", "done", "failed", "dead"}
             /\ \A d \in Clients : pc'[d] = "unlock" => Completing(d)' \/ erred'[d]
  <2>1. /\ Len(file.ids) = Len(log)
        /\ \A d \in Clients : Quiet(d)
        /\ \A d \in Holders : pc[d] \in {"unlock", "done", "failed", "dead"}
        /\ \A d \in Clients : pc[d] = "unlock" => Completing(d) \/ erred[d]
    BY <1>1, <1>4 DEF TerminalInv
  <2>2. ASSUME NEW d \in Clients PROVE Quiet(d)'
    BY <1>2, <1>4, <2>1
  <2>3. \A d \in Holders' : pc'[d] \in {"unlock", "done", "failed", "dead"}
    BY <1>2, <1>3, <1>4, <2>1 DEF OnlyMoves
  <2>4. ASSUME NEW d \in Clients, pc'[d] = "unlock" PROVE Completing(d)' \/ erred'[d]
    BY <1>2, <1>4, <2>1, <2>4 DEF OnlyMoves
  <2>5. QED BY <2>1, <2>2, <2>3, <2>4
<1>5. ASSUME NEW d \in Clients, d # c
      PROVE  (/\ pc[d] \in {"loaded", "verified"} => ~Terminal(loaded[d])
              /\ pc[d] \in {"verified", "write", "writing"} /\ Terminal(next[d]) =>
                    Len(next[d].ids) = Len(log) /\ Completing(d))'
  <2>1. /\ pc'[d] = pc[d] /\ loaded'[d] = loaded[d] /\ next'[d] = next[d]
        /\ Completing(d)' = Completing(d)
    BY <1>2, <1>5 DEF OnlyMoves
  <2>2. /\ pc[d] \in {"loaded", "verified"} => ~Terminal(loaded[d])
        /\ pc[d] \in {"verified", "write", "writing"} /\ Terminal(next[d]) =>
              Len(next[d].ids) = Len(log) /\ Completing(d)
    BY <1>1 DEF TerminalInv
  <2>3. QED BY <2>1, <2>2 DEF Terminal
<1>6. QED BY <1>4, <1>5 DEF Terminal

LEMMA TerminalStep ==
    ASSUME RecordedInv, CallsInv, TerminalInv, NEW c \in Clients, StepOf(c)
    PROVE  TerminalInv'
<1>0. /\ OnlyMoves(c) /\ ShapeInv' /\ Grows
      /\ \A d \in Clients : d # c => call'[d] = call[d] /\ step'[d] = step[d]
  BY ShapeStep, CallsStep DEF RecordedInv
<1>a. /\ pc \in [Clients -> Points] /\ copy \in [Clients -> ManifestFiles]
      /\ loaded \in [Clients -> ManifestFiles] /\ next \in [Clients -> ManifestFiles]
      /\ erred \in [Clients -> BOOLEAN]
  BY DEF RecordedInv, TypeInv, TypeOK
<1>b. Shaped(c)
  BY DEF RecordedInv, ShapeInv
<1>c. AtMostOne(Holders)' => AtMostOne(Holders)
  BY <1>0 DEF AtMostOne, Grows
<1>d. ASSUME NEW point, Goto(c, point) PROVE pc'[c] = point /\ erred'[c] = erred[c]
  BY <1>a, <1>d DEF Goto
\* A client at work has a manifest that is not terminal.
<1>e. ASSUME AtMostOne(Holders)', Terminal(file), pc[c] \in Working PROVE pc[c] = "done"
  <2>1. c \in Holders
    BY <1>b, <1>e DEF Shaped, Holders
  <2>2. QED BY <1>c, <1>e, <2>1 DEF TerminalInv, Working
\* Steps of a client at work that do not verify.
<1>f. ASSUME UNCHANGED <<log, file>>, pc[c] \in Working, pc[c] # "done",
             pc'[c] \notin {"loaded", "verified", "write", "writing"}
      PROVE  TerminalInv'
  BY <1>0, <1>e, <1>f, TerminalMoves
\* Throws.
<1>g. ASSUME UNCHANGED <<log, file, call>>, Throw(c) PROVE TerminalInv'
  <2>1. pc'[c] \in {"unlock", "failed"} /\ erred'[c]
    BY <1>a, <1>g DEF Throw
  <2>2. AtMostOne(Holders)' /\ Terminal(file) => Quiet(c)'
    BY <1>c, <1>g DEF TerminalInv, Quiet
  <2>3. QED BY <1>0, <1>g, <2>1, <2>2, TerminalMoves
<1>1. ASSUME CheckMissing(c) PROVE TerminalInv'
  <2>1. /\ UNCHANGED <<log, file, call>> /\ next'[c] = Fresh
        /\ (Goto(c, "write") /\ file = Missing) \/ Throw(c)
    BY <1>a, <1>1 DEF CheckMissing, GotoIf
  <2>2. ~Terminal(Fresh) /\ ~Terminal(Missing)
    BY DEF Terminal, Fresh, Missing, Manifest
  <2>3. CASE Goto(c, "write") /\ file = Missing
    <3>1. pc'[c] = "write"
      BY <1>d, <2>3
    <3>2. QED BY <1>0, <2>1, <2>2, <2>3, <3>1, TerminalMoves
  <2>4. QED BY <1>g, <2>1, <2>3
<1>2. ASSUME Open(c) PROVE TerminalInv'
  <2>1. /\ UNCHANGED <<log, file, call>> /\ copy'[c] = file /\ ~command[c].creates
        /\ (Goto(c, "ready") /\ Readable(file)) \/ Throw(c)
    BY <1>a, <1>2 DEF Open, GotoIf
  <2>2. CASE Goto(c, "ready") /\ Readable(file)
    <3>1. pc'[c] = "ready"
      BY <1>d, <2>2
    <3>2. ~AtMostOne(Holders)'
      <4>1. PICK d \in CreatedBy : TRUE
        BY <2>2 DEF RecordedInv, ShapeInv
      <4>2. d \in Holders' /\ d # c
        BY <1>0, <2>1, <4>1 DEF CreatedBy, Grows
      <4>3. c \in Holders'
        BY <2>1, <2>2 DEF Holders
      <4>4. QED BY <4>2, <4>3 DEF AtMostOne
    <3>3. QED BY <3>2 DEF TerminalInv
  <2>3. QED BY <1>g, <2>1, <2>2
<1>3. ASSUME Truncate(c) PROVE TerminalInv'
  <2>1. /\ UNCHANGED <<log, next, loaded, step, command>> /\ file' = Torn /\ pc[c] = "write"
        /\ pc' = [pc EXCEPT ![c] = "writing"]
    BY <1>3 DEF Truncate, Goto
  <2>2. ~Terminal(Torn)
    BY DEF Terminal, Torn, Manifest
  <2>3. \A d \in Clients :
          /\ Completing(d)' = Completing(d)
          /\ pc'[d] \in {"loaded", "verified"} => pc[d] = pc'[d]
          /\ pc'[d] \in {"verified", "write", "writing"} =>
                pc[d] \in {"verified", "write", "writing"}
    BY <1>a, <2>1 DEF Completing, Calls
  <2>4. QED BY <1>c, <2>1, <2>2, <2>3 DEF TerminalInv
<1>4. ASSUME Write(c) PROVE TerminalInv'
  <2>1. /\ UNCHANGED <<log, loaded, next, call, step, lock, command, erred>> /\ copy'[c] = next[c]
        /\ pc[c] = "writing"
        /\ pc' = [pc EXCEPT ![c] = IF lock = c THEN "unlock" ELSE "ready"]
        /\ file' \in {Torn, next[c]}
    BY <1>a, <1>4 DEF Write, Goto
  <2>2. SUFFICES ASSUME AtMostOne(Holders)' PROVE TerminalInv'
    BY DEF TerminalInv
  <2>3. \A d \in Clients : Completing(d)' = Completing(d) /\ Quiet(d)' = Quiet(d)
    BY <2>1 DEF Completing, Calls, Quiet
  <2>4. /\ \A d \in Clients : d # c => pc'[d] = pc[d]
        /\ pc'[c] = (IF lock = c THEN "unlock" ELSE "ready")
    BY <1>a, <2>1
  <2>5. \A d \in Clients :
          (/\ pc[d] \in {"loaded", "verified"} => ~Terminal(loaded[d])
           /\ pc[d] \in {"verified", "write", "writing"} /\ Terminal(next[d]) =>
                 Len(next[d].ids) = Len(log) /\ Completing(d))'
    BY <1>c, <2>1, <2>2, <2>3, <2>4 DEF TerminalInv
  <2>6. ASSUME Terminal(file')
        PROVE  /\ Len(file'.ids) = Len(log')
               /\ \A d \in Clients : Quiet(d)'
               /\ \A d \in Holders' : pc'[d] \in {"unlock", "done", "failed", "dead"}
               /\ \A d \in Clients : pc'[d] = "unlock" => Completing(d)' \/ erred'[d]
    <3>1. file' = next[c] /\ Terminal(next[c])
      BY <2>1, <2>6 DEF Terminal, Torn, Manifest
    <3>2. Len(next[c].ids) = Len(log) /\ Completing(c)
      BY <1>c, <2>1, <2>2, <3>1 DEF TerminalInv
    <3>3. Readable(copy[c]) /\ Readable(next[c])
      BY <1>b, <2>1, <3>1 DEF Shaped, Terminal, Fresh, Manifest, Readable
    <3>4. lock = c
      BY <1>b, <2>1, <3>3 DEF Shaped, Inside
    <3>5. c \in Holders' /\ Holders' \subseteq {c}
      BY <2>1, <2>2, <3>3 DEF Holders, AtMostOne
    <3>6. \A d \in Clients : d # c => ~Readable(copy[d])
      BY <1>0, <3>5 DEF Holders, OnlyMoves
    <3>7. ASSUME NEW d \in Clients PROVE Quiet(d)
      <4>1. CASE d = c
        BY <1>b, <2>1, <4>1 DEF CallsInv, Shaped
      <4>2. CASE d # c
        BY <3>6, <4>2 DEF CallsInv
      <4>3. QED BY <4>1, <4>2
    <3>8. ASSUME NEW d \in Clients, pc'[d] = "unlock", d # c PROVE erred'[d]
      <4>1. pc[d] = "unlock" /\ Shaped(d) /\ ~Readable(copy[d])
        BY <2>4, <3>6, <3>8 DEF RecordedInv, ShapeInv
      <4>2. QED BY <2>1, <4>1 DEF Shaped
    <3>9. QED BY <2>1, <2>3, <2>4, <3>1, <3>2, <3>4, <3>5, <3>7, <3>8
  <2>7. QED BY <2>5, <2>6 DEF TerminalInv
<1>5. ASSUME CallLocked(c) \/ Call(c) PROVE TerminalInv'
  <2>1. StartCall(c) /\ pc[c] = "ready"
    BY <1>5 DEF CallLocked, Call
  <2>2. UNCHANGED <<log, file>> /\ Goto(c, "rpc")
    BY <2>1 DEF StartCall
  <2>3. QED BY <1>d, <1>f, <2>1, <2>2 DEF Working
<1>6. ASSUME Reply(c) \/ ChildReply(c) PROVE TerminalInv'
  <2>1. /\ UNCHANGED <<log, file, call>> /\ pc[c] = "rpc"
        /\ Goto(c, IF lock = c THEN "locked" ELSE "record") \/ Goto(c, "record") \/ Throw(c)
    BY <1>6 DEF Reply, ChildReply, GotoIf
  <2>2. QED BY <1>d, <1>f, <1>g, <2>1 DEF Working
<1>7. ASSUME Lock(c) \/ LockBusy(c) PROVE TerminalInv'
  <2>1. /\ UNCHANGED <<log, file, call>> /\ pc[c] \in {"record", "complete", "ready"}
        /\ Goto(c, "locked") \/ Throw(c)
    BY <1>7 DEF Lock, LockBusy, WantsLock
  <2>2. QED BY <1>d, <1>f, <1>g, <2>1 DEF Working
<1>8. ASSUME Unlock(c) PROVE TerminalInv'
  <2>1. /\ UNCHANGED <<log, file, call, step, command>> /\ pc[c] = "unlock"
        /\ pc' = [pc EXCEPT ![c] = IF erred[c] THEN "failed"
                                   ELSE IF Completing(c) THEN "done" ELSE "record"]
    BY <1>8 DEF Unlock
  <2>2. AtMostOne(Holders)' /\ Terminal(file) =>
          Quiet(c)' /\ pc'[c] \in {"failed", "done"}
    BY <1>a, <1>c, <2>1 DEF TerminalInv, Quiet
  <2>3. pc'[c] \in {"failed", "done", "record"}
    BY <1>a, <2>1
  <2>4. QED BY <1>0, <2>1, <2>2, <2>3, TerminalMoves
<1>9. ASSUME Load(c) PROVE TerminalInv'
  <2>1. /\ UNCHANGED <<log, file, call>> /\ pc[c] = "locked" /\ loaded'[c] = file
        /\ Goto(c, "loaded") \/ Throw(c)
    BY <1>a, <1>9 DEF Load, GotoIf
  <2>2. CASE Goto(c, "loaded")
    <3>1. pc'[c] = "loaded"
      BY <1>d, <2>2
    <3>2. ~(AtMostOne(Holders)' /\ Terminal(file))
      BY <1>e, <2>1 DEF Working
    <3>3. QED BY <1>0, <2>1, <3>1, <3>2, TerminalMoves
  <2>3. QED BY <1>g, <2>1, <2>2
<1>10. ASSUME VerifyNext(c) \/ VerifyAll(c) PROVE TerminalInv'
  <2>1. UNCHANGED <<log, file, call, step, command, loaded>> /\ pc[c] = "loaded"
    BY <1>10 DEF VerifyNext, VerifyAll
  <2>2. ~(AtMostOne(Holders)' /\ Terminal(file))
    BY <1>e, <2>1 DEF Working
  <2>3. AtMostOne(Holders)' => ~Terminal(loaded[c])
    BY <1>c, <2>1 DEF TerminalInv
  <2>4. CASE VerifyNext(c)
    <3>1. CASE /\ PrefixOfLog(loaded[c].ids)
               /\ NextInLog(loaded[c], Head(pending[c]))
      <4>1. /\ next'[c] = Recorded(loaded[c], Head(pending[c])) /\ Goto(c, "verified")
        BY <1>a, <2>4, <3>1 DEF VerifyNext, GotoIf
      <4>2. next'[c].status = loaded[c].status
        BY <4>1 DEF Recorded, Manifest
      <4>3. AtMostOne(Holders)' => ~Terminal(next'[c]) /\ ~Terminal(loaded'[c])
        BY <2>1, <2>3, <4>2 DEF Terminal
      <4>4. pc'[c] = "verified"
        BY <1>d, <4>1
      <4>5. QED BY <1>0, <2>1, <2>2, <4>3, <4>4, TerminalMoves
    <3>2. CASE ~(/\ PrefixOfLog(loaded[c].ids)
                 /\ NextInLog(loaded[c], Head(pending[c])))
      BY <1>g, <2>1, <2>4, <3>2 DEF VerifyNext, GotoIf
    <3>3. QED BY <3>1, <3>2
  <2>5. CASE VerifyAll(c)
    <3>1. CASE AllOfLog(loaded[c])
      <4>1. /\ next'[c].ids = loaded[c].ids /\ Goto(c, "verified") /\ Completing(c)
        BY <1>a, <2>5, <3>1 DEF VerifyAll, GotoIf, Manifest
      <4>2. Len(next'[c].ids) = Len(log) /\ Completing(c)'
        BY <2>1, <3>1, <4>1 DEF AllOfLog, Completing, Calls
      <4>3. pc'[c] = "verified"
        BY <1>d, <4>1
      <4>4. AtMostOne(Holders)' => ~Terminal(loaded'[c])
        BY <2>1, <2>3
      <4>5. QED BY <1>0, <2>1, <2>2, <4>2, <4>3, <4>4, TerminalMoves
    <3>2. CASE ~AllOfLog(loaded[c])
      BY <1>g, <2>1, <2>5, <3>2 DEF VerifyAll, GotoIf
    <3>3. QED BY <3>1, <3>2
  <2>6. QED BY <1>10, <2>4, <2>5
<1>11. ASSUME Recheck(c) PROVE TerminalInv'
  <2>1. /\ UNCHANGED <<log, file, call, step, command, loaded, next>> /\ pc[c] = "verified"
        /\ Goto(c, "write") \/ Throw(c)
    BY <1>11 DEF Recheck, GotoIf
  <2>2. CASE Goto(c, "write")
    <3>1. pc'[c] = "write"
      BY <1>d, <2>2
    <3>2. ~(AtMostOne(Holders)' /\ Terminal(file))
      BY <1>e, <2>1 DEF Working
    <3>3. Completing(c)' = Completing(c)
      BY <2>1 DEF Completing, Calls
    <3>4. AtMostOne(Holders)' /\ Terminal(next'[c]) =>
            Len(next'[c].ids) = Len(log) /\ Completing(c)'
      BY <1>c, <2>1, <3>3 DEF TerminalInv
    <3>5. QED BY <1>0, <2>1, <3>1, <3>2, <3>4, TerminalMoves
  <2>3. QED BY <1>g, <2>1, <2>2
<1>12. ASSUME CallRecorded(c) \/ LoadForCheck(c) \/ CheckSequence(c) PROVE TerminalInv'
  <2>1. /\ UNCHANGED <<log, file, call>> /\ pc[c] \in {"record", "ready", "check"}
        /\ \/ \E point \in {"ready", "check", "complete"} : Goto(c, point)
           \/ Throw(c)
    BY <1>12 DEF CallRecorded, LoadForCheck, CheckSequence, GotoIf
  <2>2. QED BY <1>d, <1>f, <1>g, <2>1 DEF Working
<1>13. ASSUME Serve(c) PROVE TerminalInv'
  <2>1. /\ UNCHANGED <<file, pc, erred, copy, loaded, next, step, command>> /\ ~Quiet(c)
    BY <1>13 DEF Serve, Quiet
  <2>2. SUFFICES ASSUME AtMostOne(Holders)' PROVE TerminalInv'
    BY DEF TerminalInv
  <2>3. ~Terminal(file)
    BY <1>c, <2>1, <2>2 DEF TerminalInv
  <2>4. Readable(copy[c]) /\ (pc[c] = "rpc" \/ erred[c] \/ pc[c] = "dead")
    BY <2>1 DEF CallsInv
  <2>5. ASSUME NEW d \in Clients, pc[d] \in {"verified", "write", "writing"}
        PROVE  ~Terminal(next[d])
    <3>1. SUFFICES ASSUME Terminal(next[d]) PROVE FALSE
      OBVIOUS
    <3>2. Shaped(d)
      BY DEF RecordedInv, ShapeInv
    <3>3. Readable(copy[d])
      BY <2>5, <3>1, <3>2 DEF Shaped, Working, Terminal, Fresh, Manifest
    <3>4. d = c
      BY <1>c, <2>2, <2>4, <3>3 DEF AtMostOne, Holders
    <3>5. QED BY <2>4, <2>5, <3>2, <3>4 DEF Shaped
  <2>6. QED BY <1>c, <2>1, <2>2, <2>3, <2>5 DEF TerminalInv
<1>14. ASSUME ServeFails(c) PROVE TerminalInv'
  <2>1. /\ UNCHANGED <<log, file, pc, erred, copy, loaded, next, step, command>> /\ ~Quiet(c)
    BY <1>14 DEF ServeFails, Quiet
  <2>2. ~(AtMostOne(Holders)' /\ Terminal(file))
    BY <1>c, <2>1 DEF TerminalInv
  <2>3. Completing(c)' = Completing(c)
    BY <2>1 DEF Completing, Calls
  <2>4. AtMostOne(Holders)' =>
          /\ pc[c] \in {"loaded", "verified"} => ~Terminal(loaded[c])
          /\ pc[c] \in {"verified", "write", "writing"} /\ Terminal(next[c]) =>
                Len(next[c].ids) = Len(log) /\ Completing(c)
    BY <1>c DEF TerminalInv
  <2>5. QED BY <1>0, <2>1, <2>2, <2>3, <2>4, TerminalMoves
<1>15. ASSUME ChildTimeOut(c) PROVE TerminalInv'
  <2>1. UNCHANGED <<log, file, pc>> /\ pc[c] = "rpc"
    BY <1>15 DEF ChildTimeOut
  <2>2. QED BY <1>f, <2>1 DEF Working
<1>16. ASSUME TimeOut(c) PROVE TerminalInv'
  <2>1. UNCHANGED <<log, file>> /\ pc[c] = "rpc" /\ Throw(c)
    BY <1>16 DEF TimeOut
  <2>2. pc'[c] \in {"unlock", "failed"}
    BY <1>a, <2>1 DEF Throw
  <2>3. QED BY <1>f, <2>1, <2>2 DEF Working
<1>17. ASSUME Crash(c) PROVE TerminalInv'
  <2>1. UNCHANGED <<log, file, call>> /\ pc'[c] = "dead"
    BY <1>d, <1>17 DEF Crash
  <2>2. AtMostOne(Holders)' /\ Terminal(file) => Quiet(c)'
    BY <1>c, <2>1 DEF TerminalInv, Quiet
  <2>3. QED BY <1>0, <2>1, <2>2, TerminalMoves
<1>18. QED
  BY <1>1, <1>2, <1>3, <1>4, <1>5, <1>6, <1>7, <1>8, <1>9, <1>10, <1>11, <1>12, <1>13,
     <1>14, <1>15, <1>16, <1>17 DEF StepOf, ClientStep

LEMMA StepTermInv == TermInv /\ [Next]_vars => TermInv'
<1> SUFFICES ASSUME TermInv, [Next]_vars PROVE TermInv'
  OBVIOUS
<1>1. RecordedInv'
  BY StepRecordedInv DEF TermInv
<1>2. CASE UNCHANGED vars
  <2>1. /\ \A c \in Clients : Quiet(c)' = Quiet(c) /\ Completing(c)' = Completing(c)
        /\ Holders' = Holders
    BY <1>2 DEF vars, Quiet, Completing, Calls, Holders
  <2>2. CallsInv'
    BY <1>2, <2>1 DEF vars, TermInv, CallsInv
  <2>3. TerminalInv'
    <3>1. AtMostOne(Holders)' => AtMostOne(Holders)
      BY <2>1 DEF AtMostOne
    <3>2. QED BY <1>2, <2>1, <3>1 DEF vars, TermInv, TerminalInv
  <2>4. QED BY <1>1, <2>2, <2>3 DEF TermInv
<1>3. CASE Next
  <2>1. PICK c \in Clients : StepOf(c)
    BY <1>3 DEF Next, StepOf
  <2>2. CallsInv'
    BY <2>1, CallsStep DEF TermInv, RecordedInv
  <2>3. TerminalInv'
    BY <2>1, TerminalStep DEF TermInv
  <2>4. QED BY <1>1, <2>2, <2>3 DEF TermInv
<1>4. QED BY <1>2, <1>3

\* A terminal manifest that one client holds lists every ledger event of the run:
\* none arrives after it, not even from a call that timed out or that the client
\* did not live to see the answer of.
THEOREM TerminalAlwaysWhole == Spec => []TerminalHidesNothing
<1>1. Init => TermInv
  <2>1. Init => RecordedInv
    BY InitTypeInv, RecordedInit DEF RecordedInv
  <2>2. ASSUME Init PROVE CallsInv /\ TerminalInv
    <3>1. \A c \in Clients : Quiet(c) /\ pc[c] = "new" /\ call[c].late = <<>>
      <4>1. \A c \in Clients : call[c] = NoCall /\ pc[c] = "new"
        BY <2>2 DEF Init
      <4>2. NoCall.todo = <<>> /\ NoCall.late = <<>>
        BY DEF NoCall
      <4>3. QED BY <4>1, <4>2 DEF Quiet
    <3>2. ~Terminal(file)
      BY <2>2 DEF Init, Terminal, Missing, Manifest
    <3>3. QED BY <3>1, <3>2 DEF CallsInv, TerminalInv
  <2>3. QED BY <2>1, <2>2 DEF TermInv
<1>2. TermInv => TerminalHidesNothing
  BY DEF TermInv, TerminalInv, TerminalHidesNothing
<1>3. QED BY <1>1, <1>2, StepTermInv, PTL DEF Spec

-----------------------------------------------------------------------------
(* One attempt proceeds *)

\* A manifest has recorded an event exactly if it has left generation 0.
Counted(m) ==
    /\ m.generation = 0 <=> m.ids = <<>>
    /\ ~Readable(m) => m.ids = <<>>

Writing == {"write", "writing"}
Returned(ids) == \E i \in 1..Len(ids) : ids[i] = 1

\* The client has recorded the first event of the run, or may still.
Owner(c) ==
    \/ copy[c].ids # <<>> \/ next[c].ids # <<>>
    \/ Returned(pending[c]) \/ Returned(call[c].done)

\* A client that has had an answer goes on only if it recorded it.
Advances(c) ==
    /\ pc[c] \in {"loaded", "verified", "check"} => loaded[c].generation = copy[c].generation
    /\ pc[c] \in {"check", "complete"} => Completing(c)
    /\ pc[c] = "rpc" => ~Completing(c)
    /\ pc[c] \in {"locked", "loaded"} => Completing(c) \/ pending[c] # <<>>
    /\ pc[c] = "rpc" /\ call[c].served => call[c].todo # <<>> \/ call[c].done # <<>>
    /\ pc[c] = "verified" => Counted(next[c]) /\ next[c].ids # <<>>
    /\ pc[c] \in Writing => Counted(next[c])
    /\ pc[c] \in Writing /\ Readable(copy[c]) => next[c].ids # <<>>
    /\ pc[c] = "unlock" /\ ~erred[c] => copy[c].ids # <<>>
    /\ pc[c] = "record" => pending[c] # <<>> \/ copy[c].ids # <<>>
    /\ step[c] > 1 => copy[c].ids # <<>>
    /\ lock = c => Readable(copy[c])

OwnerInv ==
    /\ \A c, d \in Clients : Owner(c) /\ Owner(d) => c = d
    /\ \A c \in Clients : Owner(c) => log # <<>>

AttemptInv ==
    /\ OwnerInv
    /\ Counted(file)
    /\ \A c \in Clients : Counted(copy[c]) /\ Counted(loaded[c]) /\ Advances(c)

-----------------------------------------------------------------------------
(* What the run tells is true *)

CommitEvents == WriteEvidence \o WriteRecord

\* The supervisor has appended the first k events of a commit.
UpTo(k) ==
    \E f \in [1..6 -> Nat] :
        \A i \in 1..k :
            /\ f[i] \in 1..Len(log)
            /\ log[f[i]].type = CommitEvents[i]
            /\ i > 1 => f[i - 1] < f[i]

\* s is what remains of a commit after its first k events.
RestOf(s, k) == Len(s) = 6 - k /\ \A i \in 1..(6 - k) : s[i] = CommitEvents[k + i]

Acts(s) == \E i \in 1..Len(s) : s[i] = "action.recorded"
Commits(c) == command[c] = KernelRun(TRUE) /\ step[c] = 5
Past(c, n) == step[c] > n

\* The supervisor has appended what is missing from s.
Staged(s) == \E k \in 0..6 : RestOf(s, k) /\ UpTo(k)

Answered == {"record", "locked", "loaded", "verified", "write", "writing", "unlock"}

\* Where the events of a commit are when its client is at its fifth call or later.
Committing(c) ==
    /\ \A part \in {"todo", "late"} :
          Acts(call[c][part]) => Commits(c) /\ Staged(call[c][part])
    /\ Commits(c) /\ pc[c] = "rpc" /\ call[c].served /\ call[c].accepted =>
          Staged(call[c].todo)
    /\ Commits(c) /\ pc[c] \in Answered /\ ~erred[c] => UpTo(6)
    /\ command[c] = KernelRun(TRUE) /\ Past(c, 5) => UpTo(6)
    /\ effect[c] => command[c] = KernelRun(TRUE) /\ Past(c, 1) /\ UpTo(3)

\* A manifest tells no more than was done.
Tells(m) ==
    /\ m.status = "completed" => UpTo(6)
    /\ m.status = "blocked" =>
          \E c \in Clients : copy[c].ids # <<>> /\ command[c] = KernelRun(FALSE)

TruthInv ==
    /\ effect \in [Clients -> BOOLEAN]
    /\ \A i \in 1..Len(log) : log[i].type = "action.recorded" => \E c \in Clients : effect[c]
    /\ Tells(file)
    /\ \A c \in Clients : Tells(loaded[c]) /\ Tells(next[c]) /\ Committing(c)
-----------------------------------------------------------------------------
(* The calls of a kernel run *)

Fifth(approved) ==
    IF approved THEN [mode |-> "guarded", outcomes |-> CommitOutcomes]
    ELSE Locked("run.completed")

LEMMA CallsOfTheRun ==
    /\ Len(KernelCalls(TRUE)) = 6 /\ Len(KernelCalls(FALSE)) = 5
    /\ \A approved \in BOOLEAN :
          /\ KernelCalls(approved)[1] = Locked("run.started")
          /\ KernelCalls(approved)[2] = Locked("user.message")
          /\ KernelCalls(approved)[3] = [mode |-> "traced", outcomes |-> ReadOutcomes]
          /\ KernelCalls(approved)[4] = [mode |-> "traced", outcomes |-> PrepareOutcomes]
          /\ KernelCalls(approved)[5] = Fifth(approved)
    /\ KernelCalls(TRUE)[6] = Locked("run.completed")
BY DEF KernelCalls, Fifth

LEMMA EventsOfTheCommit ==
    /\ Len(CommitEvents) = 6
    /\ CommitEvents[1] = "consent.recorded" /\ CommitEvents[2] = "policy.decided"
    /\ CommitEvents[3] = "lease.issued" /\ CommitEvents[4] = "action.recorded"
    /\ CommitEvents[5] = "observation.recorded" /\ CommitEvents[6] = "verification.recorded"
BY DEF CommitEvents, WriteEvidence, WriteRecord

\* Only an accepted commit acts, and none of the run's calls appends nothing.
LEMMA OutcomeActs ==
    /\ \A o \in CommitOutcomes :
          /\ o.events # <<>> /\ o.accepted \in BOOLEAN
          /\ o.accepted \/ Acts(o.events) => o.events = CommitEvents
    /\ \A o \in ReadOutcomes \cup PrepareOutcomes : o.events # <<>> /\ ~Acts(o.events)
    /\ \A t \in {"run.started", "user.message", "run.completed"} :
          \A o \in Locked(t).outcomes : o.events # <<>> /\ ~Acts(o.events)
<1>1. \A o \in CommitOutcomes :
          /\ o.events # <<>> /\ o.accepted \in BOOLEAN
          /\ o.accepted \/ Acts(o.events) => o.events = CommitEvents
  <2>1. Len(CommitEvents) = 6
    BY EventsOfTheCommit
  <2>2. WriteEvidence # <<>> /\ ~Acts(WriteEvidence)
    BY DEF WriteEvidence, Acts
  <2>3. <<"policy.decided">> # <<>> /\ ~Acts(<<"policy.decided">>)
    BY DEF Acts
  <2>4. CommitEvents # <<>>
    BY <2>1
  <2>5. CommitOutcomes =
          {Accept(CommitEvents), Refuse(WriteEvidence), Refuse(<<"policy.decided">>)}
    BY DEF CommitOutcomes, CommitEvents
  <2> HIDE DEF CommitEvents, WriteEvidence, Acts
  <2>6. /\ Accept(CommitEvents).events = CommitEvents /\ Accept(CommitEvents).accepted = TRUE
        /\ \A events : Refuse(events).events = events /\ Refuse(events).accepted = FALSE
    BY DEF Accept, Refuse
  <2>7. QED BY <2>2, <2>3, <2>4, <2>5, <2>6
<1>2. \A o \in ReadOutcomes \cup PrepareOutcomes : o.events # <<>> /\ ~Acts(o.events)
  <2> DEFINE leased == Requested \o <<"lease.issued", "tool.result">>
             denied == Requested \o <<"tool.result">>
  <2>1. Requested # <<>> /\ ~Acts(Requested)
    BY DEF Requested, Acts
  <2>2. leased # <<>> /\ ~Acts(leased)
    BY DEF Requested, Acts
  <2>3. denied # <<>> /\ ~Acts(denied)
    BY DEF Requested, Acts
  <2>4. ReadOutcomes \cup PrepareOutcomes =
          {Accept(leased), Refuse(leased), Refuse(denied), Accept(Requested)}
    BY DEF ReadOutcomes, PrepareOutcomes
  <2> HIDE DEF leased, denied, Requested, Acts
  <2>5. QED BY <2>1, <2>2, <2>3, <2>4 DEF Accept, Refuse
<1>3. \A t \in {"run.started", "user.message", "run.completed"} :
          \A o \in Locked(t).outcomes : o.events # <<>> /\ ~Acts(o.events)
  BY DEF Locked, Accept, Acts
<1>4. QED BY <1>1, <1>2, <1>3

LEMMA RunsDiffer == KernelRun(TRUE) # KernelRun(FALSE)
<1>1. KernelRun(TRUE).final = "completed" /\ KernelRun(FALSE).final = "blocked"
  BY DEF KernelRun
<1>2. QED BY <1>1

\* What a client calls, wherever it is.
LEMMA CallsOf ==
    ASSUME TypeInv, NEW c \in Clients
    PROVE  /\ command[c] \in {KernelRun(TRUE), KernelRun(FALSE)}
           /\ command[c].creates
           /\ Completing(c) => step[c] > 5
           /\ ~Completing(c) =>
                 /\ Mode(c) # "child"
                 /\ \A o \in Calls(c)[step[c]].outcomes :
                       o.events # <<>> /\ (Acts(o.events) => Commits(c))
           /\ Commits(c) =>
                 /\ Mode(c) = "guarded"
                 /\ \A o \in Calls(c)[step[c]].outcomes :
                       o.accepted \/ Acts(o.events) => o.events = CommitEvents
<1>1. command[c] \in {KernelRun(TRUE), KernelRun(FALSE)}
  BY SupervisedRunAssumption DEF TypeInv, TypeOK
<1>2. PICK approved \in BOOLEAN : command[c] = KernelRun(approved)
  BY <1>1
<1>3. command[c].creates /\ Calls(c) = KernelCalls(approved)
  BY <1>2 DEF KernelRun, Calls
<1>4. /\ Len(KernelCalls(TRUE)) = 6 /\ Len(KernelCalls(FALSE)) = 5
      /\ approved = TRUE \/ approved = FALSE
  BY CallsOfTheRun
<1>5. step[c] \in Nat \ {0}
  BY DEF TypeInv, TypeOK
<1> DEFINE n == Len(Calls(c))
<1>a. n = 6 \/ n = 5
  BY <1>3, <1>4, Zenon
<1>b. approved # TRUE => n = 5
  BY <1>3, <1>4, Zenon
<1> HIDE DEF n
<1>6. Completing(c) => step[c] > 5
  <2>1. Completing(c) <=> step[c] > n
    BY DEF Completing, n
  <2>2. QED BY <1>5, <1>a, <2>1
<1>7. Commits(c) <=> approved = TRUE /\ step[c] = 5
  BY <1>2, <1>4, RunsDiffer DEF Commits
<1>8. Locked("run.started").mode = "locked" /\ Locked("user.message").mode = "locked"
      /\ Locked("run.completed").mode = "locked"
  BY DEF Locked
<1>9. ASSUME ~Completing(c)
      PROVE  /\ Mode(c) # "child"
             /\ \A o \in Calls(c)[step[c]].outcomes :
                   o.events # <<>> /\ (Acts(o.events) => Commits(c))
  <2>0. ~(step[c] > n)
    BY <1>9 DEF Completing, n
  <2>1. step[c] \in 1..6 /\ (step[c] = 6 => n # 5)
    BY <1>5, <1>a, <2>0
  <2>a. step[c] = 6 => approved = TRUE
    BY <1>b, <2>1, Zenon
  <2>b. step[c] \in {1, 2, 3, 4, 5, 6}
    BY <2>1
  <2>2. CASE step[c] = 1
    <3>1. Calls(c)[step[c]] = Locked("run.started")
      BY <1>3, <2>2, CallsOfTheRun
    <3>2. QED BY <1>8, <3>1, OutcomeActs DEF Mode
  <2>3. CASE step[c] = 2
    <3>1. Calls(c)[step[c]] = Locked("user.message")
      BY <1>3, <2>3, CallsOfTheRun
    <3>2. QED BY <1>8, <3>1, OutcomeActs DEF Mode
  <2>4. CASE step[c] = 3
    <3>1. Calls(c)[step[c]] = [mode |-> "traced", outcomes |-> ReadOutcomes]
      BY <1>3, <2>4, CallsOfTheRun
    <3>2. QED BY <3>1, OutcomeActs DEF Mode
  <2>5. CASE step[c] = 4
    <3>1. Calls(c)[step[c]] = [mode |-> "traced", outcomes |-> PrepareOutcomes]
      BY <1>3, <2>5, CallsOfTheRun
    <3>2. QED BY <3>1, OutcomeActs DEF Mode
  <2>6. CASE step[c] = 5 /\ approved = TRUE
    <3>1. Calls(c)[step[c]] = [mode |-> "guarded", outcomes |-> CommitOutcomes]
      BY <1>3, <2>6, CallsOfTheRun DEF Fifth
    <3>2. QED BY <1>7, <2>6, <3>1, OutcomeActs DEF Mode
  <2>7. CASE step[c] = 5 /\ approved = FALSE
    <3>1. Calls(c)[step[c]] = Locked("run.completed")
      BY <1>3, <2>7, CallsOfTheRun DEF Fifth
    <3>2. QED BY <1>8, <3>1, OutcomeActs DEF Mode
  <2>8. CASE step[c] = 6
    <3>1. Calls(c)[step[c]] = Locked("run.completed")
      BY <1>3, <2>a, <2>8, CallsOfTheRun
    <3>2. QED BY <1>8, <3>1, OutcomeActs DEF Mode
  <2>9. QED BY <1>4, <2>b, <2>2, <2>3, <2>4, <2>5, <2>6, <2>7, <2>8, Zenon
<1>10. ASSUME Commits(c)
       PROVE  /\ Mode(c) = "guarded"
              /\ \A o \in Calls(c)[step[c]].outcomes :
                    o.accepted \/ Acts(o.events) => o.events = CommitEvents
  <2>1. Calls(c)[step[c]] = [mode |-> "guarded", outcomes |-> CommitOutcomes]
    BY <1>3, <1>7, <1>10, CallsOfTheRun DEF Fifth
  <2>2. QED BY <2>1, OutcomeActs DEF Mode
<1>11. QED BY <1>1, <1>3, <1>6, <1>9, <1>10
-----------------------------------------------------------------------------
(* The proof of OneAttemptProceeds *)

\* What a step of one client leaves alone.
LEMMA OthersStay ==
    ASSUME TypeInv, NEW c \in Clients, StepOf(c)
    PROVE  /\ lock' = lock \/ lock' = c \/ lock' = "none"
           /\ \A d \in Clients : d # c => pending'[d] = pending[d]
<1>1. pending \in [Clients -> Seq(Nat)]
  BY DEF TypeInv, TypeOK
<1>2. CASE ClientStep(c)
  <2>1. CASE Reply(c) \/ ChildReply(c) \/ Unlock(c)
    BY SMTT(30), <1>1, <2>1 DEF Reply, ChildReply, Unlock
  <2>2. CASE CallLocked(c) \/ Call(c) \/ Lock(c) \/ LockBusy(c)
    BY <2>2 DEF CallLocked, Call, StartCall, Lock, LockBusy
  <2>3. CASE CheckMissing(c) \/ Open(c) \/ Truncate(c) \/ Write(c) \/ Load(c) \/ VerifyNext(c)
               \/ VerifyAll(c) \/ Recheck(c) \/ CallRecorded(c) \/ LoadForCheck(c)
               \/ CheckSequence(c)
    BY <2>3 DEF CheckMissing, Open, Truncate, Write, Load, VerifyNext, VerifyAll, Recheck,
       CallRecorded, LoadForCheck, CheckSequence
  <2>4. QED BY <1>2, <2>1, <2>2, <2>3 DEF ClientStep
<1>3. CASE Serve(c) \/ ServeFails(c) \/ TimeOut(c) \/ ChildTimeOut(c) \/ Crash(c)
  BY <1>3 DEF Serve, ServeFails, TimeOut, ChildTimeOut, Crash
<1>4. QED BY <1>2, <1>3 DEF StepOf

\* It is enough to look at the client that moves.
LEMMA AttemptMoves ==
    ASSUME TypeInv, ShapeInv, CallsInv, AttemptInv, NEW c \in Clients, StepOf(c),
           Counted(file)', Counted(copy[c])', Counted(loaded[c])', Advances(c)',
           log # <<>> => log' # <<>>,
           Owner(c)' => (Owner(c) \/ log = <<>>) /\ log' # <<>>
    PROVE  AttemptInv'
<1>1. OnlyMoves(c)
  BY ShapeStep
<1>2. \A d \in Clients : d # c => call'[d] = call[d] /\ step'[d] = step[d]
  BY CallsStep
<1>3. /\ lock' = lock \/ lock' = c \/ lock' = "none"
      /\ \A d \in Clients : d # c => pending'[d] = pending[d]
  BY OthersStay
<1>4. ASSUME NEW d \in Clients, d # c
      PROVE  /\ Owner(d)' <=> Owner(d)
             /\ Counted(copy[d])' /\ Counted(loaded[d])' /\ Advances(d)'
  <2>1. /\ UNCHANGED <<pc[d], erred[d], copy[d], loaded[d], next[d], call[d], step[d],
                       pending[d], command>>
        /\ Counted(copy[d]) /\ Counted(loaded[d]) /\ Advances(d)
    BY <1>1, <1>2, <1>3, <1>4 DEF OnlyMoves, AttemptInv
  <2>2. lock' = d => lock = d
    BY <1>3, <1>4, RunManifestAssumption DEF RunManifestAssumption
  <2>3. Completing(d)' <=> Completing(d)
    BY <2>1 DEF Completing, Calls
  <2>4. Owner(d)' <=> Owner(d)
    BY <2>1 DEF Owner, Returned
  <2>5. Counted(copy[d])' /\ Counted(loaded[d])'
    BY <2>1 DEF Counted, Readable
  <2>6. Advances(d)'
    BY <2>1, <2>2, <2>3 DEF Advances, Counted, Readable
  <2>7. QED BY <2>4, <2>5, <2>6
<1>5. OwnerInv'
  <2>1. ASSUME NEW d \in Clients, NEW e \in Clients, Owner(d)', Owner(e)' PROVE d = e
    <3>1. OwnerInv
      BY DEF AttemptInv
    <3>2. CASE d # c /\ e # c
      BY <1>4, <2>1, <3>1, <3>2 DEF OwnerInv
    <3>3. CASE d = c /\ e # c
      BY <1>4, <2>1, <3>1, <3>3 DEF OwnerInv
    <3>4. CASE d # c /\ e = c
      BY <1>4, <2>1, <3>1, <3>4 DEF OwnerInv
    <3>5. QED BY <3>2, <3>3, <3>4
  <2>2. ASSUME NEW d \in Clients, Owner(d)' PROVE log' # <<>>
    <3>1. CASE d = c
      BY <2>2, <3>1
    <3>2. CASE d # c
      BY <1>4, <2>2, <3>2 DEF AttemptInv, OwnerInv
    <3>3. QED BY <3>1, <3>2
  <2>3. QED BY <2>1, <2>2 DEF OwnerInv
<1>6. QED BY <1>4, <1>5 DEF AttemptInv

\* Steps that leave what a client has and waits for alone.
LEMMA AttemptPasses ==
    ASSUME TypeInv, ShapeInv, CallsInv, AttemptInv, NEW c \in Clients, StepOf(c),
           UNCHANGED <<log, file, copy, next, step, command>>,
           loaded'[c] \in {loaded[c], file},
           call'[c].done = call[c].done \/ call'[c].done = <<>>,
           \/ pending'[c] \in {pending[c], call[c].done}
           \/ pending[c] # <<>> /\ pending'[c] = Tail(pending[c]),
           Advances(c)'
    PROVE  AttemptInv'
<1>1. Counted(file) /\ Counted(copy[c]) /\ Counted(loaded[c])
  BY DEF AttemptInv
<1>2. Counted(file)' /\ Counted(copy[c])' /\ Counted(loaded[c])'
  BY <1>1 DEF Counted, Readable
<1>3. pending[c] \in Seq(Nat)
  BY DEF TypeInv, TypeOK
<1>4. Returned(pending'[c]) => Returned(pending[c]) \/ Returned(call[c].done)
  <2>1. CASE pending'[c] = Tail(pending[c]) /\ pending[c] # <<>>
    BY <1>3, <2>1 DEF Returned
  <2>2. CASE pending'[c] = pending[c] \/ pending'[c] = call[c].done
    BY <2>2
  <2>3. QED BY <2>1, <2>2
<1>5. ~Returned(<<>>)
  BY DEF Returned
<1>6. Returned(call'[c].done) => Returned(call[c].done)
  BY <1>5
<1>7. Owner(c)' => Owner(c)
  <2>1. Owner(c)' => \/ copy[c].ids # <<>> \/ next[c].ids # <<>>
                     \/ Returned(pending'[c]) \/ Returned(call'[c].done)
    BY DEF Owner, Returned
  <2>2. QED BY <1>4, <1>6, <2>1 DEF Owner
<1>8. Owner(c) => log # <<>>
  BY DEF AttemptInv, OwnerInv
<1>9. QED BY <1>2, <1>7, <1>8, AttemptMoves

LEMMA AttemptStep ==
    ASSUME TypeInv, TypeInv', ShapeInv, CallsInv, AttemptInv, NEW c \in Clients, StepOf(c)
    PROVE  AttemptInv'
<1>0. OnlyMoves(c) /\ ShapeInv' /\ Grows
  BY ShapeStep
<1>a. /\ pc \in [Clients -> Points] /\ erred \in [Clients -> BOOLEAN]
      /\ call \in [Clients -> CallType] /\ step \in [Clients -> Nat \ {0}]
      /\ pending \in [Clients -> Seq(Nat)] /\ copy \in [Clients -> ManifestFiles]
      /\ loaded \in [Clients -> ManifestFiles] /\ next \in [Clients -> ManifestFiles]
      /\ file \in ManifestFiles /\ c # "none"
  BY RunManifestAssumption DEF TypeInv, TypeOK, CallType, RunManifestAssumption
<1>b. Shaped(c) /\ Advances(c) /\ Counted(copy[c]) /\ Counted(loaded[c]) /\ Counted(file)
  BY DEF ShapeInv, AttemptInv
<1>c. Counted(Fresh) /\ Counted(Torn) /\ Readable(Fresh)
  BY DEF Counted, Readable, Fresh, Torn, Manifest
<1>d. command' = command /\ (Readable(copy[c]) => Readable(copy'[c]))
  BY <1>0 DEF OnlyMoves, Grows, Holders
<1>e. \A d \in Clients : Owner(d) => log # <<>>
  BY DEF AttemptInv, OwnerInv
<1>f. step[c] \in Nat /\ (Completing(c) => step[c] > 1)
  <2>1. Completing(c) => step[c] > 5
    BY CallsOf
  <2>2. QED BY <1>a, <2>1
<1>g. ASSUME NEW point, Goto(c, point) PROVE pc'[c] = point /\ erred'[c] = erred[c]
  BY <1>a, <1>g DEF Goto
<1>h. ASSUME Throw(c) PROVE pc'[c] \in {"unlock", "failed"} /\ erred'[c]
  BY <1>a, <1>h DEF Throw
\* A throw that leaves the manifests, and where the client is in its calls, alone.
<1>i. ASSUME Throw(c), UNCHANGED <<copy, lock>>, step'[c] = step[c] PROVE Advances(c)'
  BY <1>b, <1>h, <1>i DEF Advances, Writing
<1>j. UNCHANGED step => (Completing(c)' <=> Completing(c))
  BY <1>d DEF Completing, Calls
<1>1. ASSUME CheckMissing(c) PROVE AttemptInv'
  <2>1. /\ UNCHANGED <<log, file, lock, step, call, pending, copy, loaded>>
        /\ next' = [next EXCEPT ![c] = Fresh] /\ pc[c] = "new"
        /\ Goto(c, "write") \/ Throw(c)
    BY <1>1 DEF CheckMissing, GotoIf
  <2>2. next'[c] = Fresh /\ Fresh.ids = <<>>
    BY <1>a, <2>1 DEF Fresh, Manifest
  <2>3. ~Readable(copy[c])
    BY <1>b, <2>1 DEF Shaped
  <2>4. Advances(c)'
    <3>1. CASE Goto(c, "write")
      <4>1. Counted(next'[c])
        BY <1>c, <2>2
      <4>2. QED BY <1>b, <1>g, <2>1, <2>3, <3>1, <4>1 DEF Advances, Writing, Counted, Readable
    <3>2. QED BY <1>i, <2>1, <3>1
  <2>5. Owner(c)' => Owner(c)
    BY <2>1, <2>2 DEF Owner, Returned
  <2>6. Counted(file)' /\ Counted(copy[c])' /\ Counted(loaded[c])'
    BY <1>b, <2>1 DEF Counted, Readable
  <2>7. QED BY <1>e, <2>1, <2>4, <2>5, <2>6, AttemptMoves
<1>2. ASSUME Open(c) PROVE AttemptInv'
  BY <1>2, CallsOf DEF Open
<1>3. ASSUME Truncate(c) PROVE AttemptInv'
  <2>1. /\ UNCHANGED <<log, lock, step, call, pending, copy, loaded, next>>
        /\ file' = Torn /\ pc[c] = "write" /\ Goto(c, "writing")
    BY <1>3 DEF Truncate
  <2>2. Advances(c)'
    BY <1>b, <1>g, <2>1 DEF Advances, Writing, Counted, Readable
  <2>3. Owner(c)' => Owner(c)
    BY <2>1 DEF Owner, Returned
  <2>4. Counted(file)' /\ Counted(copy[c])' /\ Counted(loaded[c])'
    BY <1>b, <1>c, <2>1 DEF Counted, Readable
  <2>5. QED BY <1>e, <2>1, <2>2, <2>3, <2>4, AttemptMoves
<1>4. ASSUME Write(c) PROVE AttemptInv'
  <2>1. /\ UNCHANGED <<log, lock, step, call, pending, loaded, next>>
        /\ file' = Torn \/ file' = next[c]
        /\ copy' = [copy EXCEPT ![c] = next[c]]
        /\ pc[c] = "writing" /\ Goto(c, IF lock = c THEN "unlock" ELSE "ready")
    BY <1>4 DEF Write
  <2>2. copy'[c] = next[c] /\ Counted(next[c])
    BY <1>a, <1>b, <2>1 DEF Advances, Writing
  <2>3. copy[c].ids # <<>> \/ lock = c => next[c].ids # <<>>
    BY <1>b, <2>1 DEF Advances, Writing, Counted
  <2>4. pc'[c] = (IF lock = c THEN "unlock" ELSE "ready")
    BY <1>a, <2>1 DEF Goto
  <2>5. Advances(c)'
    <3>1. lock = c => Readable(copy'[c])
      BY <1>b, <1>d DEF Advances
    <3>2. step[c] > 1 => next[c].ids # <<>>
      BY <1>b, <2>3 DEF Advances
    <3>3. CASE lock = c
      BY <2>1, <2>2, <2>3, <2>4, <3>1, <3>2, <3>3 DEF Advances, Writing
    <3>4. CASE lock # c
      BY <2>1, <2>2, <2>3, <2>4, <3>2, <3>4 DEF Advances, Writing
    <3>5. QED BY <3>3, <3>4
  <2>6. Owner(c)' => Owner(c)
    BY <2>1, <2>2 DEF Owner, Returned
  <2>7. Counted(file)' /\ Counted(copy[c])' /\ Counted(loaded[c])'
    BY <1>b, <1>c, <2>1, <2>2 DEF Counted, Readable
  <2>8. QED BY <1>e, <2>1, <2>5, <2>6, <2>7, AttemptMoves
<1>5. ASSUME CallLocked(c) \/ Call(c) PROVE AttemptInv'
  <2>1. StartCall(c) /\ ~Completing(c) /\ pc[c] = "ready" /\ lock' \in {lock, c}
        /\ UNCHANGED pending
    BY <1>5 DEF CallLocked, Call, StartCall
  <2>2. PICK o \in Calls(c)[step[c]].outcomes :
          call' = [call EXCEPT ![c].todo = o.events, ![c].done = <<>>,
                               ![c].served = TRUE, ![c].accepted = o.accepted]
    BY <2>1, Zenon DEF StartCall
  <2>3. o.events # <<>>
    BY <2>1, <2>2, CallsOf
  <2>4. call'[c].todo = o.events /\ call'[c].done = <<>>
    BY <1>a, <2>2 DEF CallType
  <2>5. UNCHANGED <<log, file, copy, loaded, next, step, command>> /\ Goto(c, "rpc")
    BY <2>1 DEF StartCall
  <2>6. Readable(copy'[c])
    BY <1>b, <1>d, <2>1 DEF Shaped, Working
  <2>7. Advances(c)'
    BY <1>b, <1>g, <1>j, <2>1, <2>3, <2>4, <2>5, <2>6 DEF Advances, Writing
  <2>8. QED BY SMTT(30), <2>1, <2>4, <2>5, <2>7, AttemptPasses
<1>6. ASSUME Reply(c) PROVE AttemptInv'
  <2>1. /\ UNCHANGED <<log, file, lock, copy, loaded, next, step, call, command>>
        /\ pending' = [pending EXCEPT ![c] = call[c].done] /\ pc[c] = "rpc"
        /\ call[c].todo = <<>>
        /\ \/ call[c].served /\ Goto(c, IF lock = c THEN "locked" ELSE "record")
           \/ Throw(c)
    BY <1>6 DEF Reply, GotoIf
  <2>2. pending'[c] = call[c].done /\ call[c].done \in Seq(Nat)
    BY <1>a, <2>1 DEF CallType
  <2>3. Advances(c)'
    <3>1. CASE call[c].served /\ Goto(c, IF lock = c THEN "locked" ELSE "record")
      <4>1. pc'[c] \in {"locked", "record"} /\ call[c].done # <<>>
        BY <1>b, <1>g, <2>1, <3>1 DEF Advances
      <4>2. QED BY <1>b, <2>1, <2>2, <4>1 DEF Advances, Writing
    <3>2. QED BY <1>i, <2>1, <3>1
  <2>4. QED BY <2>1, <2>2, <2>3, AttemptPasses
<1>7. ASSUME ChildReply(c) \/ ChildTimeOut(c) PROVE AttemptInv'
  <2>1. pc[c] = "rpc" /\ Mode(c) = "child"
    BY <1>7 DEF ChildReply, ChildTimeOut
  <2>2. ~Completing(c)
    BY <1>b, <2>1 DEF Advances
  <2>3. QED BY <2>1, <2>2, CallsOf
<1>8. ASSUME Lock(c) PROVE AttemptInv'
  <2>1. /\ UNCHANGED <<log, file, copy, loaded, next, step, call, pending, command>>
        /\ lock' = c /\ Goto(c, "locked")
        /\ (pc[c] = "record" /\ pending[c] # <<>>) \/ pc[c] = "complete"
    BY <1>8 DEF Lock, WantsLock
  <2>2. Readable(copy[c])
    BY <1>b, <2>1 DEF Shaped, Working
  <2>3. Advances(c)'
    BY <1>b, <1>g, <1>j, <2>1, <2>2 DEF Advances, Writing
  <2>4. QED BY <2>1, <2>3, AttemptPasses
<1>9. ASSUME LockBusy(c) PROVE AttemptInv'
  <2>1. UNCHANGED <<log, file, lock, copy, loaded, next, step, call, pending, command>> /\ Throw(c)
    BY <1>9 DEF LockBusy
  <2>2. QED BY <1>i, <2>1, AttemptPasses
<1>10. ASSUME Unlock(c) PROVE AttemptInv'
  <2>1. /\ UNCHANGED <<log, file, copy, loaded, next, step, call, erred, command>>
        /\ pc[c] = "unlock" /\ lock' = "none"
        /\ pending' = [pending EXCEPT ![c] = IF @ = <<>> THEN @ ELSE Tail(@)]
    BY <1>10 DEF Unlock
  <2>2. pc'[c] \in {"failed", "done", "record"} /\ (pc'[c] # "failed" => ~erred[c])
    BY <1>a, <1>10 DEF Unlock
  <2>3. pending'[c] = (IF pending[c] = <<>> THEN pending[c] ELSE Tail(pending[c]))
    BY <1>a, <2>1
  <2>4. pending[c] = <<>> => pending'[c] = pending[c]
    BY <2>3
  <2>5. pending[c] # <<>> => pending'[c] = Tail(pending[c])
    BY <2>3
  <2>6. Advances(c)'
    <3>1. pc'[c] = "record" => copy[c].ids # <<>>
      BY <1>b, <2>1, <2>2 DEF Advances
    <3>2. lock' # c
      BY <1>a, <2>1
    <3>3. step[c] > 1 => copy[c].ids # <<>>
      BY <1>b DEF Advances
    <3>4. QED BY <2>1, <2>2, <3>1, <3>2, <3>3 DEF Advances, Writing
  <2>7. QED BY <2>1, <2>4, <2>5, <2>6, AttemptPasses
<1>11. ASSUME Load(c) \/ LoadForCheck(c) PROVE AttemptInv'
  <2>1. /\ UNCHANGED <<log, file, lock, copy, next, step, call, pending, command>>
        /\ loaded' = [loaded EXCEPT ![c] = file]
        /\ \/ pc[c] = "locked" /\ Goto(c, "loaded") /\ SameGeneration(copy[c])
           \/ Completing(c) /\ Goto(c, "check") /\ SameGeneration(copy[c])
           \/ Throw(c)
    BY <1>11 DEF Load, LoadForCheck, GotoIf
  <2>2. loaded'[c] = file
    BY <1>a, <2>1
  <2>3. Advances(c)'
    <3>1. CASE pc[c] = "locked" /\ Goto(c, "loaded") /\ SameGeneration(copy[c])
      BY <1>b, <1>g, <1>j, <2>1, <2>2, <3>1 DEF Advances, Writing, SameGeneration
    <3>2. CASE Completing(c) /\ Goto(c, "check") /\ SameGeneration(copy[c])
      BY <1>b, <1>g, <1>j, <2>1, <2>2, <3>2 DEF Advances, Writing, SameGeneration
    <3>3. QED BY <1>i, <2>1, <3>1, <3>2
  <2>4. QED BY <2>1, <2>2, <2>3, AttemptPasses
<1>12. ASSUME VerifyNext(c) PROVE AttemptInv'
  <2> DEFINE m == loaded[c]
             id == Head(pending[c])
  <2>1. /\ UNCHANGED <<log, file, lock, copy, loaded, step, call, pending, command>>
        /\ pc[c] = "loaded" /\ ~Completing(c)
        /\ \/ Throw(c) /\ next' = next
           \/ /\ NextInLog(m, id) /\ Goto(c, "verified")
              /\ next' = [next EXCEPT ![c] = Recorded(m, id)]
    BY <1>12 DEF VerifyNext, GotoIf
  <2>2. Counted(file)' /\ Counted(copy[c])' /\ Counted(loaded[c])'
    BY <1>b, <2>1 DEF Counted, Readable
  <2>3. CASE Throw(c) /\ next' = next
    <3>1. Owner(c)' => Owner(c)
      BY <2>1, <2>3 DEF Owner, Returned
    <3>2. QED BY <1>e, <1>i, <2>1, <2>2, <2>3, <3>1, AttemptMoves
  <2>4. CASE /\ NextInLog(m, id) /\ Goto(c, "verified")
             /\ next' = [next EXCEPT ![c] = Recorded(m, id)]
    <3>1. next'[c] = Recorded(m, id) /\ m \in ManifestFiles /\ Readable(m)
      BY <1>a, <1>b, <2>1, <2>4 DEF Shaped
    <3>2. pending[c] # <<>> /\ m.generation = copy[c].generation
      BY <1>b, <2>1 DEF Advances
    <3>3. Owner(c)
      <4>1. CASE m.ids = <<>>
        <5>1. log[1].id = id /\ 1 <= Len(log)
          <6>1. log \in Seq([id : Nat, type : EventTypes])
            BY DEF TypeInv, TypeOK
          <6>2. QED BY <2>4, <4>1, <6>1 DEF NextInLog
        <5>2. id = 1
          BY <5>1 DEF TypeInv, Indexed
        <5>3. Returned(pending[c])
          <6>1. pending[c] \in Seq(Nat) /\ Len(pending[c]) >= 1
            BY <1>a, <3>2
          <6>2. pending[c][1] = 1
            BY <5>2
          <6>3. QED BY <6>1, <6>2 DEF Returned
        <5>4. QED BY <5>3 DEF Owner
      <4>2. CASE m.ids # <<>>
        BY <1>b, <3>2, <4>2 DEF Owner, Counted
      <4>3. QED BY <4>1, <4>2
    <3>4. next'[c].ids # <<>> /\ next'[c].generation # 0 /\ Readable(next'[c])
      <4>1. m.ids \in Seq(Nat) /\ m.generation \in Nat
        BY <3>1 DEF ManifestFiles
      <4>2. /\ next'[c].ids = Append(m.ids, id) /\ next'[c].generation = m.generation + 1
            /\ next'[c].status = m.status
        BY <3>1 DEF Recorded, Manifest
      <4>3. QED BY <3>1, <4>1, <4>2 DEF Readable
    <3>5. Counted(next'[c])
      BY <3>4 DEF Counted
    <3>6. Advances(c)'
      BY <1>b, <1>g, <2>1, <2>4, <3>4, <3>5 DEF Advances, Writing, Counted, Readable
    <3>7. QED BY <1>e, <2>1, <2>2, <3>3, <3>6, AttemptMoves
  <2>5. QED BY <2>1, <2>3, <2>4
<1>13. ASSUME VerifyAll(c) PROVE AttemptInv'
  <2> DEFINE m == loaded[c]
  <2>1. /\ UNCHANGED <<log, file, lock, copy, loaded, step, call, pending, command>>
        /\ pc[c] = "loaded" /\ Completing(c)
        /\ next' = [next EXCEPT ![c] =
                      Manifest(m.generation + 1, m.ids, command[c].final)]
        /\ Throw(c) \/ Goto(c, "verified")
    BY <1>13 DEF VerifyAll, GotoIf
  <2>2. Counted(file)' /\ Counted(copy[c])' /\ Counted(loaded[c])'
    BY <1>b, <2>1 DEF Counted, Readable
  <2>3. m.generation = copy[c].generation /\ copy[c].ids # <<>> /\ m \in ManifestFiles
    BY <1>a, <1>b, <1>f, <2>1 DEF Advances
  <2>4. m.ids # <<>> /\ m.generation \in Nat
    BY <1>b, <2>3 DEF Counted, ManifestFiles
  <2>5. /\ next'[c].ids = m.ids /\ next'[c].generation = m.generation + 1
        /\ next'[c].status = command[c].final
    BY <1>a, <2>1 DEF Manifest
  <2>a. command[c].final \in {"completed", "blocked"}
    <3>1. command[c] \in Command
      BY RunManifestAssumption DEF TypeInv, TypeOK, RunManifestAssumption
    <3>2. QED BY <3>1 DEF Command
  <2>6. Counted(next'[c]) /\ next'[c].ids # <<>>
    BY <2>4, <2>5, <2>a DEF Counted, Readable
  <2>7. Advances(c)'
    <3>1. CASE Goto(c, "verified")
      BY <1>b, <1>g, <2>1, <2>6, <3>1 DEF Advances, Writing, Counted, Readable
    <3>2. QED BY <1>i, <2>1, <3>1
  <2>8. Owner(c)
    BY <2>3 DEF Owner
  <2>9. QED BY <1>e, <2>1, <2>2, <2>7, <2>8, AttemptMoves
<1>14. ASSUME Recheck(c) PROVE AttemptInv'
  <2>1. /\ UNCHANGED <<log, file, lock, copy, loaded, next, step, call, pending, command>>
        /\ pc[c] = "verified" /\ (Throw(c) \/ Goto(c, "write"))
    BY <1>14 DEF Recheck, GotoIf
  <2>2. Advances(c)'
    <3>1. CASE Goto(c, "write")
      BY <1>b, <1>g, <2>1, <3>1 DEF Advances, Writing, Counted, Readable
    <3>2. QED BY <1>i, <2>1, <3>1
  <2>3. QED BY <2>1, <2>2, AttemptPasses
<1>15. ASSUME CallRecorded(c) PROVE AttemptInv'
  <2>1. /\ UNCHANGED <<log, file, lock, copy, loaded, next, call, pending, command>>
        /\ pc[c] = "record" /\ pending[c] = <<>>
        /\ step' = [step EXCEPT ![c] = @ + 1]
        /\ Throw(c) \/ Goto(c, "ready")
    BY <1>15 DEF CallRecorded, GotoIf
  <2>2. copy[c].ids # <<>> /\ pc'[c] \in {"unlock", "failed", "ready"}
        /\ (pc'[c] = "unlock" => erred'[c])
    BY <1>b, <1>g, <1>h, <2>1 DEF Advances
  <2>3. lock' = c => Readable(copy[c])'
    BY <1>b, <1>d, <2>1 DEF Advances
  <2>4. Advances(c)'
    BY <2>1, <2>2, <2>3 DEF Advances, Writing
  <2>5. Owner(c)' => Owner(c)
    BY <2>1 DEF Owner, Returned
  <2>6. Counted(file)' /\ Counted(copy[c])' /\ Counted(loaded[c])'
    BY <1>b, <2>1 DEF Counted, Readable
  <2>7. QED BY <1>e, <2>1, <2>4, <2>5, <2>6, AttemptMoves
<1>16. ASSUME CheckSequence(c) PROVE AttemptInv'
  <2>1. /\ UNCHANGED <<log, file, lock, loaded, next, step, call, pending, command>>
        /\ copy' = [copy EXCEPT ![c] = loaded[c]]
        /\ pc[c] = "check" /\ (Throw(c) \/ Goto(c, "complete"))
    BY <1>16 DEF CheckSequence, GotoIf
  <2>2. copy'[c] = loaded[c] /\ loaded[c].generation = copy[c].generation /\ Completing(c)
    BY <1>a, <1>b, <2>1 DEF Advances
  <2>3. copy'[c].ids # <<>> /\ Owner(c)
    <3>1. copy[c].ids # <<>>
      BY <1>b, <1>f, <2>2 DEF Advances
    <3>2. QED BY <1>b, <2>2, <3>1 DEF Counted, Owner
  <2>4. lock = c => Readable(copy'[c])
    BY <1>b, <1>d DEF Advances
  <2>5. pc'[c] \in {"unlock", "failed", "complete"} /\ (pc'[c] = "unlock" => erred'[c])
    BY <1>g, <1>h, <2>1
  <2>6. Completing(c)'
    BY <1>j, <2>1, <2>2
  <2>7. Advances(c)'
    BY <2>1, <2>3, <2>4, <2>5, <2>6 DEF Advances, Writing
  <2>8. Counted(file)' /\ Counted(copy[c])' /\ Counted(loaded[c])'
    BY <1>b, <2>1, <2>2 DEF Counted, Readable
  <2>9. QED BY <1>e, <2>1, <2>3, <2>7, <2>8, AttemptMoves
<1>17. ASSUME Serve(c) PROVE AttemptInv'
  <2>1. PICK part \in {"todo", "late"} :
          /\ call[c][part] # <<>>
          /\ log' = Append(log, [id |-> Len(log) + 1, type |-> Head(call[c][part])])
          /\ call' = [call EXCEPT
               ![c][part] = Tail(@),
               ![c].done = IF part = "todo" THEN Append(@, Len(log) + 1) ELSE @]
          /\ UNCHANGED <<command, file, lock, pc, step, pending, observed, copy, loaded, next,
                         erred>>
    BY <1>17 DEF Serve
  <2>2. log' # <<>>
    <3>1. log \in Seq([id : Nat, type : EventTypes])
      BY DEF TypeInv, TypeOK
    <3>2. Len(log') = Len(log) + 1 /\ Len(log) \in Nat
      BY <2>1, <3>1
    <3>3. QED BY <3>2
  <2>3. Counted(file)' /\ Counted(copy[c])' /\ Counted(loaded[c])'
    BY <1>b, <2>1 DEF Counted, Readable
  <2>4. call[c].done \in Seq(Nat) /\ Len(log) \in Nat
    <3>1. log \in Seq([id : Nat, type : EventTypes])
      BY DEF TypeInv, TypeOK
    <3>2. QED BY <1>a, <3>1 DEF CallType
  <2>5. CASE part = "todo"
    <3>1. call'[c].done = Append(call[c].done, Len(log) + 1)
      BY <1>a, <2>1, <2>5 DEF CallType
    <3>2. call'[c].done # <<>>
      BY <2>4, <3>1
    <3>3. Returned(call'[c].done) => Returned(call[c].done) \/ Len(log) = 0
      BY <2>4, <3>1 DEF Returned
    <3>a. Len(log) = 0 => log = <<>>
      <4>1. log \in Seq([id : Nat, type : EventTypes])
        BY DEF TypeInv, TypeOK
      <4>2. QED BY <4>1, EmptySeq
    <3>4. Owner(c)' => Owner(c) \/ log = <<>>
      <4>1. Owner(c)' => \/ copy[c].ids # <<>> \/ next[c].ids # <<>>
                         \/ Returned(pending[c]) \/ Returned(call'[c].done)
        BY <2>1 DEF Owner, Returned
      <4>2. QED BY <3>3, <3>a, <4>1 DEF Owner
    <3>5. Advances(c)'
      BY <1>b, <1>j, <2>1, <3>2 DEF Advances, Writing, Counted, Readable
    <3>6. QED BY <2>2, <2>3, <3>4, <3>5, AttemptMoves
  <2>6. CASE part = "late"
    <3>1. pc[c] # "rpc"
      BY <2>1, <2>6 DEF CallsInv
    <3>2. call'[c].done = call[c].done
      BY <1>a, <2>1, <2>6 DEF CallType
    <3>3. Owner(c)' => Owner(c)
      BY <2>1, <3>2 DEF Owner, Returned
    <3>4. Advances(c)'
      BY <1>b, <1>j, <2>1, <3>1 DEF Advances, Writing, Counted, Readable
    <3>5. QED BY <2>2, <2>3, <3>3, <3>4, AttemptMoves
  <2>7. QED BY <2>5, <2>6
<1>18. ASSUME ServeFails(c) PROVE AttemptInv'
  <2>1. /\ UNCHANGED <<log, file, lock, copy, loaded, next, step, pending, command, pc, erred>>
        /\ call' = [call EXCEPT ![c].todo = <<>>, ![c].late = <<>>, ![c].served = FALSE]
    BY <1>18 DEF ServeFails
  <2>2. call'[c].done = call[c].done /\ ~call'[c].served
    BY <1>a, <2>1 DEF CallType
  <2>3. Advances(c)'
    BY <1>b, <1>j, <2>1, <2>2 DEF Advances, Writing, Counted, Readable
  <2>4. QED BY <2>1, <2>2, <2>3, AttemptPasses
<1>19. ASSUME TimeOut(c) PROVE AttemptInv'
  <2>1. /\ UNCHANGED <<log, file, lock, copy, loaded, next, step, pending, command>> /\ Throw(c)
        /\ call' = [call EXCEPT ![c].late = call[c].todo, ![c].todo = <<>>]
    BY <1>19 DEF TimeOut
  <2>2. call'[c].done = call[c].done
    BY <1>a, <2>1 DEF CallType
  <2>3. QED BY <1>i, <2>1, <2>2, AttemptPasses
<1>20. ASSUME Crash(c) PROVE AttemptInv'
  <2>1. /\ UNCHANGED <<log, file, lock, copy, loaded, next, step, call, pending, command>>
        /\ Goto(c, "dead")
    BY <1>20 DEF Crash
  <2>2. Advances(c)'
    BY <1>b, <1>g, <2>1 DEF Advances, Writing
  <2>3. QED BY <2>1, <2>2, AttemptPasses
<1>21. QED
  BY <1>1, <1>2, <1>3, <1>4, <1>5, <1>6, <1>7, <1>8, <1>9, <1>10, <1>11, <1>12, <1>13,
     <1>14, <1>15, <1>16, <1>17, <1>18, <1>19, <1>20 DEF StepOf, ClientStep

\* The steps of a kernel run are those of its clients, or write the file.
RunInv == TypeInv /\ ShapeInv /\ CallsInv /\ AttemptInv

LEMMA RunSteps ==
    ASSUME [RunNext]_runVars
    PROVE  [Next]_vars
BY DEF RunNext, Next, runVars, WriteTarget, ServeRun

LEMMA InitRunInv == Init => RunInv
<1> SUFFICES ASSUME Init PROVE RunInv
  OBVIOUS
<1>1. TypeInv /\ ShapeInv
  BY InitTypeInv, RecordedInit
<1>2. NoCall.todo = <<>> /\ NoCall.late = <<>> /\ NoCall.done = <<>>
  BY DEF NoCall
<1>3. \A c \in Clients :
        /\ call[c] = NoCall /\ pc[c] = "new" /\ copy[c] = Missing /\ loaded[c] = Missing
        /\ next[c] = Missing /\ pending[c] = <<>> /\ step[c] = 1 /\ lock # c
  BY RunManifestAssumption DEF Init, RunManifestAssumption
<1>4. CallsInv
  BY <1>2, <1>3 DEF CallsInv, Quiet
<1>5. Missing.ids = <<>> /\ Counted(Missing)
  BY DEF Missing, Manifest, Counted
<1>6. ASSUME NEW c \in Clients PROVE ~Owner(c)
  <2>1. ~Returned(<<>>)
    BY DEF Returned
  <2>2. copy[c].ids = <<>> /\ next[c].ids = <<>> /\ pending[c] = <<>> /\ call[c].done = <<>>
    BY <1>2, <1>3, <1>5
  <2>3. QED BY <2>1, <2>2 DEF Owner
<1>7. ASSUME NEW c \in Clients PROVE Advances(c)
  <2>1. pc[c] = "new" /\ ~(step[c] > 1) /\ lock # c
    BY <1>3
  <2>2. QED BY <2>1 DEF Advances, Writing
<1>8. AttemptInv
  BY <1>3, <1>5, <1>6, <1>7 DEF Init, AttemptInv, OwnerInv
<1>9. QED BY <1>1, <1>4, <1>8 DEF RunInv

LEMMA StepRunInv == RunInv /\ [Next]_vars => RunInv'
<1> SUFFICES ASSUME RunInv, [Next]_vars PROVE RunInv'
  OBVIOUS
<1>1. TypeInv'
  BY StepTypeInv DEF RunInv
<1>2. CASE UNCHANGED vars
  <2>1. ShapeInv'
    BY <1>2 DEF vars, RunInv, ShapeInv, Shaped, Inside, Holders, CreatedBy
  <2>2. \A c \in Clients : Quiet(c)' = Quiet(c) /\ Completing(c)' = Completing(c)
    BY <1>2 DEF vars, Quiet, Completing, Calls
  <2>3. CallsInv'
    BY <1>2, <2>2 DEF vars, RunInv, CallsInv
  <2>4. \A c \in Clients : (Owner(c)' <=> Owner(c)) /\ Advances(c)'
    BY <1>2, <2>2 DEF vars, Owner, Returned, RunInv, AttemptInv, Advances, Counted, Readable,
       Writing
  <2>5. AttemptInv'
    BY <1>2, <2>4 DEF vars, RunInv, AttemptInv, OwnerInv, Counted, Readable
  <2>6. QED BY <1>1, <2>1, <2>3, <2>5 DEF RunInv
<1>3. CASE Next
  <2>1. PICK c \in Clients : StepOf(c)
    BY <1>3 DEF Next, StepOf
  <2>2. ShapeInv' /\ CallsInv' /\ AttemptInv'
    BY <1>1, <2>1, ShapeStep, CallsStep, AttemptStep DEF RunInv
  <2>3. QED BY <1>1, <2>2 DEF RunInv
<1>4. QED BY <1>2, <1>3

\* However many clients are started with one run id, and whatever fails or dies,
\* the manifest is taken beyond its first event by one of them at most: a lost
\* race, a crash or a time-out never lets a second one in.
THEOREM OneAlwaysProceeds == RunSpec => []OneAttemptProceeds
<1>1. RunInit => RunInv
  BY InitRunInv DEF RunInit
<1>2. RunInv /\ [RunNext]_runVars => RunInv'
  BY RunSteps, StepRunInv
<1>3. RunInv => OneAttemptProceeds
  BY DEF RunInv, AttemptInv, OwnerInv, Owner, OneAttemptProceeds
<1>4. QED BY <1>1, <1>2, <1>3, PTL DEF RunSpec
-----------------------------------------------------------------------------
(* The proof of RunTellsTheTruth *)

LogType == log \in Seq([id : Nat, type : EventTypes])

LEMMA Within ==
    ASSUME NEW a \in Nat, NEW b \in Nat, a <= b, NEW i \in 1..a
    PROVE  i \in 1..b
OBVIOUS

\* What has been appended stays, and the next event of the commit adds to it.
LEMMA UpToStays ==
    ASSUME LogType, NEW e \in [id : Nat, type : EventTypes], log' \in {log, Append(log, e)}
    PROVE  /\ \A k \in 0..6 : UpTo(k) => UpTo(k)'
           /\ \A s : Staged(s) => Staged(s)'
<1>1. /\ Len(log) \in Nat /\ Len(log') \in Nat /\ Len(log) <= Len(log')
      /\ \A i \in 1..Len(log) : log'[i] = log[i]
  BY DEF LogType
<1>2. ASSUME NEW k \in 0..6, UpTo(k) PROVE UpTo(k)'
  <2>1. PICK f \in [1..6 -> Nat] :
          \A i \in 1..k :
            /\ f[i] \in 1..Len(log)
            /\ log[f[i]].type = CommitEvents[i]
            /\ i > 1 => f[i - 1] < f[i]
    BY <1>2 DEF UpTo
  <2>2. ASSUME NEW i \in 1..k
        PROVE  /\ f[i] \in 1..Len(log')
               /\ log'[f[i]].type = CommitEvents[i]
               /\ i > 1 => f[i - 1] < f[i]
    <3>1. f[i] \in 1..Len(log) /\ log[f[i]].type = CommitEvents[i]
      BY <2>1
    <3>2. log'[f[i]] = log[f[i]]
      BY <1>1, <3>1
    <3>3. f[i] \in 1..Len(log')
      BY <1>1, <3>1, Within
    <3>4. QED BY <2>1, <3>1, <3>2, <3>3, Zenon
  <2>3. QED BY <2>2 DEF UpTo
<1>3. \A s : Staged(s) => Staged(s)'
  BY <1>2 DEF Staged, RestOf
<1>4. QED BY <1>2, <1>3

LEMMA UpToNext ==
    ASSUME LogType, NEW k \in 0..5, UpTo(k), NEW e \in [id : Nat, type : EventTypes],
           e.type = CommitEvents[k + 1], log' = Append(log, e)
    PROVE  UpTo(k + 1)'
<1>1. PICK f \in [1..6 -> Nat] :
        \A i \in 1..k :
          /\ f[i] \in 1..Len(log)
          /\ log[f[i]].type = CommitEvents[i]
          /\ i > 1 => f[i - 1] < f[i]
  BY DEF UpTo
<1>2. /\ Len(log) \in Nat /\ Len(log') = Len(log) + 1
      /\ \A i \in 1..Len(log) : log'[i] = log[i]
      /\ log'[Len(log) + 1] = e
  BY SMTT(30) DEF LogType
<1> DEFINE g == [i \in 1..6 |-> IF i = k + 1 THEN Len(log) + 1 ELSE f[i]]
<1>3. g \in [1..6 -> Nat]
  BY SMTT(30), <1>2
<1>4. g[k + 1] = Len(log) + 1 /\ \A i \in 1..k : g[i] = f[i]
  BY SMTT(30)
<1> HIDE DEF g
<1>5. ASSUME NEW i \in 1..(k + 1)
      PROVE  /\ g[i] \in 1..Len(log')
             /\ log'[g[i]].type = CommitEvents[i]
             /\ i > 1 => g[i - 1] < g[i]
  <2>1. CASE i \in 1..k
    <3>1. g[i] = f[i] /\ (i > 1 => g[i - 1] = f[i - 1])
      BY <1>4, <2>1
    <3>2. f[i] \in 1..Len(log) /\ log[f[i]].type = CommitEvents[i] /\ (i > 1 => f[i - 1] < f[i])
      BY <1>1, <2>1
    <3>3. log'[f[i]] = log[f[i]] /\ f[i] \in 1..Len(log')
      <4>1. Len(log) <= Len(log) + 1
        BY <1>2
      <4>2. QED BY SMTT(30), <1>2, <3>2, <4>1, Within
    <3>4. QED BY <3>1, <3>2, <3>3, Zenon
  <2>2. CASE i = k + 1
    <3>1. g[i] = Len(log) + 1
      BY <1>4, <2>2
    <3>2. i > 1 => g[i - 1] \in 1..Len(log)
      <4>1. i > 1 => i - 1 \in 1..k
        BY <2>2
      <4>2. QED BY <1>1, <1>4, <4>1
    <3>3. i > 1 => g[i - 1] < Len(log) + 1
      BY SMTT(30), <1>2, <3>2
    <3>4. Len(log) + 1 \in 1..Len(log')
      BY <1>2
    <3>5. log'[g[i]].type = CommitEvents[i]
      BY <1>2, <2>2, <3>1
    <3>6. g[i] \in 1..Len(log')
      BY <3>1, <3>4, Zenon
    <3>7. i > 1 => g[i - 1] < g[i]
      BY <3>1, <3>3, Zenon
    <3>8. QED BY <3>5, <3>6, <3>7
  <2>3. i \in 1..k \/ i = k + 1
    OBVIOUS
  <2>4. QED BY <2>1, <2>2, <2>3, Zenon
<1>6. QED BY <1>3, <1>5 DEF UpTo

\* The supervisor appends the next event of a list that it has staged.
LEMMA StagedNext ==
    ASSUME LogType, NEW s \in Seq(EventTypes), s # <<>>, Staged(s),
           NEW n \in Nat, log' = Append(log, [id |-> n, type |-> Head(s)])
    PROVE  Staged(Tail(s))'
<1>1. PICK k \in 0..6 : RestOf(s, k) /\ UpTo(k)
  BY DEF Staged
<1>2. Len(s) \in Nat /\ Len(s) >= 1 /\ Len(s) = 6 - k
  BY <1>1 DEF RestOf
<1>3. k \in 0..5 /\ s[1] = CommitEvents[k + 1]
  BY <1>1, <1>2 DEF RestOf
<1>4. Head(s) = CommitEvents[k + 1] /\ Head(s) \in EventTypes
  BY <1>3
<1>5. UpTo(k + 1)'
  <2>1. [id |-> n, type |-> Head(s)] \in [id : Nat, type : EventTypes]
    BY <1>4
  <2>2. [id |-> n, type |-> Head(s)].type = CommitEvents[k + 1]
    BY <1>4
  <2>3. QED BY <1>1, <1>3, <2>1, <2>2, UpToNext
<1>6. Len(Tail(s)) = Len(s) - 1 /\ \A i \in 1..(Len(s) - 1) : Tail(s)[i] = s[i + 1]
  BY <1>2
<1>7. RestOf(Tail(s), k + 1)
  <2>1. Len(Tail(s)) = 6 - (k + 1)
    BY <1>2, <1>3, <1>6
  <2>2. ASSUME NEW i \in 1..(6 - (k + 1)) PROVE Tail(s)[i] = CommitEvents[(k + 1) + i]
    <3>1. i \in 1..(Len(s) - 1) /\ i + 1 \in 1..(6 - k) /\ k + (i + 1) = (k + 1) + i
      BY <1>2, <1>3
    <3>2. s[i + 1] = CommitEvents[k + (i + 1)]
      BY <1>1, <3>1 DEF RestOf
    <3>3. QED BY <1>6, <3>1, <3>2
  <2>3. QED BY <2>1, <2>2 DEF RestOf
<1>8. k + 1 \in 0..6
  BY <1>3
<1>9. RestOf(Tail(s), k + 1)'
  BY <1>7 DEF RestOf
<1>10. QED BY <1>5, <1>8, <1>9 DEF Staged

\* A staged list that is about to act has had its evidence appended, one that is
\* empty everything.
LEMMA StagedEnds ==
    /\ \A s : Staged(s) /\ s # <<>> /\ Head(s) = "action.recorded" /\ s \in Seq(EventTypes) => UpTo(3)
    /\ Staged(<<>>) => UpTo(6)
    /\ UpTo(0) => Staged(CommitEvents)
    /\ UpTo(0)
<1>1. ASSUME NEW s \in Seq(EventTypes), Staged(s), s # <<>>, Head(s) = "action.recorded"
      PROVE  UpTo(3)
  <2>1. PICK k \in 0..6 : RestOf(s, k) /\ UpTo(k)
    BY <1>1 DEF Staged
  <2>2. Len(s) >= 1 /\ Len(s) = 6 - k
    BY <1>1, <2>1 DEF RestOf
  <2>3. k \in {0, 1, 2, 3, 4, 5} /\ s[1] = CommitEvents[k + 1] /\ s[1] = "action.recorded"
    BY <1>1, <2>1, <2>2 DEF RestOf
  <2>4. k = 3
    <3>1. PICK j \in 1..6 : j = k + 1
      BY <2>3
    <3>a. j \in {1, 2, 3, 4, 5, 6}
      OBVIOUS
    <3>2. CommitEvents[j] = "action.recorded"
      BY <2>3, <3>1, Zenon
    <3>3. j = 4
      BY <3>a, <3>2, EventsOfTheCommit
    <3>4. QED BY <2>3, <3>1, <3>3
  <2>5. QED BY <2>1, <2>4
<1>2. Staged(<<>>) => UpTo(6)
  BY DEF Staged, RestOf
<1>3. UpTo(0)
  <2>1. [i \in 1..6 |-> 0] \in [1..6 -> Nat]
    OBVIOUS
  <2>2. \A i \in 1..0 : FALSE
    OBVIOUS
  <2>3. QED BY <2>1, <2>2 DEF UpTo
<1>4. RestOf(CommitEvents, 0)
  BY EventsOfTheCommit DEF RestOf
<1>5. QED BY <1>1, <1>2, <1>3, <1>4 DEF Staged

\* A client that has recorded an event holds a manifest that says so.
LEMMA HoldsStays ==
    ASSUME RunInv, NEW c \in Clients, StepOf(c)
    PROVE  \A d \in Clients : copy[d].ids # <<>> => copy'[d].ids # <<>>
<1>a. /\ copy \in [Clients -> ManifestFiles] /\ Counted(copy[c]) /\ Counted(loaded[c])
      /\ Advances(c) /\ Shaped(c)
  BY DEF RunInv, TypeInv, TypeOK, AttemptInv, ShapeInv
<1>0. \A d \in Clients : d # c => copy'[d] = copy[d]
  BY ShapeStep DEF RunInv, OnlyMoves
<1>1. ASSUME copy[c].ids # <<>> PROVE copy'[c].ids # <<>>
  <2>1. Readable(copy[c])
    BY <1>a, <1>1 DEF Counted
  <2>2. CASE Write(c)
    <3>1. pc[c] = "writing" /\ copy'[c] = next[c]
      BY <1>a, <2>2 DEF Write
    <3>2. QED BY <1>a, <2>1, <3>1 DEF Advances, Writing
  <2>3. CASE CheckSequence(c)
    <3>1. pc[c] = "check" /\ copy'[c] = loaded[c]
      BY <1>a, <2>3 DEF CheckSequence
    <3>2. QED BY <1>1, <1>a, <3>1 DEF Advances, Counted
  <2>4. CASE Open(c)
    BY SMTT(30), <1>a, <2>1, <2>4 DEF Open, Shaped
  <2>5. CASE CheckMissing(c) \/ Truncate(c) \/ CallLocked(c) \/ Call(c) \/ Reply(c)
               \/ ChildReply(c) \/ Lock(c) \/ LockBusy(c) \/ Unlock(c)
    BY <1>1, <2>5 DEF CheckMissing, Truncate, CallLocked, Call, StartCall, Reply, ChildReply,
       Lock, LockBusy, Unlock
  <2>6. CASE Load(c) \/ VerifyNext(c) \/ VerifyAll(c) \/ Recheck(c) \/ CallRecorded(c)
               \/ LoadForCheck(c)
    BY <1>1, <2>6 DEF Load, VerifyNext, VerifyAll, Recheck, CallRecorded, LoadForCheck
  <2>7. CASE Serve(c) \/ ServeFails(c) \/ TimeOut(c) \/ ChildTimeOut(c) \/ Crash(c)
    BY <1>1, <2>7 DEF Serve, ServeFails, TimeOut, ChildTimeOut, Crash
  <2>8. QED BY <2>2, <2>3, <2>4, <2>5, <2>6, <2>7 DEF StepOf, ClientStep
<1>2. QED BY <1>0, <1>1

\* Whatever a step does to the ledger, what has been appended stays.
LEMMA LogStays ==
    ASSUME RunInv, NEW c \in Clients, StepOf(c)
    PROVE  /\ \A k \in 0..6 : UpTo(k) => UpTo(k)'
           /\ \A s : Staged(s) => Staged(s)'
           /\ log' = log \/ Serve(c)
<1>1. LogType /\ call \in [Clients -> CallType]
  BY DEF RunInv, TypeInv, TypeOK, LogType, CallType
<1>2. CASE Serve(c)
  <2>1. PICK part \in {"todo", "late"} :
          /\ call[c][part] # <<>>
          /\ log' = Append(log, [id |-> Len(log) + 1, type |-> Head(call[c][part])])
    BY <1>2 DEF Serve
  <2>2. call[c][part] \in Seq(EventTypes) /\ Len(log) \in Nat
    BY <1>1 DEF CallType, LogType
  <2>3. Head(call[c][part]) \in EventTypes
    BY <2>1, <2>2
  <2>4. PICK e \in [id : Nat, type : EventTypes] : log' = Append(log, e)
    BY <2>1, <2>2, <2>3
  <2>5. QED BY <1>1, <1>2, <2>4, UpToStays
<1>3. CASE log' = log
  <2>1. [id |-> 0, type |-> "governance"] \in [id : Nat, type : EventTypes]
    BY DEF EventTypes
  <2>2. QED BY <1>1, <1>3, <2>1, UpToStays
<1>4. log' = log \/ Serve(c)
  <2>1. CASE CheckMissing(c) \/ Open(c) \/ Truncate(c) \/ Write(c) \/ CallLocked(c) \/ Call(c)
               \/ Reply(c) \/ ChildReply(c) \/ Lock(c) \/ LockBusy(c) \/ Unlock(c)
    BY <2>1 DEF CheckMissing, Open, Truncate, Write, CallLocked, Call, StartCall, Reply,
       ChildReply, Lock, LockBusy, Unlock
  <2>2. CASE Load(c) \/ VerifyNext(c) \/ VerifyAll(c) \/ Recheck(c) \/ CallRecorded(c)
               \/ LoadForCheck(c) \/ CheckSequence(c)
    BY <2>2 DEF Load, VerifyNext, VerifyAll, Recheck, CallRecorded, LoadForCheck, CheckSequence
  <2>3. CASE Serve(c) \/ ServeFails(c) \/ TimeOut(c) \/ ChildTimeOut(c) \/ Crash(c)
    BY <2>3 DEF ServeFails, TimeOut, ChildTimeOut, Crash
  <2>4. QED BY <2>1, <2>2, <2>3 DEF StepOf, ClientStep
<1>5. QED BY <1>2, <1>3, <1>4

LEMMA TellsStep ==
    ASSUME RunInv, TruthInv, NEW c \in Clients, StepOf(c)
    PROVE  /\ Tells(file)'
           /\ \A d \in Clients : Tells(loaded[d])' /\ Tells(next[d])'
<1>0. OnlyMoves(c) /\ TypeInv
  BY ShapeStep DEF RunInv
<1>a. /\ loaded \in [Clients -> ManifestFiles] /\ next \in [Clients -> ManifestFiles]
      /\ command' = command /\ step[c] \in Nat
  BY <1>0 DEF OnlyMoves, TypeInv, TypeOK
<1>b. \A m : Tells(m) => Tells(m)'
  <2>1. UpTo(6) => UpTo(6)'
    BY LogStays
  <2>2. \A d \in Clients : copy[d].ids # <<>> => copy'[d].ids # <<>>
    BY HoldsStays
  <2>3. QED BY <1>a, <2>1, <2>2 DEF Tells
<1>c. Tells(file) /\ Tells(loaded[c]) /\ Tells(next[c]) /\ Committing(c)
  BY DEF TruthInv
<1>d. ASSUME NEW m, m.status \notin {"completed", "blocked"} PROVE Tells(m)'
  BY <1>d DEF Tells
<1>e. ASSUME NEW m, m.status \in {"torn", "running"} PROVE Tells(m)'
  BY <1>d, <1>e
<1>1. \A d \in Clients : d # c => Tells(loaded[d])' /\ Tells(next[d])'
  <2>1. ASSUME NEW d \in Clients, d # c PROVE Tells(loaded[d])' /\ Tells(next[d])'
    <3>1. loaded'[d] = loaded[d] /\ next'[d] = next[d] /\ Tells(loaded[d]) /\ Tells(next[d])
      BY <1>0, <2>1 DEF OnlyMoves, TruthInv
    <3>2. QED BY <1>b, <3>1 DEF Tells
  <2>2. QED BY <2>1
<1>2. Tells(file)'
  <2>1. \E m : file' = m /\ Tells(m)'
    <3>1. CASE Truncate(c)
      <4>1. file' = Torn /\ Torn.status = "torn"
        BY <3>1 DEF Truncate, Torn, Manifest
      <4>2. QED BY <1>e, <4>1
    <3>2. CASE Write(c)
      <4>1. (file' = Torn /\ Torn.status = "torn") \/ file' = next[c]
        BY SMTT(30), <3>2 DEF Write, Torn, Manifest
      <4>2. QED BY <1>b, <1>c, <1>e, <4>1
    <3>3. CASE CheckMissing(c) \/ Open(c) \/ CallLocked(c) \/ Call(c) \/ Reply(c)
                 \/ ChildReply(c) \/ Lock(c) \/ LockBusy(c) \/ Unlock(c)
      BY <1>b, <1>c, <3>3 DEF CheckMissing, Open, CallLocked, Call, StartCall, Reply,
         ChildReply, Lock, LockBusy, Unlock
    <3>4. CASE Load(c) \/ VerifyNext(c) \/ VerifyAll(c) \/ Recheck(c) \/ CallRecorded(c)
                 \/ LoadForCheck(c) \/ CheckSequence(c)
      BY <1>b, <1>c, <3>4 DEF Load, VerifyNext, VerifyAll, Recheck, CallRecorded, LoadForCheck,
         CheckSequence
    <3>5. CASE Serve(c) \/ ServeFails(c) \/ TimeOut(c) \/ ChildTimeOut(c) \/ Crash(c)
      BY <1>b, <1>c, <3>5 DEF Serve, ServeFails, TimeOut, ChildTimeOut, Crash
    <3>6. QED BY <3>1, <3>2, <3>3, <3>4, <3>5 DEF StepOf, ClientStep
  <2>2. QED BY <2>1 DEF Tells
<1>3. Tells(loaded[c])'
  <2>1. loaded'[c] = loaded[c] \/ loaded'[c] = file
    <3>1. CASE Load(c) \/ LoadForCheck(c)
      BY <1>a, <3>1 DEF Load, LoadForCheck
    <3>2. CASE CheckMissing(c) \/ Open(c) \/ Truncate(c) \/ Write(c) \/ CallLocked(c)
                 \/ Call(c) \/ Reply(c) \/ ChildReply(c) \/ Lock(c) \/ LockBusy(c) \/ Unlock(c)
      BY <3>2 DEF CheckMissing, Open, Truncate, Write, CallLocked, Call, StartCall, Reply,
         ChildReply, Lock, LockBusy, Unlock
    <3>3. CASE VerifyNext(c) \/ VerifyAll(c) \/ Recheck(c) \/ CallRecorded(c)
                 \/ CheckSequence(c)
      BY <3>3 DEF VerifyNext, VerifyAll, Recheck, CallRecorded, CheckSequence
    <3>4. CASE Serve(c) \/ ServeFails(c) \/ TimeOut(c) \/ ChildTimeOut(c) \/ Crash(c)
      BY <3>4 DEF Serve, ServeFails, TimeOut, ChildTimeOut, Crash
    <3>5. QED BY <3>1, <3>2, <3>3, <3>4 DEF StepOf, ClientStep
  <2>2. \E m : loaded'[c] = m /\ Tells(m)'
    BY <1>b, <1>c, <2>1
  <2>3. QED BY <2>2 DEF Tells
<1>4. Tells(next[c])'
  <2>1. \E m : next'[c] = m /\ Tells(m)'
    <3>1. CASE CheckMissing(c)
      <4>1. next'[c] = Fresh /\ Fresh.status = "running"
        BY <1>a, <3>1 DEF CheckMissing, Fresh, Manifest
      <4>2. QED BY <1>e, <4>1
    <3>2. CASE VerifyNext(c)
      <4>1. next'[c] = next[c] \/ next'[c] = Recorded(loaded[c], Head(pending[c]))
        BY <1>a, <3>2 DEF VerifyNext
      <4>2. Tells(Recorded(loaded[c], Head(pending[c])))
        BY <1>c DEF Tells, Recorded, Manifest
      <4>3. QED BY <1>b, <1>c, <4>1, <4>2
    <3>3. CASE VerifyAll(c)
      <4>1. /\ next'[c] = Manifest(loaded[c].generation + 1, loaded[c].ids, command[c].final)
            /\ Completing(c)
        BY <1>a, <3>3 DEF VerifyAll
      <4>2. step[c] > 5 /\ command[c] \in {KernelRun(TRUE), KernelRun(FALSE)}
        BY <1>0, <4>1, CallsOf
      <4>3. copy[c].ids # <<>>
        <5>1. step[c] > 1
          BY <1>a, <4>2
        <5>2. QED BY <5>1 DEF RunInv, AttemptInv, Advances
      <4>4. Tells(Manifest(loaded[c].generation + 1, loaded[c].ids, command[c].final))
        <5>1. CASE command[c] = KernelRun(TRUE)
          <6>1. UpTo(6)
            BY <1>c, <4>2, <5>1 DEF Committing, Past
          <6>2. command[c].final = "completed"
            BY <5>1 DEF KernelRun
          <6>3. QED BY <6>1, <6>2 DEF Tells, Manifest
        <5>2. CASE command[c] = KernelRun(FALSE)
          <6>1. command[c].final = "blocked"
            BY <5>2 DEF KernelRun
          <6>2. QED BY <4>3, <5>2, <6>1 DEF Tells, Manifest
        <5>3. QED BY <4>2, <5>1, <5>2
      <4>5. QED BY <1>b, <4>1, <4>4
    <3>4. CASE UNCHANGED next
      BY <1>b, <1>c, <3>4
    <3>5. CASE Open(c) \/ Truncate(c) \/ Write(c) \/ CallLocked(c) \/ Call(c) \/ Reply(c)
                 \/ ChildReply(c) \/ Lock(c) \/ LockBusy(c) \/ Unlock(c)
      BY <3>4, <3>5 DEF Open, Truncate, Write, CallLocked, Call, StartCall, Reply, ChildReply,
         Lock, LockBusy, Unlock
    <3>6. CASE Load(c) \/ Recheck(c) \/ CallRecorded(c) \/ LoadForCheck(c) \/ CheckSequence(c)
      BY <3>4, <3>6 DEF Load, Recheck, CallRecorded, LoadForCheck, CheckSequence
    <3>7. CASE Serve(c) \/ ServeFails(c) \/ TimeOut(c) \/ ChildTimeOut(c) \/ Crash(c)
      BY <3>4, <3>7 DEF Serve, ServeFails, TimeOut, ChildTimeOut, Crash
    <3>8. QED BY <3>1, <3>2, <3>3, <3>5, <3>6, <3>7 DEF StepOf, ClientStep
  <2>2. QED BY <2>1 DEF Tells
<1>5. QED BY <1>1, <1>2, <1>3, <1>4

LEMMA TailActs ==
    ASSUME NEW s \in Seq(EventTypes), s # <<>>, Acts(Tail(s))
    PROVE  Acts(s)
<1>1. PICK i \in 1..Len(Tail(s)) : Tail(s)[i] = "action.recorded"
  BY DEF Acts
<1>2. i + 1 \in 1..Len(s) /\ s[i + 1] = "action.recorded"
  BY <1>1
<1>3. QED BY <1>2 DEF Acts

LEMMA CommittingStep ==
    ASSUME RunInv, TruthInv, NEW c \in Clients, StepOf(c), effect' = effect
    PROVE  \A d \in Clients : Committing(d)'
<1>0. /\ OnlyMoves(c) /\ TypeInv /\ CallsInv /\ Shaped(c) /\ Advances(c) /\ LogType
      /\ \A d \in Clients : d # c => call'[d] = call[d] /\ step'[d] = step[d]
  BY ShapeStep, CallsStep DEF RunInv, ShapeInv, AttemptInv, LogType, TypeInv, TypeOK
<1>a. /\ pc \in [Clients -> Points] /\ erred \in [Clients -> BOOLEAN]
      /\ call \in [Clients -> CallType] /\ step \in [Clients -> Nat \ {0}]
      /\ command' = command
  BY <1>0 DEF OnlyMoves, TypeInv, TypeOK, CallType
<1>b. (\A k \in 0..6 : UpTo(k) => UpTo(k)') /\ \A s : Staged(s) => Staged(s)'
  BY LogStays
<1>c. Committing(c)
  BY DEF TruthInv
<1>u. (UpTo(6) => UpTo(6)') /\ (UpTo(3) => UpTo(3)')
  BY <1>b
<1>s. \A d \in Clients : \A part \in {"todo", "late"} :
        Staged(call[d][part]) /\ call'[d][part] = call[d][part] => Staged(call[d][part])'
  BY <1>b DEF Staged, RestOf
<1>d. ASSUME NEW d \in Clients, d # c PROVE Committing(d)'
  <2>1. /\ UNCHANGED <<call[d], step[d], pc[d], erred[d], effect[d], command>> /\ Committing(d)
        /\ Commits(d)' <=> Commits(d)
        /\ (Past(d, 5)' <=> Past(d, 5)) /\ (Past(d, 1)' <=> Past(d, 1))
    BY <1>0, <1>d DEF OnlyMoves, TruthInv, Commits, Past
  <2>2. \A part \in {"todo", "late"} :
          Acts(call'[d][part]) => Commits(d)' /\ Staged(call[d][part])'
    BY <1>s, <2>1 DEF Committing
  <2>3. Staged(call[d].todo) => Staged(call[d].todo)'
    BY <1>s, <2>1
  <2>4. QED BY <1>u, <2>1, <2>2, <2>3 DEF Committing, Acts
<1> SUFFICES Committing(c)'
  BY <1>d
<1>e. UNCHANGED step => /\ Commits(c)' <=> Commits(c)
                        /\ (Past(c, 5)' <=> Past(c, 5)) /\ (Past(c, 1)' <=> Past(c, 1))
  BY <1>a DEF Commits, Past
<1>f. effect'[c] => command'[c] = KernelRun(TRUE) /\ Past(c, 1) /\ UpTo(3)'
  <2>1. UpTo(3) => UpTo(3)'
    BY <1>b
  <2>2. QED BY <1>a, <1>c, <2>1 DEF Committing
<1>g. ASSUME NEW point, Goto(c, point) PROVE pc'[c] = point /\ erred'[c] = erred[c]
  BY <1>a, <1>g DEF Goto
<1>h. ASSUME Throw(c) PROVE pc'[c] \in {"unlock", "failed"} /\ erred'[c]
  BY <1>a, <1>h DEF Throw
\* Steps between the calls.
<1>i. ASSUME UNCHANGED <<call, step>>, pc'[c] # "rpc",
             Commits(c) /\ pc'[c] \in Answered /\ ~erred'[c] => pc[c] \in Answered /\ ~erred[c]
      PROVE  Committing(c)'
  <2>1. \A part \in {"todo", "late"} :
          Acts(call'[c][part]) => Commits(c)' /\ Staged(call[c][part])'
    BY <1>c, <1>e, <1>i, <1>s DEF Committing
  <2>2. QED BY <1>a, <1>u, <1>c, <1>e, <1>f, <1>i, <2>1 DEF Committing, Acts
<1>j. ASSUME UNCHANGED <<call, step>>, Throw(c) PROVE Committing(c)'
  BY <1>h, <1>i, <1>j
<1>k. ASSUME UNCHANGED <<call, step>>, NEW point, Goto(c, point), point # "rpc",
             point \in Answered => pc[c] \in Answered \/ Completing(c) \/ step[c] = 1
      PROVE  Committing(c)'
  <2>1. pc'[c] = point /\ erred'[c] = erred[c]
    BY <1>g, <1>k
  <2>2. Completing(c) => step[c] > 5
    BY <1>0, CallsOf
  <2>3. Commits(c) => step[c] = 5
    BY DEF Commits
  <2>4. step[c] \in Nat
    BY <1>a
  <2>5. Commits(c) => ~Completing(c) /\ step[c] # 1
    BY <2>2, <2>3, <2>4
  <2>6. QED BY <1>i, <1>k, <2>1, <2>5
<1>1. CASE CheckMissing(c)
  <2>1. UNCHANGED <<call, step>> /\ pc[c] = "new" /\ (Goto(c, "write") \/ Throw(c))
    BY <1>1 DEF CheckMissing, GotoIf
  <2>2. ~(step[c] > 1)
    <3>1. ~Readable(copy[c])
      BY <1>0, <2>1 DEF Shaped
    <3>2. copy[c].ids = <<>>
      BY <3>1 DEF RunInv, AttemptInv, Counted
    <3>3. QED BY <1>0, <3>2 DEF Advances
  <2>3. step[c] = 1
    BY <1>a, <2>2
  <2>4. QED BY <1>j, <1>k, <2>1, <2>3
<1>2. CASE Truncate(c) \/ Write(c) \/ Recheck(c)
  <2>1. /\ UNCHANGED <<call, step>> /\ pc[c] \in {"write", "writing", "verified"}
        /\ \/ \E point \in {"writing", "unlock", "ready", "write"} : Goto(c, point)
           \/ Throw(c)
    BY <1>2 DEF Truncate, Write, Recheck, GotoIf
  <2>2. QED BY <1>j, <1>k, <2>1 DEF Answered
<1>3. CASE CallLocked(c) \/ Call(c)
  <2>1. StartCall(c) /\ ~Completing(c) /\ pc[c] = "ready"
    BY <1>3 DEF CallLocked, Call
  <2>2. PICK o \in Calls(c)[step[c]].outcomes :
          call' = [call EXCEPT ![c].todo = o.events, ![c].done = <<>>,
                               ![c].served = TRUE, ![c].accepted = o.accepted]
    BY <2>1, Zenon DEF StartCall
  <2>3. UNCHANGED step /\ pc'[c] = "rpc"
    BY <1>g, <2>1 DEF StartCall
  <2>4. /\ call'[c].todo = o.events /\ call'[c].accepted = o.accepted
        /\ call'[c].late = call[c].late
    BY <1>a, <2>2 DEF CallType
  <2>5. call'[c].late = <<>> /\ ~Acts(<<>>)
    BY <1>0, <2>1, <2>4 DEF Shaped, CallsInv, Quiet, Acts
  <2>6. /\ Acts(o.events) => Commits(c)
        /\ Commits(c) /\ (o.accepted \/ Acts(o.events)) => o.events = CommitEvents
    BY <1>0, <2>1, <2>2, CallsOf
  <2>7. Staged(CommitEvents)'
    BY <1>b, StagedEnds
  <2>8. Commits(c) /\ (o.accepted \/ Acts(o.events)) => Staged(call[c].todo)'
    <3>1. \A s : s = CommitEvents /\ call'[c].todo = s => Staged(call[c].todo)'
      BY <2>7 DEF Staged, RestOf
    <3>2. QED BY <2>4, <2>6, <3>1
  <2>9. Commits(c)' <=> Commits(c)
    BY <1>e, <2>3
  <2>10. \A part \in {"todo", "late"} : Acts(call'[c][part]) => Commits(c)' /\ Staged(call[c][part])'
    BY <2>4, <2>5, <2>6, <2>8, <2>9
  <2>11. QED BY <1>a, <1>u, <1>c, <1>e, <1>f, <2>3, <2>4, <2>8, <2>9, <2>10 DEF Committing, Answered, Acts
<1>4. CASE Reply(c)
  <2>1. /\ UNCHANGED <<call, step>> /\ pc[c] = "rpc" /\ call[c].todo = <<>>
        /\ \/ /\ Goto(c, IF lock = c THEN "locked" ELSE "record")
              /\ call[c].served /\ (Mode(c) = "guarded" => call[c].accepted)
           \/ Throw(c)
    BY <1>4 DEF Reply, GotoIf
  <2>2. CASE /\ Goto(c, IF lock = c THEN "locked" ELSE "record")
             /\ call[c].served /\ (Mode(c) = "guarded" => call[c].accepted)
    <3>1. Commits(c) => UpTo(6)
      <4>1. Commits(c) => call[c].accepted
        BY <1>0, <2>2, CallsOf
      <4>2. Commits(c) => Staged(<<>>)
        BY <1>c, <2>1, <2>2, <4>1 DEF Committing
      <4>3. QED BY <4>2, StagedEnds
    <3>2. pc'[c] # "rpc"
      BY <1>g, <2>2
    <3>3. \A part \in {"todo", "late"} :
            Acts(call'[c][part]) => Commits(c)' /\ Staged(call[c][part])'
      BY <1>c, <1>e, <1>s, <2>1 DEF Committing
    <3>4. QED BY <1>a, <1>u, <1>c, <1>e, <1>f, <2>1, <3>1, <3>2, <3>3 DEF Committing, Acts
  <2>3. QED BY <1>j, <2>1, <2>2
<1>5. CASE ChildReply(c) \/ ChildTimeOut(c)
  BY <1>0, <1>5, CallsOf DEF ChildReply, ChildTimeOut, Advances
<1>6. CASE Lock(c) \/ LockBusy(c)
  <2>1. /\ UNCHANGED <<call, step>>
        /\ \/ Goto(c, "locked") /\ pc[c] \in {"record", "complete"}
           \/ Throw(c)
    BY <1>6 DEF Lock, LockBusy, WantsLock
  <2>2. pc[c] = "complete" => Completing(c)
    BY <1>0 DEF Advances
  <2>3. QED BY <1>j, <1>k, <2>1, <2>2 DEF Answered
<1>7. CASE Unlock(c)
  <2>1. UNCHANGED <<call, step, erred>> /\ pc[c] = "unlock"
    BY <1>7 DEF Unlock
  <2>2. pc'[c] \in {"failed", "done", "record"}
    BY <1>a, <1>7 DEF Unlock
  <2>3. QED BY <1>i, <2>1, <2>2 DEF Answered
<1>8. CASE Load(c) \/ LoadForCheck(c) \/ CheckSequence(c)
  <2>1. /\ UNCHANGED <<call, step>>
        /\ \/ Goto(c, "loaded") /\ pc[c] = "locked"
           \/ Goto(c, "check") \/ Goto(c, "complete") \/ Throw(c)
    BY <1>8 DEF Load, LoadForCheck, CheckSequence, GotoIf
  <2>2. QED BY <1>j, <1>k, <2>1 DEF Answered
<1>9. CASE VerifyNext(c) \/ VerifyAll(c)
  <2>1. /\ UNCHANGED <<call, step>> /\ pc[c] = "loaded" /\ (Goto(c, "verified") \/ Throw(c))
    BY <1>9 DEF VerifyNext, VerifyAll, GotoIf
  <2>2. QED BY <1>j, <1>k, <2>1 DEF Answered
<1>10. CASE CallRecorded(c)
  <2>1. /\ UNCHANGED call /\ pc[c] = "record" /\ step' = [step EXCEPT ![c] = @ + 1]
        /\ Goto(c, "ready") \/ Throw(c)
    BY <1>10 DEF CallRecorded, GotoIf
  <2>2. step'[c] = step[c] + 1 /\ step[c] \in Nat
    BY <1>a, <2>1
  <2>3. ~erred[c] /\ call[c].todo = <<>> /\ call[c].late = <<>>
    BY <1>0, <2>1 DEF Shaped, CallsInv, Quiet
  <2>4. pc'[c] = "ready" \/ (erred'[c] /\ pc'[c] \in {"unlock", "failed"})
    BY <1>g, <1>h, <2>1
  <2>5. ~Acts(<<>>)
    BY DEF Acts
  <2>6. Past(c, 5)' => Past(c, 5) \/ step[c] = 5
    BY <2>2 DEF Past
  <2>7. command[c] = KernelRun(TRUE) /\ Past(c, 5)' => UpTo(6)
    BY <1>c, <2>1, <2>3, <2>6 DEF Committing, Commits, Answered
  <2>8. Past(c, 1) => Past(c, 1)'
    BY <2>2 DEF Past
  <2>9. UpTo(6) => UpTo(6)'
    BY <1>b
  <2>10. QED BY <1>a, <1>f, <2>1, <2>3, <2>4, <2>5, <2>7, <2>8, <2>9 DEF Committing, Answered
<1>11. CASE Serve(c)
  <2>1. PICK part \in {"todo", "late"} :
          /\ call[c][part] # <<>>
          /\ log' = Append(log, [id |-> Len(log) + 1, type |-> Head(call[c][part])])
          /\ call' = [call EXCEPT
               ![c][part] = Tail(@),
               ![c].done = IF part = "todo" THEN Append(@, Len(log) + 1) ELSE @]
          /\ UNCHANGED <<step, pc, erred>>
    BY <1>11 DEF Serve
  <2>2. /\ call'[c][part] = Tail(call[c][part])
        /\ \A other \in {"todo", "late"} \ {part} : call'[c][other] = call[c][other]
        /\ call'[c].served = call[c].served /\ call'[c].accepted = call[c].accepted
    <3>1. CASE part = "todo"
      BY <1>a, <2>1, <3>1 DEF CallType
    <3>2. CASE part = "late"
      BY <1>a, <2>1, <3>2 DEF CallType
    <3>3. QED BY <3>1, <3>2
  <2>3. call[c][part] \in Seq(EventTypes) /\ Len(log) + 1 \in Nat
    BY <1>0, <1>a DEF CallType, LogType
  <2>4. Acts(Tail(call[c][part])) => Acts(call[c][part])
    BY <2>1, <2>3, TailActs
  <2>5. \A other \in {"todo", "late"} : Staged(call[c][other]) => Staged(call[c][other])'
    <3>1. ASSUME Staged(call[c][part]) PROVE Staged(call[c][part])'
      <4>1. PICK s \in Seq(EventTypes) : s = call[c][part]
        BY <2>3
      <4>2. PICK n \in Nat : n = Len(log) + 1
        BY <2>3
      <4>3. Staged(Tail(s))'
        BY <1>0, <2>1, <3>1, <4>1, <4>2, StagedNext
      <4>4. call'[c][part] = Tail(s)
        BY <2>2, <4>1
      <4>5. \A t : t = Tail(s) /\ call'[c][part] = t => Staged(call[c][part])'
        BY <4>3 DEF Staged, RestOf
      <4>6. QED BY <4>4, <4>5
    <3>2. ASSUME NEW other \in {"todo", "late"} \ {part}, Staged(call[c][other])
          PROVE  Staged(call[c][other])'
      <4>1. \A s : Staged(s) /\ call'[c][other] = s => Staged(call[c][other])'
        BY <1>b DEF Staged, RestOf
      <4>2. QED BY <2>2, <3>2, <4>1
    <3>3. QED BY <3>1, <3>2
  <2>6. \A other \in {"todo", "late"} : Acts(call'[c][other]) => Acts(call[c][other])
    BY <2>2, <2>4
  <2>7. \A other \in {"todo", "late"} :
          Acts(call'[c][other]) => Commits(c)' /\ Staged(call[c][other])'
    BY <1>c, <1>e, <2>1, <2>5, <2>6 DEF Committing
  <2>8. Staged(call[c].todo) => Staged(call[c].todo)'
    BY <2>5
  <2>9. QED BY <1>a, <1>u, <1>c, <1>e, <1>f, <2>1, <2>2, <2>7, <2>8 DEF Committing, Acts
<1>12. CASE ServeFails(c)
  <2>1. /\ UNCHANGED <<step, pc, erred>>
        /\ call' = [call EXCEPT ![c].todo = <<>>, ![c].late = <<>>, ![c].served = FALSE]
    BY <1>12 DEF ServeFails
  <2>2. call'[c].todo = <<>> /\ call'[c].late = <<>> /\ call'[c].served = FALSE
    BY <1>a, <2>1 DEF CallType
  <2>3. ~Acts(<<>>)
    BY DEF Acts
  <2>4. QED BY <1>a, <1>u, <1>c, <1>e, <1>f, <2>1, <2>2, <2>3 DEF Committing
<1>13. CASE TimeOut(c)
  <2>1. /\ UNCHANGED step /\ Throw(c) /\ pc[c] = "rpc"
        /\ call' = [call EXCEPT ![c].late = call[c].todo, ![c].todo = <<>>]
    BY <1>13 DEF TimeOut
  <2>2. call'[c].todo = <<>> /\ call'[c].late = call[c].todo
    BY <1>a, <2>1 DEF CallType
  <2>3. ~Acts(<<>>)
    BY DEF Acts
  <2>4. Acts(call'[c].late) => Commits(c) /\ Staged(call[c].late)'
    <3>1. Acts(call[c].todo) => Commits(c) /\ Staged(call[c].todo)
      BY <1>c DEF Committing
    <3>2. \A s : Staged(s) /\ call'[c].late = s => Staged(call[c].late)'
      BY <1>b DEF Staged, RestOf
    <3>3. QED BY <2>2, <3>1, <3>2
  <2>5. \A part \in {"todo", "late"} : Acts(call'[c][part]) => Commits(c)' /\ Staged(call[c][part])'
    BY <1>e, <2>1, <2>2, <2>3, <2>4
  <2>6. QED BY <1>a, <1>u, <1>c, <1>e, <1>f, <1>h, <2>1, <2>5 DEF Committing, Acts
<1>14. CASE Crash(c)
  BY <1>k, <1>14 DEF Crash, Answered
<1>15. CASE Open(c)
  BY <1>0, <1>15, CallsOf DEF Open
<1>16. QED
  BY <1>1, <1>2, <1>3, <1>4, <1>5, <1>6, <1>7, <1>8, <1>9, <1>10, <1>11, <1>12, <1>13,
     <1>14, <1>15 DEF StepOf, ClientStep

\* A step that leaves all but the workspace file alone.
LEMMA OnlyWrites ==
    ASSUME TruthInv, UNCHANGED vars, effect' \in [Clients -> BOOLEAN],
           \A d \in Clients : effect[d] => effect'[d],
           \A d \in Clients : effect'[d] =>
              effect[d] \/ (command[d] = KernelRun(TRUE) /\ Past(d, 1) /\ UpTo(3))
    PROVE  TruthInv'
<1>1. \A k : UpTo(k)' <=> UpTo(k)
  BY DEF UpTo, vars
<1>2. \A s : Staged(s)' <=> Staged(s)
  BY <1>1 DEF Staged, RestOf
<1>3. \A d \in Clients : (Commits(d)' <=> Commits(d)) /\ \A n : Past(d, n)' <=> Past(d, n)
  BY DEF Commits, Past, vars
<1>4. \A m : Tells(m)' <=> Tells(m)
  BY <1>1 DEF Tells, vars
<1>5. \A d \in Clients : Tells(loaded[d])' /\ Tells(next[d])'
  <2>1. \A d \in Clients : Tells(loaded[d]) /\ Tells(next[d])
    BY DEF TruthInv
  <2>2. QED BY <1>4, <2>1 DEF vars, Tells
<1>6. Tells(file)'
  <2>1. Tells(file)
    BY DEF TruthInv
  <2>2. QED BY <1>4, <2>1 DEF vars, Tells
<1>7. ASSUME NEW d \in Clients PROVE Committing(d)'
  <2>1. Committing(d) /\ call' = call /\ pc' = pc /\ erred' = erred /\ command' = command
    BY DEF TruthInv, vars
  <2>2. \A part \in {"todo", "late"} :
          Acts(call'[d][part]) => Commits(d)' /\ Staged(call[d][part])'
    BY <1>2, <1>3, <2>1 DEF Committing, Staged, RestOf
  <2>3. Staged(call[d].todo) => Staged(call[d].todo)'
    BY <1>2, <2>1 DEF Staged, RestOf
  <2>4. /\ (UpTo(6)' <=> UpTo(6)) /\ (UpTo(3)' <=> UpTo(3))
        /\ (Past(d, 5)' <=> Past(d, 5)) /\ (Past(d, 1)' <=> Past(d, 1))
    BY <1>1, <1>3
  <2>5. effect'[d] => command'[d] = KernelRun(TRUE) /\ Past(d, 1)' /\ UpTo(3)'
    BY <2>1, <2>4 DEF Committing
  <2>6. QED BY <1>3, <2>1, <2>2, <2>3, <2>4, <2>5 DEF Committing, Acts
<1>8. \A i \in 1..Len(log') : log'[i].type = "action.recorded" => \E d \in Clients : effect'[d]
  BY DEF TruthInv, vars
<1>9. QED BY <1>5, <1>6, <1>7, <1>8 DEF TruthInv

\* The write itself comes when the commit's evidence has been appended.
LEMMA WriteStep ==
    ASSUME RunInv, TruthInv, NEW c \in Clients, WriteTarget(c)
    PROVE  TruthInv'
<1>1. /\ UNCHANGED vars /\ effect' = [effect EXCEPT ![c] = TRUE]
      /\ "action.recorded" \in NextEvents(c)
  BY DEF WriteTarget, ActionIsNext
<1>2. PICK part \in {"todo", "late"} :
        call[c][part] # <<>> /\ Head(call[c][part]) = "action.recorded"
  BY <1>1 DEF NextEvents
<1>3. call \in [Clients -> CallType] /\ step[c] \in Nat
  BY DEF RunInv, TypeInv, TypeOK, CallType
<1>4. call[c][part] \in Seq(EventTypes)
  BY <1>3 DEF CallType
<1>5. Acts(call[c][part])
  <2>1. Len(call[c][part]) >= 1 /\ call[c][part][1] = "action.recorded"
    BY <1>2, <1>4
  <2>2. QED BY <1>4, <2>1 DEF Acts
<1>6. Commits(c) /\ Staged(call[c][part])
  BY <1>5 DEF TruthInv, Committing
<1>7. UpTo(3)
  BY <1>2, <1>4, <1>6, StagedEnds
<1>8. command[c] = KernelRun(TRUE) /\ Past(c, 1)
  BY <1>3, <1>6 DEF Commits, Past
<1>9. effect \in [Clients -> BOOLEAN]
  BY DEF TruthInv
<1>10. effect' \in [Clients -> BOOLEAN] /\ \A d \in Clients : d # c => effect'[d] = effect[d]
  BY <1>1, <1>9
<1>11. \A d \in Clients : effect[d] => effect'[d]
  BY <1>1, <1>9
<1>12. QED BY <1>1, <1>7, <1>8, <1>10, <1>11, OnlyWrites

\* An event that says the file was written is appended after the write.
LEMMA ServedTruly ==
    ASSUME RunInv, TruthInv, NEW c \in Clients, StepOf(c), effect' = effect,
           Serve(c) /\ ActionIsNext(c) => effect[c]
    PROVE  TruthInv'
<1>1. \A i \in 1..Len(log') : log'[i].type = "action.recorded" => \E d \in Clients : effect'[d]
  <2>1. CASE log' = log
    BY <2>1 DEF TruthInv
  <2>2. CASE Serve(c)
    <3>1. PICK part \in {"todo", "late"} :
            /\ call[c][part] # <<>>
            /\ log' = Append(log, [id |-> Len(log) + 1, type |-> Head(call[c][part])])
      BY <2>2 DEF Serve
    <3>2. LogType
      BY DEF RunInv, TypeInv, TypeOK, LogType
    <3>3. /\ Len(log) \in Nat /\ Len(log') = Len(log) + 1
          /\ \A i \in 1..Len(log) : log'[i] = log[i]
          /\ log'[Len(log) + 1].type = Head(call[c][part])
      BY <3>1, <3>2 DEF LogType
    <3>4. Head(call[c][part]) = "action.recorded" => effect[c]
      BY <2>2, <3>1 DEF ActionIsNext, NextEvents
    <3>5. ASSUME NEW i \in 1..Len(log'), log'[i].type = "action.recorded"
          PROVE  \E d \in Clients : effect'[d]
      <4>1. i \in 1..Len(log) \/ i = Len(log) + 1
        BY <3>3
      <4>2. CASE i \in 1..Len(log)
        BY <3>3, <3>5, <4>2 DEF TruthInv
      <4>3. CASE i = Len(log) + 1
        BY <3>3, <3>4, <3>5, <4>3
      <4>4. QED BY <4>1, <4>2, <4>3
    <3>6. QED BY <3>5
  <2>3. QED BY <2>1, <2>2, LogStays
<1>2. effect' \in [Clients -> BOOLEAN]
  BY DEF TruthInv
<1>3. QED BY <1>1, <1>2, TellsStep, CommittingStep DEF TruthInv

LEMMA InitTruth == RunInit => TruthInv
<1> SUFFICES ASSUME RunInit PROVE TruthInv
  OBVIOUS
<1>1. log = <<>> /\ file = Missing /\ effect = [c \in Clients |-> FALSE]
  BY DEF RunInit, Init
<1>2. \A c \in Clients :
        /\ call[c] = NoCall /\ pc[c] = "new" /\ loaded[c] = Missing
        /\ next[c] = Missing /\ step[c] = 1 /\ ~effect[c]
  BY DEF RunInit, Init
<1>3. NoCall.todo = <<>> /\ NoCall.late = <<>> /\ ~Acts(<<>>)
  BY DEF NoCall, Acts
<1>4. Missing.status = "missing"
  BY DEF Missing, Manifest
<1>5. \A m : m.status = "missing" => Tells(m)
  BY DEF Tells
<1>6. ASSUME NEW c \in Clients PROVE Committing(c)
  <2>0. step[c] = 1
    BY <1>2, Zenon
  <2>1. ~Commits(c) /\ ~Past(c, 5)
    BY <2>0 DEF Commits, Past
  <2>2. \A part \in {"todo", "late"} : ~Acts(call[c][part])
    BY <1>2, <1>3
  <2>3. ~effect[c]
    BY <1>2
  <2>4. QED BY <2>1, <2>2, <2>3 DEF Committing
<1>7. Tells(file) /\ \A c \in Clients : Tells(loaded[c]) /\ Tells(next[c])
  BY <1>1, <1>2, <1>4, <1>5
<1>8. QED BY <1>1, <1>6, <1>7 DEF TruthInv

LEMMA StepTruth == RunInv /\ TruthInv /\ [RunNext]_runVars => TruthInv'
<1> SUFFICES ASSUME RunInv, TruthInv, [RunNext]_runVars PROVE TruthInv'
  OBVIOUS
<1>1. ASSUME NEW c \in Clients, WriteTarget(c) PROVE TruthInv'
  BY <1>1, WriteStep
<1>2. ASSUME NEW c \in Clients, ServeRun(c) PROVE TruthInv'
  BY <1>2, ServedTruly DEF ServeRun, StepOf
<1>3. ASSUME NEW c \in Clients, ClientStep(c) \/ ServeFails(c) \/ TimeOut(c) \/ Crash(c),
             UNCHANGED effect
      PROVE  TruthInv'
  <2>1. StepOf(c)
    BY <1>3 DEF StepOf
  <2>2. log' = log
    <3>1. CASE CheckMissing(c) \/ Open(c) \/ Truncate(c) \/ Write(c) \/ CallLocked(c)
                 \/ Call(c) \/ Reply(c) \/ ChildReply(c) \/ Lock(c) \/ LockBusy(c) \/ Unlock(c)
      BY <3>1 DEF CheckMissing, Open, Truncate, Write, CallLocked, Call, StartCall, Reply,
         ChildReply, Lock, LockBusy, Unlock
    <3>2. CASE Load(c) \/ VerifyNext(c) \/ VerifyAll(c) \/ Recheck(c) \/ CallRecorded(c)
                 \/ LoadForCheck(c) \/ CheckSequence(c)
      BY <3>2 DEF Load, VerifyNext, VerifyAll, Recheck, CallRecorded, LoadForCheck, CheckSequence
    <3>3. CASE ServeFails(c) \/ TimeOut(c) \/ Crash(c)
      BY <3>3 DEF ServeFails, TimeOut, Crash
    <3>4. QED BY SMTT(30), <1>3, <3>1, <3>2, <3>3 DEF ClientStep
  <2>3. ~Serve(c)
    <3>1. SUFFICES ASSUME Serve(c) PROVE FALSE
      OBVIOUS
    <3>2. PICK part \in {"todo", "late"} :
            log' = Append(log, [id |-> Len(log) + 1, type |-> Head(call[c][part])])
      BY <3>1 DEF Serve
    <3>3. log \in Seq([id : Nat, type : EventTypes])
      BY DEF RunInv, TypeInv, TypeOK
    <3>4. Len(log') = Len(log) + 1 /\ Len(log) \in Nat
      BY <3>2, <3>3
    <3>5. QED BY <2>2, <3>4
  <2>4. QED BY <1>3, <2>1, <2>3, ServedTruly
<1>4. CASE UNCHANGED runVars
  <2>1. UNCHANGED <<vars, effect>>
    BY <1>4 DEF runVars
  <2>2. effect \in [Clients -> BOOLEAN]
    BY DEF TruthInv
  <2>3. QED BY <2>1, <2>2, OnlyWrites
<1>5. QED BY <1>1, <1>2, <1>3, <1>4 DEF RunNext

\* The evidence and the record, as the property states them.
LEMMA OccursInOrder ==
    ASSUME LogType
    PROVE  /\ UpTo(3) => Occur(WriteEvidence)
           /\ UpTo(6) => Occur(WriteRecord)
           /\ UpTo(6) => \E i \in 1..Len(log) : log[i].type = "action.recorded"
<1>1. /\ Len(WriteEvidence) = 3 /\ Len(WriteRecord) = 3
      /\ \A i \in 1..3 : WriteEvidence[i] = CommitEvents[i]
      /\ \A i \in 1..3 : WriteRecord[i] = CommitEvents[i + 3]
  BY DEF WriteEvidence, WriteRecord, CommitEvents
<1>2. DOMAIN log = 1..Len(log)
  BY DEF LogType
<1>3. ASSUME UpTo(3) PROVE Occur(WriteEvidence)
  <2>1. PICK f \in [1..6 -> Nat] :
          \A i \in 1..3 :
            /\ f[i] \in 1..Len(log)
            /\ log[f[i]].type = CommitEvents[i]
            /\ i > 1 => f[i - 1] < f[i]
    BY <1>3 DEF UpTo
  <2> DEFINE g == [i \in 1..3 |-> f[i]]
  <2>2. g \in [1..Len(WriteEvidence) -> DOMAIN log]
    BY <1>1, <1>2, <2>1
  <2>3. ASSUME NEW i \in 1..3
        PROVE  log[g[i]].type = WriteEvidence[i] /\ (i > 1 => g[i - 1] < g[i])
    <3>1. g[i] = f[i] /\ (i > 1 => g[i - 1] = f[i - 1])
      OBVIOUS
    <3>2. QED BY <1>1, <2>1, <3>1
  <2> HIDE DEF g
  <2>4. QED BY <1>1, <2>2, <2>3 DEF Occur
<1>4. ASSUME UpTo(6) PROVE Occur(WriteRecord) /\ \E i \in 1..Len(log) : log[i].type = "action.recorded"
  <2>1. PICK f \in [1..6 -> Nat] :
          \A i \in 1..6 :
            /\ f[i] \in 1..Len(log)
            /\ log[f[i]].type = CommitEvents[i]
            /\ i > 1 => f[i - 1] < f[i]
    BY <1>4 DEF UpTo
  <2> DEFINE g == [i \in 1..3 |-> f[i + 3]]
  <2>2. g \in [1..Len(WriteRecord) -> DOMAIN log]
    BY <1>1, <1>2, <2>1
  <2>3. ASSUME NEW i \in 1..3
        PROVE  log[g[i]].type = WriteRecord[i] /\ (i > 1 => g[i - 1] < g[i])
    <3>1. g[i] = f[i + 3] /\ (i > 1 => g[i - 1] = f[(i + 3) - 1])
      <4>1. i > 1 => i - 1 \in 1..3 /\ (i - 1) + 3 = (i + 3) - 1
        OBVIOUS
      <4>2. QED BY <4>1
    <3>2. i + 3 \in 1..6 /\ i + 3 > 1
      OBVIOUS
    <3>3. QED BY <1>1, <2>1, <3>1, <3>2
  <2> HIDE DEF g
  <2>4. Occur(WriteRecord)
    BY <1>1, <2>2, <2>3 DEF Occur
  <2>5. f[4] \in 1..Len(log) /\ log[f[4]].type = "action.recorded"
    BY <2>1, EventsOfTheCommit
  <2>6. QED BY <2>4, <2>5
<1>5. QED BY <1>3, <1>4

\* What a run did to the workspace, what the ledger tells of it and what its
\* manifest says agree, for any number of clients that use the run id, and
\* whatever is lost, times out or dies: the file is not written before consent,
\* policy decision and lease are in the ledger, "completed" is said only of a run
\* that wrote it and has the record of it, "blocked" only of one that did not.
THEOREM RunAlwaysTellsTheTruth == RunSpec => []RunTellsTheTruth
<1>1. RunInit => RunInv /\ TruthInv
  BY InitRunInv, InitTruth DEF RunInit
<1>2. RunInv /\ TruthInv /\ [RunNext]_runVars => RunInv' /\ TruthInv'
  BY RunSteps, StepRunInv, StepTruth
<1>3. ASSUME RunInv, TruthInv PROVE RunTellsTheTruth
  <2>1. LogType /\ \A c, d \in Clients : copy[c].ids # <<>> /\ copy[d].ids # <<>> => c = d
    BY <1>3 DEF RunInv, TypeInv, TypeOK, LogType, AttemptInv, OwnerInv, Owner
  <2>2. ASSUME NEW c \in Clients, effect[c]
        PROVE  command[c] = KernelRun(TRUE) /\ copy[c].ids # <<>> /\ UpTo(3)
    <3>1. command[c] = KernelRun(TRUE) /\ Past(c, 1) /\ UpTo(3)
      BY <1>3, <2>2 DEF TruthInv, Committing
    <3>2. QED BY <1>3, <3>1 DEF Past, RunInv, AttemptInv, Advances
  <2>3. WriteIsEvidenced
    BY <2>1, <2>2, OccursInOrder DEF WriteIsEvidenced
  <2>4. Tells(file)
    BY <1>3 DEF TruthInv
  <2>5. file.status = "completed" => (\E c \in Clients : effect[c]) /\ Occur(WriteRecord)
    <3>1. file.status = "completed" => UpTo(6)
      BY <2>4 DEF Tells
    <3>2. UpTo(6) => Occur(WriteRecord) /\ \E i \in 1..Len(log) : log[i].type = "action.recorded"
      BY <2>1, OccursInOrder
    <3>3. QED BY <1>3, <3>1, <3>2 DEF TruthInv
  <2>6. file.status = "blocked" => ~\E c \in Clients : effect[c]
    <3>1. SUFFICES ASSUME file.status = "blocked", NEW d \in Clients, effect[d] PROVE FALSE
      OBVIOUS
    <3>2. PICK c \in Clients : copy[c].ids # <<>> /\ command[c] = KernelRun(FALSE)
      BY <2>4, <3>1 DEF Tells
    <3>3. command[d] = KernelRun(TRUE) /\ copy[d].ids # <<>>
      BY <2>2, <3>1
    <3>4. QED BY <2>1, <3>2, <3>3, RunsDiffer
  <2>7. QED BY <2>3, <2>5, <2>6 DEF RunTellsTheTruth, StatusMatchesEffect
<1>4. QED BY <1>1, <1>2, <1>3, PTL DEF RunSpec
=============================================================================
