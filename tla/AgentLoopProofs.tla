---------------------------- MODULE AgentLoopProofs ----------------------------
(***************************************************************************)
(* The agent loop, for every limit on turns, calls, faults and outside      *)
(* edits and every depth of nesting.                                        *)
(*                                                                          *)
(* First, no tool call id is acted on twice in a run.  That an id acted on  *)
(* has settled is not enough: the call in hand has settled too.  What makes *)
(* it inductive is that from settlement to the act no act bears the id of   *)
(* the call in hand.                                                        *)
(*                                                                          *)
(* Then what a level knows, tells and does, the other five safety           *)
(* properties.  They rest on each other: a reply, a result and a reason     *)
(* are found in the ledger because the calls that are left have serials     *)
(* nothing was told of yet (Numbered), so LoopInv states them together,     *)
(* level by level.  A step is a step of one level; the others keep theirs   *)
(* because they share nothing with it but what grows (OthersKeep).  The     *)
(* actions are proved by what they do to the conversation: they carry on    *)
(* (Carries), reply to the call in hand (Replies) or add a message (Asks).  *)
(***************************************************************************)
EXTENDS AgentLoop, SequenceTheorems, TLAPS

\* From the settlement of a call to its act.
BeforeAct ==
    {"decide", "lease", "card", "propose", "denied", "approved", "snapshot", "act"}

Shape ==
    /\ pc \in [Levels -> Points]
    /\ todo = [l \in Levels |-> todo[l]]
    /\ tracker = [l \in Levels |-> [bound |-> tracker[l].bound, settled |-> tracker[l].settled]]
    /\ \A a \in acts : a.level \in Levels

ActedSettled == \A a \in acts : a.id \in tracker[a.level].settled

InHandSettled ==
    \A l \in Levels : pc[l] \in BeforeAct =>
       /\ InHand(l).id \in tracker[l].settled
       /\ \A a \in acts : a.level = l => a.id # InHand(l).id

OnceInv == Shape /\ ActedSettled /\ InHandSettled /\ ActsOnce

LEMMA OnceInit == Init => OnceInv
  <1> SUFFICES ASSUME Init PROVE OnceInv
    OBVIOUS
  <1>1. Shape
    <2>8. pc = [l \in Levels |-> Start(l)] /\ acts = {}
      BY DEF Init
    <2>9. \A l \in Levels : Start(l) \in Points
      BY DEF Start, Points
    <2>1. pc \in [Levels -> Points]
      BY <2>8, <2>9
    <2>6. todo = [l \in Levels |-> <<>>]
      BY DEF Init
    <2>7. todo = [l \in Levels |-> todo[l]]
      BY <2>6
    <2>2. tracker = [l \in Levels |-> [bound |-> <<>>, settled |-> {}]]
      BY DEF Init, NoTracker
    <2>3. \A l \in Levels : tracker[l] = [bound |-> tracker[l].bound, settled |-> tracker[l].settled]
      BY <2>2
    <2>4. tracker = [l \in Levels |-> tracker[l]]
      BY <2>2
    <2>5. tracker = [l \in Levels |-> [bound |-> tracker[l].bound, settled |-> tracker[l].settled]]
      BY <2>3, <2>4
    <2> QED
      BY <2>1, <2>5, <2>7, <2>8 DEF Shape
  <1>2. \A l \in Levels : pc[l] \notin BeforeAct
    BY DEF Init, Start, BeforeAct
  <1> QED
    BY <1>1, <1>2 DEF Init, OnceInv, ActedSettled, InHandSettled, ActsOnce

\* A step that acts on nothing, settles nothing and takes no call in hand that
\* was not there before.
LEMMA CalmKeeps ==
    ASSUME OnceInv, NEW l \in Levels, NEW q \in Points, NEW t,
           pc' = [pc EXCEPT ![l] = q], todo' = [todo EXCEPT ![l] = t],
           tracker' = tracker, acts' = acts,
           q \in BeforeAct => pc[l] \in BeforeAct /\ t = todo[l]
    PROVE  OnceInv'
  <1>1. Shape'
    <2>1. pc' \in [Levels -> Points]
      BY DEF OnceInv, Shape
    <2>2. todo' = [k \in Levels |-> todo'[k]]
      BY DEF OnceInv, Shape
    <2> QED
      BY <2>1, <2>2 DEF OnceInv, Shape
  <1>2. ActedSettled' /\ ActsOnce'
    BY DEF OnceInv, ActedSettled, ActsOnce
  <1>3. ASSUME NEW k \in Levels, pc'[k] \in BeforeAct
        PROVE  pc[k] \in BeforeAct /\ InHand(k)' = InHand(k)
    <2>1. CASE k = l
      <3>1. pc'[k] = q
        BY <2>1 DEF OnceInv, Shape
      <3>2. todo'[k] = todo[k]
        BY <2>1, <3>1, <1>3 DEF OnceInv, Shape
      <3> QED
        BY <2>1, <3>1, <3>2, <1>3 DEF InHand
    <2>2. CASE k # l
      <3>1. pc'[k] = pc[k] /\ todo'[k] = todo[k]
        BY <2>2 DEF OnceInv, Shape
      <3> QED
        BY <3>1, <1>3 DEF InHand
    <2> QED
      BY <2>1, <2>2
  <1>4. InHandSettled'
    BY <1>3 DEF OnceInv, InHandSettled
  <1> QED
    BY <1>1, <1>2, <1>4 DEF OnceInv

\* The same for a step that leaves all calls in hand.
LEMMA MoveKeeps ==
    ASSUME OnceInv, NEW l \in Levels, NEW q \in Points,
           pc' = [pc EXCEPT ![l] = q],
           todo' = todo, tracker' = tracker, acts' = acts,
           q \in BeforeAct => pc[l] \in BeforeAct
    PROVE  OnceInv'
  <1>1. todo' = [todo EXCEPT ![l] = todo[l]]
    BY DEF OnceInv, Shape
  <1> QED
    BY <1>1, CalmKeeps

\* The step of the act itself: of the call in hand, once, as nothing before
\* bears its id.
LEMMA ActKeeps ==
    ASSUME OnceInv, NEW l \in Levels, NEW q \in Points \ BeforeAct,
           pc[l] = "act", pc' = [pc EXCEPT ![l] = q],
           todo' = todo, tracker' = tracker, acts' = acts \cup {Act(l)}
    PROVE  OnceInv'
  <1> DEFINE new == Act(l)
  <1>1. new.level = l /\ new.id = InHand(l).id
    BY DEF Act
  <1>2. /\ InHand(l).id \in tracker[l].settled
        /\ \A a \in acts : a.level = l => a.id # InHand(l).id
    BY DEF OnceInv, InHandSettled, BeforeAct
  <1> HIDE DEF new
  <1>3. acts' = acts \cup {new}
    BY DEF new
  <1>4. Shape'
    <2>1. pc' \in [Levels -> Points]
      BY DEF OnceInv, Shape
    <2> QED
      BY <2>1, <1>1, <1>3 DEF OnceInv, Shape
  <1>5. ActedSettled'
    BY <1>1, <1>2, <1>3 DEF OnceInv, ActedSettled
  <1>6. ActsOnce'
    BY <1>1, <1>2, <1>3 DEF OnceInv, ActsOnce
  <1>7. InHandSettled'
    <2> SUFFICES ASSUME NEW k \in Levels, pc'[k] \in BeforeAct
                 PROVE  /\ InHand(k).id \in tracker[k].settled
                        /\ \A a \in acts' : a.level = k => a.id # InHand(k).id
      BY DEF InHandSettled, InHand
    <2>1. k # l /\ pc'[k] = pc[k]
      BY DEF OnceInv, Shape
    <2> QED
      BY <2>1, <1>1, <1>3 DEF OnceInv, InHandSettled
  <1> QED
    BY <1>4, <1>5, <1>6, <1>7 DEF OnceInv

-----------------------------------------------------------------------------
(* Every step keeps the invariant *)

LEMMA TurnsKeep ==
    ASSUME OnceInv, NEW l \in Levels,
           Begin(l) \/ Request(l) \/ Exhaust(l) \/ ProviderFails(l) \/ Complete(l) \/ CloseFails(l)
    PROVE  OnceInv'
  <1> USE DEF Points, Ended, BeforeAct
  <1>1. CASE Begin(l)
    BY <1>1, MoveKeeps DEF Begin, history
  <1>2. CASE Request(l)
    BY <1>2, MoveKeeps DEF Request, history
  <1>3. CASE Exhaust(l)
    BY <1>3, MoveKeeps DEF Exhaust, history
  <1>4. CASE ProviderFails(l)
    BY <1>4, MoveKeeps DEF ProviderFails, history
  <1>5. CASE Complete(l)
    BY <1>5, MoveKeeps DEF Complete, history
  <1>6. CASE CloseFails(l)
    BY <1>6, MoveKeeps DEF CloseFails
  <1> QED
    BY <1>1, <1>2, <1>3, <1>4, <1>5, <1>6

\* A reply leaves no call in hand until the next one settles.
LEMMA RepliesKeep ==
    ASSUME OnceInv, NEW l \in Levels,
           Reject(l) \/ Refuse(l) \/ EditFails(l) \/ Deny(l) \/ Report(l) \/ ReportFailure(l)
             \/ ReportChild(l)
    PROVE  OnceInv'
  <1>1. /\ tracker' = tracker /\ acts' = acts
        /\ \E ok \in BOOLEAN \cup {acted[l]} : Reply(l, ok)
    BY DEF Reject, Refuse, EditFails, Deny, Report, ReportFailure, ReportChild, history
  <1> DEFINE q == IF Len(todo[l]) = 1 THEN "turn" ELSE "settle"
  <1>2. pc' = [pc EXCEPT ![l] = q] /\ todo' = [todo EXCEPT ![l] = Tail(todo[l])]
    BY <1>1 DEF Reply
  <1>3. q \in Points /\ q \notin BeforeAct
    BY DEF Points, BeforeAct
  <1> HIDE DEF q
  <1> QED
    BY <1>1, <1>2, <1>3, CalmKeeps

LEMMA ApprovalsKeep ==
    ASSUME OnceInv, NEW l \in Levels,
           Decide(l) \/ IssueLease(l) \/ PresentCard(l) \/ ApproveUnasked(l)
    PROVE  OnceInv'
  <1> USE DEF BeforeAct
  <1>1. CASE Decide(l)
    <2> DEFINE q == IF InHand(l).kind \in Asking THEN "card" ELSE "lease"
    <2>1. /\ pc[l] = "decide" /\ pc' = [pc EXCEPT ![l] = q]
          /\ todo' = todo /\ tracker' = tracker /\ acts' = acts
      BY <1>1 DEF Decide, history
    <2>2. q \in Points
      BY DEF Points
    <2> HIDE DEF q
    <2> QED
      BY <2>1, <2>2, MoveKeeps
  <1>2. CASE IssueLease(l)
    BY <1>2, MoveKeeps DEF IssueLease, history, Points
  <1>3. CASE PresentCard(l)
    BY <1>3, MoveKeeps DEF PresentCard, history, Points
  <1>4. CASE ApproveUnasked(l)
    BY <1>4, MoveKeeps DEF ApproveUnasked, Approve, Points
  <1> QED
    BY <1>1, <1>2, <1>3, <1>4

LEMMA UserKeeps ==
    ASSUME OnceInv, UserApproves \/ GrantNotSaved \/ UserDenies \/ EofDenies
    PROVE  OnceInv'
  <1>1. 1 \in Levels
    BY AgentAssumption DEF AgentAssumption, Levels
  <1>2. CASE UserApproves
    BY <1>1, <1>2, MoveKeeps DEF UserApproves, Waiting, Approve, Points, BeforeAct
  <1>3. CASE GrantNotSaved
    BY <1>1, <1>3, MoveKeeps DEF GrantNotSaved, Waiting, Points, Ended, BeforeAct
  <1>4. CASE UserDenies
    BY <1>1, <1>4, MoveKeeps DEF UserDenies, Waiting, history, Points, BeforeAct
  <1>5. CASE EofDenies
    BY <1>1, <1>5, MoveKeeps DEF EofDenies, Waiting, history, Points, BeforeAct
  <1> QED
    BY <1>2, <1>3, <1>4, <1>5

\* A call settles once, so its id is of no call that was acted on.
LEMMA AdmitKeeps == ASSUME OnceInv, NEW l \in Levels, Admit(l) PROVE OnceInv'
  <1> DEFINE id == InHand(l).id
             was == tracker[l]
  <1>1. /\ pc[l] = "settle" /\ pc' = [pc EXCEPT ![l] = "decide"]
        /\ id \notin was.settled
        /\ todo' = todo /\ acts' = acts
        /\ tracker' = [tracker EXCEPT ![l] = Settle(was, id)]
    BY DEF Admit, Settles, history
  <1>2. was = [bound |-> was.bound, settled |-> was.settled]
    BY DEF OnceInv, Shape
  <1>3. Settle(was, id) = [bound |-> was.bound, settled |-> was.settled \cup {id}]
    BY <1>2 DEF Settle
  <1>4. tracker'[l] = [bound |-> was.bound, settled |-> was.settled \cup {id}]
    BY <1>1, <1>3 DEF OnceInv, Shape
  <1>5. \A k \in Levels \ {l} : tracker'[k] = tracker[k]
    BY <1>1 DEF OnceInv, Shape
  <1>6. tracker'[l].settled = was.settled \cup {id}
    BY <1>4
  <1>7. Shape'
    <2>1. pc' \in [Levels -> Points] /\ todo' = [k \in Levels |-> todo'[k]]
      BY <1>1 DEF OnceInv, Shape, Points
    <2>2. \A k \in Levels :
             tracker'[k] = [bound |-> tracker'[k].bound, settled |-> tracker'[k].settled]
      <3>1. \A k \in Levels :
               tracker[k] = [bound |-> tracker[k].bound, settled |-> tracker[k].settled]
        BY DEF OnceInv, Shape
      <3> QED
        BY <3>1, <1>4, <1>5
    <2>3. tracker' = [k \in Levels |-> tracker'[k]]
      BY <1>1 DEF OnceInv, Shape
    <2>4. tracker' = [k \in Levels |->
                        [bound |-> tracker'[k].bound, settled |-> tracker'[k].settled]]
      BY <2>2, <2>3
    <2> QED
      BY <1>1, <2>1, <2>4 DEF OnceInv, Shape
  <1>8. ActedSettled'
    BY <1>1, <1>5, <1>6 DEF OnceInv, Shape, ActedSettled
  <1>9. ActsOnce'
    BY <1>1 DEF OnceInv, ActsOnce
  <1>10. InHandSettled'
    <2> SUFFICES ASSUME NEW k \in Levels, pc'[k] \in BeforeAct
                 PROVE  /\ InHand(k).id \in tracker'[k].settled
                        /\ \A a \in acts : a.level = k => a.id # InHand(k).id
      BY <1>1 DEF InHandSettled, InHand
    <2>1. CASE k = l
      BY <2>1, <1>1, <1>6 DEF OnceInv, ActedSettled
    <2>2. CASE k # l
      <3>1. pc'[k] = pc[k] /\ tracker'[k] = tracker[k]
        BY <2>2, <1>1, <1>5 DEF OnceInv, Shape
      <3> QED
        BY <3>1 DEF OnceInv, InHandSettled
    <2> QED
      BY <2>1, <2>2
  <1> QED
    BY <1>7, <1>8, <1>9, <1>10 DEF OnceInv

\* An answer binds its calls and settles none.
LEMMA RespondKeeps == ASSUME OnceInv, NEW l \in Levels, Respond(l) PROVE OnceInv'
  <1>1. PICK cs \in Answers(l) :
           /\ todo' = [todo EXCEPT ![l] = cs]
           /\ \/ pc' = [pc EXCEPT ![l] = "answered"] /\ tracker' = tracker
              \/ /\ pc' = [pc EXCEPT ![l] = "settle"]
                 /\ tracker' = [tracker EXCEPT ![l] =
                       Register(@, {cs[k].id : k \in 1..Len(cs)}, turn[l])]
    BY DEF Respond
  <1>2. acts' = acts
    BY DEF Respond
  <1>3. CASE pc' = [pc EXCEPT ![l] = "answered"] /\ tracker' = tracker
    BY <1>1, <1>2, <1>3, CalmKeeps DEF Points, BeforeAct
  <1>4. CASE /\ pc' = [pc EXCEPT ![l] = "settle"]
             /\ tracker' = [tracker EXCEPT ![l] =
                   Register(@, {cs[k].id : k \in 1..Len(cs)}, turn[l])]
    <2> DEFINE was == tracker[l]
               ids == {cs[k].id : k \in 1..Len(cs)}
               bound == [id \in ids \cup DOMAIN was.bound |->
                           IF id \in ids THEN turn[l] ELSE was.bound[id]]
    <2>1. was = [bound |-> was.bound, settled |-> was.settled]
      BY DEF OnceInv, Shape
    <2>2. tracker' = [tracker EXCEPT ![l] = [was EXCEPT !.bound = bound]]
      BY <1>4 DEF Register
    <2> HIDE DEF bound
    <2>3. [was EXCEPT !.bound = bound] = [bound |-> bound, settled |-> was.settled]
      BY <2>1
    <2>4. tracker' = [tracker EXCEPT ![l] = [bound |-> bound, settled |-> was.settled]]
      BY <2>2, <2>3
    <2>5. tracker'[l] = [bound |-> bound, settled |-> was.settled]
      BY <2>4 DEF OnceInv, Shape
    <2>6. \A k \in Levels \ {l} : tracker'[k] = tracker[k]
      BY <2>4 DEF OnceInv, Shape
    <2>7. \A k \in Levels : tracker'[k].settled = tracker[k].settled
      BY <2>5, <2>6
    <2>8. Shape'
      <3>1. pc' \in [Levels -> Points] /\ todo' = [k \in Levels |-> todo'[k]]
        BY <1>1, <1>4 DEF OnceInv, Shape, Points
      <3>2. \A k \in Levels :
               tracker'[k] = [bound |-> tracker'[k].bound, settled |-> tracker'[k].settled]
        <4>1. \A k \in Levels :
                 tracker[k] = [bound |-> tracker[k].bound, settled |-> tracker[k].settled]
          BY DEF OnceInv, Shape
        <4> QED
          BY <4>1, <2>5, <2>6
      <3>3. tracker' = [k \in Levels |-> tracker'[k]]
        BY <2>4 DEF OnceInv, Shape
      <3>4. tracker' = [k \in Levels |->
                          [bound |-> tracker'[k].bound, settled |-> tracker'[k].settled]]
        BY <3>2, <3>3
      <3> QED
        BY <1>2, <3>1, <3>4 DEF OnceInv, Shape
    <2>9. ActedSettled' /\ ActsOnce'
      BY <1>2, <2>7 DEF OnceInv, Shape, ActedSettled, ActsOnce
    <2>10. InHandSettled'
      <3> SUFFICES ASSUME NEW k \in Levels, pc'[k] \in BeforeAct
                   PROVE  /\ InHand(k)'.id \in tracker'[k].settled
                          /\ \A a \in acts : a.level = k => a.id # InHand(k)'.id
        BY <1>2 DEF InHandSettled
      <3>1. k # l
        BY <1>4 DEF OnceInv, Shape, BeforeAct
      <3>2. pc'[k] = pc[k] /\ todo'[k] = todo[k]
        BY <3>1, <1>1, <1>4 DEF OnceInv, Shape
      <3>3. InHand(k)' = InHand(k)
        BY <3>2 DEF InHand
      <3> QED
        BY <3>2, <3>3, <2>7 DEF OnceInv, InHandSettled
    <2> QED
      BY <2>8, <2>9, <2>10 DEF OnceInv
  <1> QED
    BY <1>1, <1>3, <1>4

LEMMA ActsKeep ==
    ASSUME OnceInv, NEW l \in Levels,
           Consent(l) \/ Snapshot(l) \/ Write(l) \/ Observe(l) \/ Exec(l) \/ ActFails(l)
             \/ ReportFails(l) \/ SpawnFails(l) \/ ChildBack(l)
    PROVE  OnceInv'
  <1> USE DEF BeforeAct
  <1>1. CASE Consent(l)
    <2>1. pc[l] = "approved" /\ tracker' = tracker /\ acts' = acts
      BY <1>1 DEF Consent, history
    <2>2. CASE InHand(l).kind = "outside"
      <3> DEFINE q == IF Len(todo[l]) = 1 THEN "turn" ELSE "settle"
      <3>1. pc' = [pc EXCEPT ![l] = q] /\ todo' = [todo EXCEPT ![l] = Tail(todo[l])]
        BY <1>1, <2>2 DEF Consent, Reply
      <3>2. q \in Points /\ q \notin BeforeAct
        BY DEF Points
      <3> HIDE DEF q
      <3> QED
        BY <2>1, <3>1, <3>2, CalmKeeps
    <2>3. CASE InHand(l).kind # "outside"
      <3> DEFINE q == IF InHand(l).kind = "exec" THEN "snapshot" ELSE "act"
      <3>1. pc' = [pc EXCEPT ![l] = q] /\ todo' = todo
        BY <1>1, <2>3 DEF Consent
      <3>2. q \in Points
        BY DEF Points
      <3> HIDE DEF q
      <3> QED
        BY <2>1, <3>1, <3>2, MoveKeeps
    <2> QED
      BY <2>2, <2>3
  <1>2. CASE Snapshot(l)
    BY <1>2, MoveKeeps DEF Snapshot, Points
  <1>3. CASE Write(l)
    BY <1>3, ActKeeps DEF Write, Points
  <1>4. CASE Observe(l)
    BY <1>4, ActKeeps DEF Observe, Points
  <1>5. CASE Exec(l)
    <2>1. PICK ok \in BOOLEAN : pc' = [pc EXCEPT ![l] = IF ok THEN "result" ELSE "caught"]
      BY <1>5 DEF Exec
    <2>2. pc[l] = "act" /\ todo' = todo /\ tracker' = tracker /\ acts' = acts \cup {Act(l)}
      BY <1>5 DEF Exec
    <2> QED
      BY <2>1, <2>2, ActKeeps DEF Points
  <1>6. CASE ActFails(l)
    BY <1>6, MoveKeeps DEF ActFails, Points
  <1>7. CASE ReportFails(l)
    BY <1>7, MoveKeeps DEF ReportFails, Points
  <1>8. CASE SpawnFails(l)
    BY <1>8, MoveKeeps DEF SpawnFails, Points, Ended
  <1>9. CASE ChildBack(l)
    BY <1>9, MoveKeeps DEF ChildBack, history, Points
  <1> QED
    BY <1>1, <1>2, <1>3, <1>4, <1>5, <1>6, <1>7, <1>8, <1>9

LEMMA ThrowKeeps == ASSUME OnceInv, NEW l \in Levels, Throw(l) PROVE OnceInv'
  <1> DEFINE q == IF pc[l] = "start" THEN "threw" ELSE "over"
  <1>1. /\ pc' = [pc EXCEPT ![l] = q]
        /\ todo' = todo /\ tracker' = tracker /\ acts' = acts
    BY DEF Throw
  <1>2. q \in Points /\ q \notin BeforeAct
    BY DEF Points, Ended, BeforeAct
  <1> HIDE DEF q
  <1> QED
    BY <1>1, <1>2, MoveKeeps

\* The child's run begins with nothing settled and nothing done, the parent has
\* acted and waits.
LEMMA SpawnKeeps == ASSUME OnceInv, NEW l \in Levels, Spawn(l) PROVE OnceInv'
  <1> DEFINE new == Act(l)
             c == l + 1
  <1>1. /\ pc[l] = "act" /\ pc' = [pc EXCEPT ![l] = "child", ![c] = "start"]
        /\ todo' = [todo EXCEPT ![c] = <<>>]
        /\ tracker' = [tracker EXCEPT ![c] = NoTracker]
        /\ acts' = {a \in acts : a.level # c} \cup {new}
    BY DEF Spawn
  <1>2. c # l
    BY AgentAssumption DEF AgentAssumption, Levels
  <1>3. new.level = l /\ new.id = InHand(l).id
    BY DEF Act
  <1>4. /\ InHand(l).id \in tracker[l].settled
        /\ \A a \in acts : a.level = l => a.id # InHand(l).id
    BY <1>1 DEF OnceInv, InHandSettled, BeforeAct
  <1> HIDE DEF new, c
  <1>5. \A k \in Levels \ {c} : tracker'[k] = tracker[k] /\ todo'[k] = todo[k]
    BY <1>1 DEF OnceInv, Shape
  <1>6. \A k \in Levels \ {l, c} : pc'[k] = pc[k]
    BY <1>1 DEF OnceInv, Shape
  <1>7. \A k \in Levels : k \in {l, c} => pc'[k] \in {"child", "start"}
    BY <1>1, <1>2 DEF OnceInv, Shape
  <1>8. Shape'
    <2>1. pc' \in [Levels -> Points]
      BY <1>1 DEF OnceInv, Shape, Points
    <2>2. todo' = [k \in Levels |-> todo'[k]]
      BY <1>1 DEF OnceInv, Shape
    <2>3. \A k \in Levels :
             tracker'[k] = [bound |-> tracker'[k].bound, settled |-> tracker'[k].settled]
      <3>1. \A k \in Levels :
               tracker[k] = [bound |-> tracker[k].bound, settled |-> tracker[k].settled]
        BY DEF OnceInv, Shape
      <3>2. c \in Levels => tracker'[c] = [bound |-> <<>>, settled |-> {}]
        BY <1>1 DEF OnceInv, Shape, NoTracker
      <3> QED
        BY <3>1, <3>2, <1>5
    <2>4. tracker' = [k \in Levels |-> tracker'[k]]
      BY <1>1 DEF OnceInv, Shape
    <2>5. tracker' = [k \in Levels |->
                        [bound |-> tracker'[k].bound, settled |-> tracker'[k].settled]]
      BY <2>3, <2>4
    <2>6. \A a \in acts' : a.level \in Levels
      BY <1>1, <1>3 DEF OnceInv, Shape
    <2> QED
      BY <2>1, <2>2, <2>5, <2>6 DEF Shape
  <1>9. ActedSettled'
    <2> SUFFICES ASSUME NEW a \in acts' PROVE a.id \in tracker'[a.level].settled
      BY DEF ActedSettled
    <2>1. CASE a = new
      BY <2>1, <1>2, <1>3, <1>4, <1>5
    <2>2. CASE a \in acts /\ a.level # c
      BY <2>2, <1>5 DEF OnceInv, Shape, ActedSettled
    <2> QED
      BY <2>1, <2>2, <1>1
  <1>10. ActsOnce'
    BY <1>1, <1>3, <1>4 DEF OnceInv, ActsOnce
  <1>11. InHandSettled'
    <2> SUFFICES ASSUME NEW k \in Levels, pc'[k] \in BeforeAct
                 PROVE  /\ InHand(k)'.id \in tracker'[k].settled
                        /\ \A a \in acts' : a.level = k => a.id # InHand(k)'.id
      BY DEF InHandSettled
    <2>1. k \notin {l, c}
      BY <1>7 DEF BeforeAct
    <2>2. pc'[k] = pc[k] /\ tracker'[k] = tracker[k] /\ InHand(k)' = InHand(k)
      BY <2>1, <1>5, <1>6 DEF InHand
    <2>3. \A a \in acts' : a.level = k => a \in acts
      BY <2>1, <1>1, <1>3
    <2> QED
      BY <2>2, <2>3 DEF OnceInv, InHandSettled
  <1> QED
    BY <1>8, <1>9, <1>10, <1>11 DEF OnceInv

\* What changes none of the four variables.
LEMMA StandsStill ==
    ASSUME OnceInv, UNCHANGED <<pc, todo, tracker, acts>> PROVE OnceInv'
  <1>1. Shape' /\ ActedSettled' /\ ActsOnce'
    BY DEF OnceInv, Shape, ActedSettled, ActsOnce
  <1>2. InHandSettled'
    BY DEF OnceInv, InHandSettled, InHand
  <1> QED
    BY <1>1, <1>2 DEF OnceInv

LEMMA OnceStep == OnceInv /\ [Next]_vars => OnceInv'
  <1> SUFFICES ASSUME OnceInv, [Next]_vars PROVE OnceInv'
    OBVIOUS
  <1>1. ASSUME NEW l \in Levels, LoopStep(l) PROVE OnceInv'
    BY <1>1, TurnsKeep, RepliesKeep, ApprovalsKeep, AdmitKeeps, RespondKeeps, ActsKeep,
       SpawnKeeps, ThrowKeeps DEF LoopStep
  <1>2. CASE UserApproves \/ GrantNotSaved \/ UserDenies \/ EofDenies
    BY <1>2, UserKeeps
  <1>3. CASE CloseStdin
    BY <1>3, StandsStill DEF CloseStdin, memory, history
  <1>4. CASE OutsideEdit
    BY <1>4, StandsStill DEF OutsideEdit, memory
  <1>5. CASE UNCHANGED vars
    BY <1>5, StandsStill DEF vars, memory, history
  <1> QED
    BY <1>1, <1>2, <1>3, <1>4, <1>5 DEF Next

\* In a run of the agent loop no tool call id is acted on twice, for every
\* value of the constants: however long the loop is, however deep the nesting
\* and whatever ids the models make up.
THEOREM NoCallActsTwice == Spec => []ActsOnce
  <1>1. Init => OnceInv
    BY OnceInit
  <1>2. OnceInv /\ [Next]_vars => OnceInv'
    BY OnceStep
  <1>3. OnceInv => ActsOnce
    BY DEF OnceInv
  <1> QED
    BY <1>1, <1>2, <1>3, PTL DEF Spec
-----------------------------------------------------------------------------
(* What the levels know, tell and do: the invariant of RepliesMatch,        *)
(* EvidencedActs, ApprovedContent, ManifestTells and SuccessIsRecorded      *)

CallRecord == [id : Nat, kind : AllKinds, serial : Nat]
EventTypes ==
    {"input.admitted", "context.epoch.recorded", "agent.model.requested", "agent.model.responded",
     "agent.loop.completed", "agent.loop.depth_exceeded", "tool.settled", "tool.denied",
     "tool.requested", "risk.composed", "policy.decided", "consent.recorded", "lease.issued",
     "vcs.snapshot.created", "action.recorded", "verification.recorded", "tool.result"}
EventRecord == [type : EventTypes, of : Nat]
Message == [role : {"user", "assistant", "tool"}, of : Seq(CallRecord), ok : BOOLEAN]

Typed ==
    /\ pc \in [Levels -> Points] /\ turn \in [Levels -> Nat]
    /\ convo \in [Levels -> Seq(Message)] /\ todo \in [Levels -> Seq(CallRecord)]
    /\ journal \in [Levels -> Seq(EventRecord)] /\ recorded \in [Levels -> Nat]
    /\ manifest \in [Levels -> {"none", "running", "completed", "blocked"}]
    /\ acted \in [Levels -> BOOLEAN] /\ calls \in Nat
    /\ DOMAIN asked = Levels /\ asked = [l \in Levels |-> asked[l]]
    /\ DOMAIN consents = Levels /\ consents = [l \in Levels |-> consents[l]]
    /\ DOMAIN file = Levels /\ file = [l \in Levels |-> file[l]]
    /\ \A a \in acts : a.level \in Levels

Idle == {"off", "start", "turn", "model", "answered"}
AfterAct == {"result", "caught", "child", "back"}

\* A call is in hand from its settlement to its reply, of a kind that goes the
\* way it is on.
Handed(l) ==
    /\ pc[l] \in BeforeAct \cup AfterAct \cup {"settle"} => todo[l] # <<>>
    /\ pc[l] \in Idle => todo[l] = <<>>
    /\ pc[l] = "start" => convo[l] = <<>>
    /\ pc[l] = "lease" => InHand(l).kind = "observe"
    /\ pc[l] \in {"card", "propose", "approved"} => InHand(l).kind \in Asking
    /\ pc[l] = "snapshot" => InHand(l).kind = "exec"
    /\ pc[l] = "act" => InHand(l).kind \in {"observe", "write", "edit", "exec", "spawn"}
    /\ pc[l] \notin Ended \cup {"off"} => manifest[l] = "running"
    /\ recorded[l] <= Len(journal[l])

Left(l) == {todo[l][k].serial : k \in 1..Len(todo[l])}
Later(l) == {todo[l][k].serial : k \in 2..Len(todo[l])}

\* The calls that are left have serials of their own: nothing was told, done or
\* replied to of them, nor of the one in hand before its turn comes.
Numbered(l) ==
    /\ \A j, k \in 1..Len(todo[l]) : todo[l][j].serial = todo[l][k].serial => j = k
    /\ Left(l) \subseteq 1..calls
    /\ \A i \in 1..Len(journal[l]) : journal[l][i].of \in (0..calls) \ Later(l)
    /\ pc[l] = "settle" =>
          \A i \in 1..Len(journal[l]) : journal[l][i].of # InHand(l).serial
    /\ \A i \in 1..Len(convo[l]) : convo[l][i].role = "tool" =>
          convo[l][i].of[1].serial \in (1..calls) \ Left(l)
    /\ \A a \in acts : a.level = l =>
          /\ a.serial \in (1..calls) \ Later(l)
          /\ pc[l] \in BeforeAct \cup {"settle"} => a.serial # InHand(l).serial

\* The ledger and the manifest end with the first m of these types, told of the
\* call in hand.
EndsWith(l, types, m) ==
    /\ m <= Len(journal[l]) /\ recorded[l] = Len(journal[l])
    /\ \A k \in 1..m : journal[l][Len(journal[l]) - m + k] = Event(types[k], InHand(l).serial)
    /\ \A i \in 1..Len(journal[l]) - m : journal[l][i].of # InHand(l).serial

Evidenced(l) ==
    /\ pc[l] = "decide" => EndsWith(l, AllowedFirst, 1)
    /\ pc[l] = "lease" => EndsWith(l, AllowedFirst, 4)
    /\ pc[l] = "card" => EndsWith(l, ApprovedFirst, 4)
    /\ pc[l] \in {"propose", "approved"} => EndsWith(l, ApprovedFirst, 5)
    /\ pc[l] = "snapshot" => EndsWith(l, ApprovedFirst, 8)
    /\ pc[l] = "act" =>
          CASE InHand(l).kind = "observe" -> EndsWith(l, AllowedFirst, 5)
            [] InHand(l).kind = "exec" -> ToldFirst(l, InHand(l).serial, ApprovedFirst)
            [] OTHER -> EndsWith(l, ApprovedFirst, 8)

\* From its approval to its act the call in hand has its consent on file.
Consented(l) ==
    pc[l] \in {"approved", "snapshot", "act"} /\ InHand(l).kind \in Asking =>
       /\ consents[l][ConsentName(l)] = InHand(l).serial
       /\ \E g \in granted :
             /\ g.serial = InHand(l).serial /\ g.content = asked[l]
             /\ g.by = "grant" => Tool(InHand(l).kind) \in grants

\* The calls of an answer are replied to in their order, or are left.
Answered(l, i) ==
    LET asks == convo[l][i].of
        n == Len(convo[l])
    IN  /\ i + Len(asks) >= n => i + Len(asks) = n + Len(todo[l])
        /\ i + Len(asks) < n => convo[l][i + Len(asks) + 1].role # "tool"
        /\ \A k \in 1..Len(asks) :
              /\ i + k <= n => convo[l][i + k].role = "tool" /\ convo[l][i + k].of = <<asks[k]>>
              /\ i + k > n => todo[l][i + k - n] = asks[k]

Answering(l) ==
    /\ \A i \in 1..Len(convo[l]) : convo[l][i].role = "assistant" => Answered(l, i)
    /\ pc[l] = "answered" => convo[l] # <<>> /\ convo[l][Len(convo[l])].role = "assistant"

\* What was acted on is reported, unless it is in hand or the loop broke off.
ActReported(l, a) ==
    \/ Reported(l, a.serial)
    \/ pc[l] \in AfterAct /\ a.serial = InHand(l).serial
    \/ pc[l] \in Ended /\ manifest[l] = "running"

ActOf(l, call) == [level |-> l, id |-> call.id, serial |-> call.serial, kind |-> call.kind]

SuccessReported(l, i) ==
    convo[l][i].role = "tool" /\ convo[l][i].ok =>
       ActOf(l, convo[l][i].of[1]) \in acts /\ Reported(l, convo[l][i].of[1].serial)

Accounted(l) ==
    /\ \A a \in acts : a.level = l => ActReported(l, a)
    /\ pc[l] \in AfterAct \ {"caught"} => Act(l) \in acts
    /\ \A i \in 1..Len(convo[l]) : SuccessReported(l, i)

\* A closed manifest, and the event and the message that closed it.
Closed(l) ==
    manifest[l] \in {"completed", "blocked"} =>
       /\ pc[l] = "over" /\ ~Behind(l) /\ journal[l] # <<>>
       /\ journal[l][Len(journal[l])].type =
             IF manifest[l] = "completed" THEN "agent.loop.completed" ELSE "agent.loop.depth_exceeded"
       /\ manifest[l] = "completed" =>
             convo[l] # <<>> /\ convo[l][Len(convo[l])].role = "assistant"

LevelInv(l) ==
    /\ Handed(l) /\ Numbered(l) /\ Evidenced(l) /\ Consented(l)
    /\ Answering(l) /\ Accounted(l) /\ Closed(l)

LoopInv == Typed /\ \A l \in Levels : LevelInv(l)
-----------------------------------------------------------------------------
(* Frames *)

\* What a level knows of itself.
OwnSame(k) ==
    /\ pc'[k] = pc[k] /\ turn'[k] = turn[k] /\ convo'[k] = convo[k] /\ todo'[k] = todo[k]
    /\ asked'[k] = asked[k] /\ journal'[k] = journal[k] /\ recorded'[k] = recorded[k]
    /\ manifest'[k] = manifest[k] /\ consents'[k] = consents[k]

OwnActs(k) == {a \in acts : a.level = k}

\* What only grows.
MoreShared ==
    calls <= calls' /\ granted \subseteq granted' /\ grants \subseteq grants'

Apart(k) == OwnSame(k) /\ OwnActs(k)' = OwnActs(k)

LEMMA ActsOfLevel == \A k, a : a \in OwnActs(k) <=> a \in acts /\ a.level = k
  BY DEF OwnActs

LEMMA ReportedSame ==
    ASSUME NEW k, NEW s, journal'[k] = journal[k], recorded'[k] = recorded[k]
    PROVE  Reported(k, s)' <=> Reported(k, s)
  BY DEF Reported

LEMMA OthersKeep ==
    ASSUME Typed, calls' \in Nat, NEW k \in Levels, LevelInv(k), Apart(k), MoreShared
    PROVE  LevelInv(k)'
  <1>0. OwnSame(k) /\ InHand(k)' = InHand(k) /\ ConsentName(k)' = ConsentName(k)
    BY DEF Apart, OwnSame, InHand, ConsentName
  <1>a. \A a : a \in acts' /\ a.level = k <=> a \in acts /\ a.level = k
    <2>1. OwnActs(k)' = OwnActs(k)
      BY DEF Apart
    <2>2. \A a : a \in OwnActs(k)' <=> a \in acts' /\ a.level = k
      BY DEF OwnActs
    <2> QED
      BY <2>1, <2>2, ActsOfLevel
  <1>b. \A s : Reported(k, s)' <=> Reported(k, s)
    BY <1>0, ReportedSame DEF OwnSame
  <1>c. calls \in Nat /\ calls <= calls'
    BY DEF Typed, MoreShared
  <1>1. Handed(k)'
    BY <1>0 DEF LevelInv, Handed, OwnSame
  <1>2. Numbered(k)'
    <2>1. Numbered(k) /\ Left(k)' = Left(k) /\ Later(k)' = Later(k)
      BY <1>0 DEF LevelInv, OwnSame, Left, Later
    <2>2. Left(k)' \subseteq 1..calls'
      BY <1>c, <2>1 DEF Numbered
    <2>3. \A i \in 1..Len(journal'[k]) : journal'[k][i].of \in (0..calls') \ Later(k)'
      BY <1>0, <1>c, <2>1 DEF Numbered, OwnSame
    <2>4. \A i \in 1..Len(convo'[k]) : convo'[k][i].role = "tool" =>
             convo'[k][i].of[1].serial \in (1..calls') \ Left(k)'
      BY <1>0, <1>c, <2>1 DEF Numbered, OwnSame
    <2>5. \A a \in acts' : a.level = k =>
             /\ a.serial \in (1..calls') \ Later(k)'
             /\ pc'[k] \in BeforeAct \cup {"settle"} => a.serial # InHand(k)'.serial
      BY <1>0, <1>a, <1>c, <2>1 DEF Numbered, OwnSame
    <2> QED
      BY <1>0, <2>1, <2>2, <2>3, <2>4, <2>5 DEF Numbered, OwnSame
  <1>3. Evidenced(k)'
    <2>1. \A types, m : EndsWith(k, types, m)' <=> EndsWith(k, types, m)
      BY <1>0 DEF EndsWith, OwnSame
    <2>2. ToldFirst(k, InHand(k).serial, ApprovedFirst)'
            <=> ToldFirst(k, InHand(k).serial, ApprovedFirst)
      BY <1>0 DEF ToldFirst, OwnSame
    <2> QED
      BY <1>0, <2>1, <2>2 DEF LevelInv, Evidenced, OwnSame
  <1>4. Consented(k)'
    BY <1>0 DEF LevelInv, Consented, OwnSame, MoreShared
  <1>5. Answering(k)'
    <2>1. convo'[k] = convo[k] /\ todo'[k] = todo[k] /\ pc'[k] = pc[k]
      BY <1>0 DEF OwnSame
    <2>2. \A i : Answered(k, i)' <=> Answered(k, i)
      BY <2>1 DEF Answered
    <2> QED
      BY <2>1, <2>2 DEF LevelInv, Answering
  <1>6. Accounted(k)'
    <2>1. /\ Accounted(k) /\ Act(k)' = Act(k) /\ Act(k).level = k
          /\ pc'[k] = pc[k] /\ convo'[k] = convo[k] /\ manifest'[k] = manifest[k]
      BY <1>0 DEF LevelInv, Act, OwnSame
    <2>2. \A a : ActReported(k, a)' <=> ActReported(k, a)
      BY <1>0, <1>b, <2>1 DEF ActReported
    <2>3. \A call : ActOf(k, call) \in acts' <=> ActOf(k, call) \in acts
      <3>1. \A call : ActOf(k, call).level = k
        BY DEF ActOf
      <3> QED
        BY <3>1, <1>a
    <2>4. \A i : SuccessReported(k, i)' <=> SuccessReported(k, i)
      <3> TAKE i
      <3> DEFINE call == convo[k][i].of[1]
      <3>1. ActOf(k, call) \in acts' <=> ActOf(k, call) \in acts
        BY <2>3
      <3>2. Reported(k, call.serial)' <=> Reported(k, call.serial)
        BY <1>b, <2>1
      <3> QED
        BY <2>1, <3>1, <3>2 DEF SuccessReported
    <2> QED
      BY <2>1, <2>2, <2>4, <1>a DEF Accounted
  <1>7. Closed(k)'
    BY <1>0 DEF LevelInv, Closed, Behind, OwnSame
  <1> QED
    BY <1>1, <1>2, <1>3, <1>4, <1>5, <1>6, <1>7 DEF LevelInv

-----------------------------------------------------------------------------
(* What is told *)

\* The ledger of a level gets events of the call in hand or of none.
Growing(l) ==
    /\ Len(journal[l]) <= Len(journal'[l])
    /\ \A i \in 1..Len(journal[l]) : journal'[l][i] = journal[l][i]
    /\ \A i \in 1..Len(journal'[l]) : i > Len(journal[l]) =>
          \/ journal'[l][i].of = 0
          \/ todo[l] # <<>> /\ journal'[l][i].of = InHand(l).serial
    /\ recorded[l] <= recorded'[l] /\ recorded'[l] <= Len(journal'[l])
    /\ recorded'[l] = recorded[l] \/ recorded[l] = Len(journal[l])

LEMMA LengthTypes ==
    ASSUME Typed, NEW l \in Levels
    PROVE  /\ Len(journal[l]) \in Nat /\ Len(convo[l]) \in Nat /\ Len(todo[l]) \in Nat
           /\ recorded[l] \in Nat /\ calls \in Nat
           /\ todo[l] \in Seq(CallRecord) /\ journal[l] \in Seq(EventRecord)
           /\ convo[l] \in Seq(Message)
           /\ \A k \in 1..Len(todo[l]) : todo[l][k] \in CallRecord
           /\ \A i \in 1..Len(journal[l]) : journal[l][i] \in EventRecord
           /\ \A i \in 1..Len(convo[l]) : convo[l][i] \in Message
           /\ todo[l] # <<>> => InHand(l) = todo[l][1] /\ InHand(l) \in CallRecord /\ Len(todo[l]) > 0
  <1>1. todo[l] \in Seq(CallRecord) /\ journal[l] \in Seq(EventRecord) /\ convo[l] \in Seq(Message)
    BY DEF Typed
  <1>2. \A k \in 1..Len(todo[l]) : todo[l][k] \in CallRecord
    BY <1>1, ElementOfSeq
  <1>3. \A i \in 1..Len(journal[l]) : journal[l][i] \in EventRecord
    BY <1>1, ElementOfSeq
  <1>4. \A i \in 1..Len(convo[l]) : convo[l][i] \in Message
    BY <1>1, ElementOfSeq
  <1>5. todo[l] # <<>> => InHand(l) = todo[l][1] /\ InHand(l) \in CallRecord /\ Len(todo[l]) > 0
    BY <1>1, <1>2, HeadTailProperties, EmptySeq DEF InHand
  <1> QED
    BY <1>1, <1>2, <1>3, <1>4, <1>5, LenProperties DEF Typed

LEMMA ReportedStays ==
    ASSUME Typed, NEW l \in Levels, Handed(l), Growing(l), Typed',
           NEW s \in Nat \ {0}, todo[l] = <<>> \/ s # InHand(l).serial, Reported(l, s)
    PROVE  Reported(l, s)'
  <1>1. PICK i \in 1..recorded[l] :
           /\ journal[l][i].of = s /\ journal[l][i].type \in Results
           /\ \A j \in 1..recorded[l] : journal[l][j].of = s => j <= i
    BY DEF Reported
  <1>2. recorded[l] <= Len(journal[l]) /\ recorded[l] \in Nat /\ Len(journal[l]) \in Nat
    BY LengthTypes DEF Handed
  <1>3. recorded'[l] \in Nat /\ Len(journal'[l]) \in Nat
    BY LenProperties DEF Typed
  <1>4. i \in 1..recorded'[l] /\ journal'[l][i] = journal[l][i]
    BY <1>2, <1>3 DEF Growing
  <1>5. ASSUME NEW j \in 1..recorded'[l], journal'[l][j].of = s PROVE j <= i
    <2>1. CASE j <= recorded[l]
      BY SMTT(30), <1>1, <1>2, <1>3, <1>5, <2>1 DEF Growing
    <2>2. CASE j > recorded[l]
      <3>1. recorded[l] = Len(journal[l]) /\ recorded'[l] <= Len(journal'[l])
        BY <1>2, <1>3, <2>2 DEF Growing
      <3>2. j > Len(journal[l]) /\ j \in 1..Len(journal'[l])
        BY <1>2, <1>3, <2>2, <3>1
      <3>3. \/ journal'[l][j].of = 0
            \/ todo[l] # <<>> /\ journal'[l][j].of = InHand(l).serial
        BY <3>2 DEF Growing
      <3> QED
        BY <1>5, <3>3
    <2> QED
      BY <1>2, <1>3, <2>1, <2>2
  <1> QED
    BY <1>1, <1>4, <1>5 DEF Reported

-----------------------------------------------------------------------------
(* A step of one level *)

\* The variables of the other levels stay.
Only(l) ==
    /\ pc' = [pc EXCEPT ![l] = pc'[l]]
    /\ turn' = [turn EXCEPT ![l] = turn'[l]]
    /\ convo' = [convo EXCEPT ![l] = convo'[l]]
    /\ todo' = [todo EXCEPT ![l] = todo'[l]]
    /\ asked' = [asked EXCEPT ![l] = asked'[l]]
    /\ acted' = [acted EXCEPT ![l] = acted'[l]]
    /\ journal' = [journal EXCEPT ![l] = journal'[l]]
    /\ recorded' = [recorded EXCEPT ![l] = recorded'[l]]
    /\ manifest' = [manifest EXCEPT ![l] = manifest'[l]]
    /\ consents' = [consents EXCEPT ![l] = consents'[l]]
    /\ file' = [k \in Levels |-> file'[k]]

TypedAt(l) ==
    /\ pc[l] \in Points /\ turn[l] \in Nat
    /\ convo[l] \in Seq(Message) /\ todo[l] \in Seq(CallRecord)
    /\ journal[l] \in Seq(EventRecord) /\ recorded[l] \in Nat
    /\ manifest[l] \in {"none", "running", "completed", "blocked"}
    /\ acted[l] \in BOOLEAN

\* What is done is done at level l, by the call in hand.
OwnDone(l) == acts' = acts \/ acts' = acts \cup {Act(l)}

LEMMA OnlyFrames ==
    ASSUME Typed, NEW l \in Levels, Only(l), OwnDone(l)
    PROVE  \A k \in Levels \ {l} : Apart(k)
  <1> SUFFICES ASSUME NEW k \in Levels, k # l PROVE Apart(k)
    OBVIOUS
  <1>1. OwnSame(k)
    BY DEF Only, OwnSame, Typed
  <1>2. Act(l).level = l
    BY DEF Act
  <1>3. OwnActs(k)' = OwnActs(k)
    BY <1>2 DEF OwnActs, OwnDone
  <1> QED
    BY <1>1, <1>3 DEF Apart

LEMMA OnlyTyped ==
    ASSUME Typed, NEW l \in Levels, Only(l), OwnDone(l), TypedAt(l)', calls' \in Nat
    PROVE  Typed'
  <1>1. pc' \in [Levels -> Points] /\ turn' \in [Levels -> Nat]
    BY DEF Typed, Only, TypedAt
  <1>2. convo' \in [Levels -> Seq(Message)] /\ todo' \in [Levels -> Seq(CallRecord)]
    BY DEF Typed, Only, TypedAt
  <1>3. journal' \in [Levels -> Seq(EventRecord)] /\ recorded' \in [Levels -> Nat]
    BY DEF Typed, Only, TypedAt
  <1>4. /\ manifest' \in [Levels -> {"none", "running", "completed", "blocked"}]
        /\ acted' \in [Levels -> BOOLEAN]
    BY DEF Typed, Only, TypedAt
  <1>5. DOMAIN asked' = Levels /\ DOMAIN consents' = Levels /\ DOMAIN file' = Levels
    BY DEF Typed, Only
  <1>6. /\ asked' = [k \in Levels |-> asked'[k]] /\ consents' = [k \in Levels |-> consents'[k]]
        /\ file' = [k \in Levels |-> file'[k]]
    BY DEF Typed, Only
  <1>7. \A a \in acts' : a.level \in Levels
    BY DEF Typed, OwnDone, Act
  <1> QED
    BY <1>1, <1>2, <1>3, <1>4, <1>5, <1>6, <1>7 DEF Typed

\* It is enough to see to the level that steps.
LEMMA LevelStep ==
    ASSUME LoopInv, NEW l \in Levels, Only(l), OwnDone(l), TypedAt(l)', calls' \in Nat,
           MoreShared, LevelInv(l)'
    PROVE  LoopInv'
  <1>1. Typed'
    BY OnlyTyped DEF LoopInv
  <1>2. \A k \in Levels \ {l} : Apart(k)
    BY OnlyFrames DEF LoopInv
  <1>3. ASSUME NEW k \in Levels, k # l PROVE LevelInv(k)'
    BY <1>2, <1>3, OthersKeep DEF LoopInv
  <1> QED
    BY <1>1, <1>3 DEF LoopInv

\* A step of a level that replies to nothing and takes no call in hand: the
\* call in hand stays, or is acted on.
Carries(l) ==
    /\ todo'[l] = todo[l] /\ convo'[l] = convo[l]
    /\ calls' = calls
    /\ Growing(l)
    /\ \A a \in acts : a.level = l => a \in acts'
    /\ \A a \in acts' : a.level = l =>
          a \in acts \/ (a = Act(l) /\ pc[l] = "act" /\ pc'[l] \in AfterAct)
    /\ pc'[l] \notin {"settle", "answered"}
    /\ pc'[l] \in BeforeAct => pc[l] \in BeforeAct \cup {"settle"}
    /\ pc[l] \in AfterAct => pc'[l] \in AfterAct \/ (pc'[l] \in Ended /\ manifest'[l] = "running")
    /\ pc'[l] \in AfterAct \ {"caught"} => Act(l) \in acts'
    /\ pc[l] \notin Ended

\* The serial of the call in hand.
LEMMA InHandNumbered ==
    ASSUME Typed, NEW l \in Levels, Numbered(l), todo[l] # <<>>
    PROVE  /\ InHand(l).serial \in 1..calls /\ InHand(l).serial \notin Later(l)
           /\ InHand(l).serial \in Left(l) /\ Left(l) = Later(l) \cup {InHand(l).serial}
  <1>1. InHand(l) = todo[l][1] /\ Len(todo[l]) \in Nat /\ Len(todo[l]) > 0
    BY LengthTypes
  <1>2. 1 \in 1..Len(todo[l]) /\ 1..Len(todo[l]) = {1} \cup (2..Len(todo[l]))
    BY <1>1
  <1>3. InHand(l).serial \in Left(l) /\ Left(l) = Later(l) \cup {InHand(l).serial}
    BY <1>1, <1>2 DEF Left, Later
  <1>4. \A k \in 2..Len(todo[l]) : todo[l][k].serial # todo[l][1].serial
    BY <1>1, <1>2 DEF Numbered
  <1>5. InHand(l).serial \notin Later(l)
    BY <1>1, <1>4 DEF Later
  <1> QED
    BY <1>3, <1>5 DEF Numbered

\* What is told is of no later call.
LEMMA GrownNumbers ==
    ASSUME Typed, Typed', NEW l \in Levels, Numbered(l), Growing(l)
    PROVE  \A i \in 1..Len(journal'[l]) : journal'[l][i].of \in (0..calls) \ Later(l)
  <1> SUFFICES ASSUME NEW i \in 1..Len(journal'[l])
               PROVE  journal'[l][i].of \in (0..calls) \ Later(l)
    OBVIOUS
  <1>1. Len(journal[l]) \in Nat /\ Len(journal'[l]) \in Nat /\ calls \in Nat
    BY LenProperties DEF Typed
  <1>2. CASE i <= Len(journal[l])
    BY <1>1, <1>2 DEF Growing, Numbered
  <1>3. CASE i > Len(journal[l])
    <2>1. \/ journal'[l][i].of = 0
          \/ todo[l] # <<>> /\ journal'[l][i].of = InHand(l).serial
      BY <1>3 DEF Growing
    <2>2. 0 \notin Later(l)
      <3>1. Later(l) \subseteq Left(l)
        BY DEF Later, Left
      <3> QED
        BY <3>1 DEF Numbered
    <2>3. todo[l] # <<>> => InHand(l).serial \in 1..calls /\ InHand(l).serial \notin Later(l)
      BY InHandNumbered
    <2> QED
      BY <1>1, <2>1, <2>2, <2>3
  <1> QED
    BY <1>1, <1>2, <1>3

LEMMA CarriesNumbered ==
    ASSUME Typed, Typed', NEW l \in Levels, LevelInv(l), Carries(l)
    PROVE  Numbered(l)'
  <1>1. InHand(l)' = InHand(l) /\ Left(l)' = Left(l) /\ Later(l)' = Later(l)
    BY DEF Carries, InHand, Left, Later
  <1>2. Numbered(l) /\ Handed(l) /\ calls' = calls
    BY DEF LevelInv, Carries
  <1>3. \A i \in 1..Len(journal'[l]) : journal'[l][i].of \in (0..calls') \ Later(l)'
    BY <1>1, <1>2, GrownNumbers DEF Carries
  <1>4. \A a \in acts' : a.level = l =>
           /\ a.serial \in (1..calls') \ Later(l)'
           /\ pc'[l] \in BeforeAct \cup {"settle"} => a.serial # InHand(l)'.serial
    <2> SUFFICES ASSUME NEW a \in acts', a.level = l
                 PROVE  /\ a.serial \in (1..calls) \ Later(l)
                        /\ pc'[l] \in BeforeAct \cup {"settle"} => a.serial # InHand(l).serial
      BY <1>1, <1>2
    <2>1. CASE a \in acts
      BY <1>2, <2>1 DEF Carries, Numbered
    <2>2. CASE a \notin acts
      <3>1. a = Act(l) /\ pc[l] = "act" /\ pc'[l] \in AfterAct
        BY <2>2 DEF Carries
      <3>2. a.serial = InHand(l).serial
        BY <3>1 DEF Act
      <3>3. InHand(l).serial \in 1..calls /\ InHand(l).serial \notin Later(l)
        <4>1. todo[l] # <<>>
          BY <1>2, <3>1 DEF Handed, BeforeAct
        <4> QED
          BY <1>2, <4>1, InHandNumbered
      <3> QED
        BY <3>1, <3>2, <3>3 DEF AfterAct, BeforeAct
    <2> QED
      BY <2>1, <2>2
  <1> QED
    BY <1>1, <1>2, <1>3, <1>4 DEF Numbered, Carries

LEMMA CarriesAnswering ==
    ASSUME NEW l \in Levels, LevelInv(l), Carries(l)
    PROVE  Answering(l)'
  <1>1. convo'[l] = convo[l] /\ todo'[l] = todo[l] /\ pc'[l] # "answered"
    BY DEF Carries
  <1>2. \A i : Answered(l, i)' <=> Answered(l, i)
    BY <1>1 DEF Answered
  <1> QED
    BY <1>1, <1>2 DEF LevelInv, Answering

\* A success that was replied stays one.
LEMMA SuccessStays ==
    ASSUME Typed, Typed', NEW l \in Levels, LevelInv(l), Growing(l),
           \A a \in acts : a.level = l => a \in acts',
           NEW i \in 1..Len(convo[l]), convo'[l][i] = convo[l][i]
    PROVE  SuccessReported(l, i)'
  <1> SUFFICES ASSUME convo[l][i].role = "tool", convo[l][i].ok
               PROVE  SuccessReported(l, i)'
    BY DEF SuccessReported
  <1>1. Numbered(l) /\ Handed(l) /\ Accounted(l)
    BY DEF LevelInv
  <1>2. PICK s : s = convo[l][i].of[1].serial
    OBVIOUS
  <1>3. ActOf(l, convo[l][i].of[1]) \in acts /\ Reported(l, s)
    BY <1>1, <1>2 DEF Accounted, SuccessReported
  <1>4. s \in (1..calls) \ Left(l)
    BY <1>1, <1>2 DEF Numbered
  <1>5. todo[l] # <<>> => InHand(l).serial \in Left(l)
    BY <1>1, InHandNumbered
  <1>6. s \in Nat \ {0}
    BY <1>4, LengthTypes
  <1>7. Reported(l, s)'
    BY <1>1, <1>3, <1>4, <1>5, <1>6, ReportedStays
  <1>8. ActOf(l, convo[l][i].of[1]) \in acts'
    BY <1>3 DEF ActOf
  <1> QED
    BY <1>2, <1>7, <1>8 DEF SuccessReported

LEMMA CarriesAccounted ==
    ASSUME Typed, Typed', NEW l \in Levels, LevelInv(l), Carries(l)
    PROVE  Accounted(l)'
  <1>1. InHand(l)' = InHand(l) /\ Act(l)' = Act(l) /\ Act(l).serial = InHand(l).serial
    BY DEF Carries, InHand, Act
  <1>2. Numbered(l) /\ Handed(l) /\ Accounted(l)
    BY DEF LevelInv
  <1>3. ASSUME NEW s \in Nat \ {0}, todo[l] = <<>> \/ s # InHand(l).serial, Reported(l, s)
        PROVE  Reported(l, s)'
    BY <1>2, <1>3, ReportedStays DEF Carries
  <1>4. ASSUME NEW a \in acts', a.level = l PROVE ActReported(l, a)'
    <2>1. CASE a \notin acts
      <3>1. a = Act(l) /\ pc'[l] \in AfterAct
        BY <1>4, <2>1 DEF Carries
      <3> QED
        BY <1>1, <3>1 DEF ActReported
    <2>2. CASE a \in acts /\ todo[l] # <<>> /\ a.serial = InHand(l).serial
      <3>1. pc[l] \in Points /\ pc[l] \notin Ended \cup Idle \cup BeforeAct \cup {"settle"}
        BY <1>2, <1>4, <2>2 DEF Typed, Numbered, Handed, Carries
      <3>2. pc[l] \in AfterAct
        BY <3>1 DEF Points, Ended, Idle, BeforeAct, AfterAct
      <3> QED
        BY <1>1, <2>2, <3>2 DEF Carries, ActReported
    <2>3. CASE a \in acts /\ (todo[l] = <<>> \/ a.serial # InHand(l).serial)
      <3>1. a.serial \in Nat \ {0}
        BY <1>2, <1>4, <2>3 DEF Numbered, Typed
      <3>2. pc[l] \in AfterAct => todo[l] # <<>>
        BY <1>2 DEF Handed
      <3>3. Reported(l, a.serial)
        BY <1>2, <1>4, <2>3, <3>2 DEF Accounted, ActReported, Carries
      <3> QED
        BY <1>3, <2>3, <3>1, <3>3 DEF ActReported
    <2> QED
      BY <2>1, <2>2, <2>3
  <1>5. ASSUME NEW i \in 1..Len(convo'[l]) PROVE SuccessReported(l, i)'
    BY <1>2, SuccessStays DEF Carries
  <1> QED
    BY <1>1, <1>4, <1>5 DEF Accounted, Carries

\* A step of a level that replies to the call in hand.
Replies(l, ok) ==
    /\ todo[l] # <<>> /\ todo'[l] = Tail(todo[l])
    /\ convo'[l] = Append(convo[l], Said("tool", <<InHand(l)>>, ok))
    /\ calls' = calls /\ acts' = acts
    /\ Growing(l)
    /\ pc'[l] = IF Len(todo[l]) = 1 THEN "turn" ELSE "settle"
    /\ pc[l] \in BeforeAct \cup AfterAct \cup {"settle"}
    /\ pc[l] \in AfterAct => \A s : s = InHand(l).serial => Reported(l, s)'
    /\ ok => pc[l] \in AfterAct \ {"caught"}

LEMMA OneLess == \A n \in Nat : n > 0 /\ n # 1 => n - 1 \in Nat /\ n - 1 > 0 /\ 1 \in 1..(n - 1)
  OBVIOUS

LEMMA HasElements == \A s \in Seq(CallRecord) : Len(s) > 0 => s # <<>> /\ Head(s) = s[1]
  OBVIOUS

LEMMA TailLeaves ==
    ASSUME Typed, NEW l \in Levels, todo[l] # <<>>, todo'[l] = Tail(todo[l])
    PROVE  /\ Len(todo'[l]) = Len(todo[l]) - 1
           /\ \A k \in 1..Len(todo'[l]) : k + 1 \in 2..Len(todo[l]) /\ todo'[l][k] = todo[l][k + 1]
           /\ Left(l)' = Later(l) /\ Later(l)' \subseteq Later(l)
           /\ Len(todo[l]) # 1 => todo'[l] # <<>> /\ InHand(l)'.serial \in Later(l)
  <1>1. todo[l] \in Seq(CallRecord) /\ Len(todo[l]) \in Nat /\ Len(todo[l]) > 0
    BY LengthTypes
  <1>2. Len(todo'[l]) = Len(todo[l]) - 1 /\ todo'[l] \in Seq(CallRecord)
    BY <1>1, HeadTailProperties
  <1>3. \A k \in 1..Len(todo'[l]) : k + 1 \in 2..Len(todo[l]) /\ todo'[l][k] = todo[l][k + 1]
    BY <1>1, <1>2, HeadTailProperties
  <1>4. Later(l)' \subseteq Later(l)
    <2>1. \A k \in 2..Len(todo'[l]) : k \in 1..Len(todo'[l])
      BY <1>1, <1>2
    <2> QED
      BY <2>1, <1>3 DEF Later
  <1>5. Left(l)' = Later(l)
    <2>1. \A k \in 2..Len(todo[l]) : k - 1 \in 1..Len(todo'[l]) /\ todo'[l][k - 1] = todo[l][k]
      <3> SUFFICES ASSUME NEW k \in 2..Len(todo[l])
                   PROVE  k - 1 \in 1..Len(todo'[l]) /\ todo'[l][k - 1] = todo[l][k]
        OBVIOUS
      <3>1. k - 1 \in 1..Len(todo'[l]) /\ (k - 1) + 1 = k
        BY <1>1, <1>2
      <3> QED
        BY <3>1, <1>3
    <2> QED
      BY <2>1, <1>3 DEF Left, Later
  <1>6. ASSUME Len(todo[l]) # 1 PROVE todo'[l] # <<>> /\ InHand(l)'.serial \in Later(l)
    <2>1. Len(todo'[l]) > 0 /\ 1 \in 1..Len(todo'[l])
      BY <1>1, <1>2, <1>6, OneLess, Zenon
    <2>2. todo'[l] # <<>> /\ InHand(l)' = todo'[l][1]
      BY <1>2, <2>1, HasElements, Zenon DEF InHand
    <2>3. InHand(l)' = todo[l][2] /\ 2 \in 2..Len(todo[l])
      BY <1>3, <2>1, <2>2
    <2> QED
      BY <2>2, <2>3 DEF Later
  <1> QED
    BY <1>2, <1>3, <1>4, <1>5, <1>6

LEMMA RepliesNumbered ==
    ASSUME Typed, Typed', NEW l \in Levels, LevelInv(l), NEW ok \in BOOLEAN, Replies(l, ok)
    PROVE  Numbered(l)'
  <1>1. Numbered(l) /\ calls' = calls /\ acts' = acts /\ Growing(l)
    BY DEF LevelInv, Replies
  <1>2. /\ Len(todo'[l]) = Len(todo[l]) - 1 /\ Len(todo[l]) \in Nat /\ Len(todo[l]) > 0
        /\ \A k \in 1..Len(todo'[l]) : k + 1 \in 2..Len(todo[l]) /\ todo'[l][k] = todo[l][k + 1]
        /\ Left(l)' = Later(l) /\ Later(l)' \subseteq Later(l)
        /\ pc'[l] = "settle" => InHand(l)'.serial \in Later(l)
        /\ pc'[l] \notin BeforeAct
    BY TailLeaves, LengthTypes DEF Replies, BeforeAct
  <1>3. \A i \in 1..Len(journal'[l]) : journal'[l][i].of \in (0..calls) \ Later(l)
    BY <1>1, GrownNumbers
  <1>4. Later(l) \subseteq Left(l) /\ InHand(l).serial \in (1..calls) \ Later(l)
    <2>1. todo[l] # <<>>
      BY DEF Replies
    <2> QED
      BY <1>1, <2>1, InHandNumbered
  <1>5. \A j, k \in 1..Len(todo'[l]) : todo'[l][j].serial = todo'[l][k].serial => j = k
    <2> SUFFICES ASSUME NEW j \in 1..Len(todo'[l]), NEW k \in 1..Len(todo'[l]),
                        todo'[l][j].serial = todo'[l][k].serial
                 PROVE  j = k
      OBVIOUS
    <2>1. j + 1 \in 1..Len(todo[l]) /\ k + 1 \in 1..Len(todo[l])
      BY <1>2
    <2>2. todo[l][j + 1].serial = todo[l][k + 1].serial
      BY <1>2
    <2>3. j + 1 = k + 1
      BY <1>1, <2>1, <2>2 DEF Numbered
    <2> QED
      BY <1>2, <2>3
  <1>6. Left(l)' \subseteq 1..calls'
    BY <1>1, <1>2, <1>4 DEF Numbered
  <1>7. pc'[l] = "settle" =>
           \A i \in 1..Len(journal'[l]) : journal'[l][i].of # InHand(l)'.serial
    BY <1>2, <1>3
  <1>8. \A i \in 1..Len(convo'[l]) : convo'[l][i].role = "tool" =>
           convo'[l][i].of[1].serial \in (1..calls') \ Left(l)'
    <2> SUFFICES ASSUME NEW i \in 1..Len(convo'[l]), convo'[l][i].role = "tool"
                 PROVE  convo'[l][i].of[1].serial \in (1..calls) \ Later(l)
      BY <1>1, <1>2
    <2>1. convo[l] \in Seq(Message) /\ Len(convo[l]) \in Nat
      BY LengthTypes
    <2>2. Len(convo'[l]) = Len(convo[l]) + 1
      BY <2>1, AppendProperties DEF Replies
    <2>3. CASE i <= Len(convo[l])
      <3>1. i \in 1..Len(convo[l]) /\ convo'[l][i] = convo[l][i]
        BY <2>1, <2>3, AppendProperties DEF Replies
      <3> QED
        BY <3>1, <1>1, <1>4 DEF Numbered
    <2>4. CASE i = Len(convo[l]) + 1
      <3>1. convo'[l][i] = Said("tool", <<InHand(l)>>, ok)
        BY <2>1, <2>4, AppendProperties DEF Replies
      <3>2. convo'[l][i].of[1] = InHand(l)
        BY <3>1 DEF Said
      <3> QED
        BY <3>2, <1>4
    <2> QED
      BY <2>1, <2>2, <2>3, <2>4
  <1>9. \A a \in acts' : a.level = l =>
           /\ a.serial \in (1..calls') \ Later(l)'
           /\ pc'[l] \in BeforeAct \cup {"settle"} => a.serial # InHand(l)'.serial
    BY <1>1, <1>2 DEF Numbered
  <1> QED
    BY <1>1, <1>2, <1>3, <1>5, <1>6, <1>7, <1>8, <1>9 DEF Numbered

LEMMA RepliesAnswering ==
    ASSUME Typed, NEW l \in Levels, LevelInv(l), NEW ok \in BOOLEAN, Replies(l, ok)
    PROVE  Answering(l)'
  <1> DEFINE n == Len(convo[l])
             m == Len(todo[l])
  <1>1. /\ n \in Nat /\ m \in Nat /\ m > 0 /\ convo[l] \in Seq(Message)
        /\ InHand(l) = todo[l][1]
    BY LengthTypes DEF Replies
  <1>2. /\ Len(todo'[l]) = m - 1
        /\ \A k \in 1..(m - 1) : todo'[l][k] = todo[l][k + 1]
    BY TailLeaves DEF Replies
  <1>3. /\ Len(convo'[l]) = n + 1
        /\ \A i \in 1..n : convo'[l][i] = convo[l][i]
        /\ convo'[l][n + 1] = Said("tool", <<InHand(l)>>, ok)
    BY <1>1, AppendProperties DEF Replies
  <1>4. convo'[l][n + 1].role = "tool" /\ convo'[l][n + 1].of = <<todo[l][1]>>
    BY <1>1, <1>3 DEF Said
  <1>5. pc'[l] # "answered"
    BY DEF Replies
  <1>6. \A i \in 1..n : convo[l][i].role = "assistant" => Answered(l, i)
    BY DEF LevelInv, Answering
  <1>7. ASSUME NEW i \in 1..(n + 1), convo'[l][i].role = "assistant"
        PROVE  Answered(l, i)'
    <2>1. i \in 1..n /\ convo'[l][i] = convo[l][i]
      BY <1>1, <1>3, <1>4, <1>7
    <2> DEFINE asks == convo[l][i].of
    <2>2. Len(asks) \in Nat
      <3>1. convo[l][i] \in Message
        BY <2>1, LengthTypes
      <3> QED
        BY <3>1, LenProperties DEF Message
    <2>3. /\ i + Len(asks) >= n => i + Len(asks) = n + m
          /\ i + Len(asks) < n => convo[l][i + Len(asks) + 1].role # "tool"
          /\ \A k \in 1..Len(asks) :
                /\ i + k <= n => convo[l][i + k].role = "tool" /\ convo[l][i + k].of = <<asks[k]>>
                /\ i + k > n => todo[l][i + k - n] = asks[k]
      BY <1>6, <1>7, <2>1 DEF Answered
    <2> HIDE DEF n, m, asks
    <2>4. i + Len(asks) >= n + 1 => i + Len(asks) = (n + 1) + (m - 1)
      BY <1>1, <2>1, <2>2, <2>3
    <2>5. i + Len(asks) < n + 1 => convo'[l][i + Len(asks) + 1].role # "tool"
      <3> SUFFICES ASSUME i + Len(asks) < n + 1
                   PROVE  convo'[l][i + Len(asks) + 1].role # "tool"
        OBVIOUS
      <3>1. i + Len(asks) < n
        BY <1>1, <2>1, <2>2, <2>3
      <3>2. i + Len(asks) + 1 \in 1..n
        BY <1>1, <2>1, <2>2, <3>1
      <3> QED
        BY <1>3, <2>3, <3>1, <3>2
    <2>6. ASSUME NEW k \in 1..Len(asks)
          PROVE  /\ i + k <= n + 1 => convo'[l][i + k].role = "tool" /\ convo'[l][i + k].of = <<asks[k]>>
                 /\ i + k > n + 1 => todo'[l][i + k - (n + 1)] = asks[k]
      <3>1. CASE i + k <= n
        <4>1. i + k \in 1..n
          BY <1>1, <2>1, <2>2, <3>1
        <4>2. convo'[l][i + k] = convo[l][i + k]
          BY <1>3, <4>1
        <4>3. convo[l][i + k].role = "tool" /\ convo[l][i + k].of = <<asks[k]>>
          BY <2>3, <3>1
        <4>4. ~(i + k > n + 1)
          BY <1>1, <2>1, <2>2, <3>1
        <4> QED
          BY <4>2, <4>3, <4>4
      <3>2. CASE i + k = n + 1
        <4>1. i + k > n /\ i + k - n = 1 /\ ~(i + k > n + 1)
          BY <1>1, <2>1, <2>2, <3>2
        <4>2. asks[k] = todo[l][1]
          BY <2>3, <4>1
        <4> QED
          BY <1>4, <3>2, <4>1, <4>2
      <3>3. CASE i + k > n + 1
        <4>1. /\ i + k > n /\ ~(i + k <= n + 1)
              /\ i + k - (n + 1) \in 1..(m - 1) /\ (i + k - (n + 1)) + 1 = i + k - n
          BY <1>1, <2>1, <2>2, <2>3, <3>3
        <4>2. todo'[l][i + k - (n + 1)] = todo[l][i + k - n]
          BY <1>2, <4>1
        <4> QED
          BY <2>3, <4>1, <4>2
      <3> QED
        BY <1>1, <2>1, <2>2, <3>1, <3>2, <3>3
    <2> QED
      BY <1>2, <1>3, <2>1, <2>4, <2>5, <2>6 DEF Answered, asks
  <1> QED
    BY <1>3, <1>5, <1>7 DEF Answering

LEMMA RepliesAccounted ==
    ASSUME Typed, Typed', NEW l \in Levels, LevelInv(l), NEW ok \in BOOLEAN, Replies(l, ok)
    PROVE  Accounted(l)'
  <1>1. /\ Numbered(l) /\ Handed(l) /\ Accounted(l) /\ Growing(l)
        /\ acts' = acts /\ todo[l] # <<>> /\ pc'[l] \notin AfterAct
        /\ pc[l] \in BeforeAct \cup AfterAct \cup {"settle"} /\ pc[l] \notin Ended
    BY DEF LevelInv, Replies, AfterAct, BeforeAct, Ended
  <1>2. pc[l] \in AfterAct => \A s : s = InHand(l).serial => Reported(l, s)'
    BY DEF Replies
  <1>3. ASSUME NEW a \in acts', a.level = l PROVE ActReported(l, a)'
    <2>1. CASE a.serial = InHand(l).serial
      <3>1. pc[l] \in AfterAct
        BY <1>1, <1>3, <2>1 DEF Numbered
      <3> QED
        BY <1>2, <2>1, <3>1 DEF ActReported
    <2>2. CASE a.serial # InHand(l).serial
      <3>1. a.serial \in Nat \ {0}
        BY <1>1, <1>3, LengthTypes DEF Numbered
      <3>2. Reported(l, a.serial)
        BY <1>1, <1>3, <2>2 DEF Accounted, ActReported
      <3>3. Reported(l, a.serial)'
        BY <1>1, <2>2, <3>1, <3>2, ReportedStays
      <3> QED
        BY <3>3 DEF ActReported
    <2> QED
      BY <2>1, <2>2
  <1>4. ASSUME NEW i \in 1..Len(convo'[l]) PROVE SuccessReported(l, i)'
    <2>1. convo[l] \in Seq(Message) /\ Len(convo[l]) \in Nat
      BY LengthTypes
    <2>2. Len(convo'[l]) = Len(convo[l]) + 1
      BY <2>1, AppendProperties DEF Replies
    <2>3. CASE i <= Len(convo[l])
      <3>1. i \in 1..Len(convo[l]) /\ convo'[l][i] = convo[l][i]
        BY <2>1, <2>3, AppendProperties DEF Replies
      <3> QED
        BY <3>1, <1>1, SuccessStays
    <2>4. CASE i = Len(convo[l]) + 1
      <3>1. convo'[l][i] = Said("tool", <<InHand(l)>>, ok)
        BY <2>1, <2>4, AppendProperties DEF Replies
      <3>2. convo'[l][i].of[1] = InHand(l) /\ convo'[l][i].ok = ok
        BY <3>1 DEF Said
      <3>3. ActOf(l, InHand(l)) = Act(l)
        BY DEF ActOf, Act
      <3>4. ok => Act(l) \in acts' /\ \A s : s = InHand(l).serial => Reported(l, s)'
        BY <1>1, <1>2 DEF Replies, Accounted
      <3> QED
        BY <3>2, <3>3, <3>4 DEF SuccessReported, ActOf
    <2> QED
      BY <2>1, <2>2, <2>3, <2>4
  <1> QED
    BY <1>1, <1>3, <1>4 DEF Accounted

\* A step of a level that takes up a message with the calls it asks for.
Asks(l, m) ==
    /\ m \in Message /\ m.role # "tool"
    /\ todo[l] = <<>> /\ todo'[l] = m.of
    /\ convo'[l] = Append(convo[l], m)
    /\ calls' = calls + Len(m.of) /\ acts' = acts
    /\ \A k \in 1..Len(m.of) : m.of[k].serial = calls + k
    /\ Growing(l)
    /\ pc[l] \notin Ended
    /\ pc'[l] \notin BeforeAct \cup AfterAct
    /\ pc'[l] = "settle" => m.of # <<>>
    /\ pc'[l] = "answered" => m.role = "assistant"

LEMMA AsksNumbered ==
    ASSUME Typed, Typed', NEW l \in Levels, LevelInv(l), NEW m, Asks(l, m)
    PROVE  Numbered(l)'
  <1>1. /\ Numbered(l) /\ acts' = acts /\ Growing(l) /\ calls' = calls + Len(m.of)
        /\ m \in Message /\ m.of \in Seq(CallRecord) /\ m.role # "tool"
        /\ \A k \in 1..Len(m.of) : m.of[k].serial = calls + k
    BY DEF LevelInv, Asks, Message
  <1>2. calls \in Nat /\ Len(m.of) \in Nat /\ calls' \in Nat /\ calls <= calls'
    BY <1>1, LengthTypes, LenProperties
  <1>3. /\ \A s \in Left(l)' : s \in Nat /\ calls < s /\ s <= calls'
        /\ Later(l)' \subseteq Left(l)'
    <2>1. \A k \in 2..Len(m.of) : k \in 1..Len(m.of)
      BY <1>2
    <2>2. todo'[l] = m.of
      BY DEF Asks
    <2>3. Later(l)' \subseteq Left(l)'
      BY <2>1, <2>2 DEF Left, Later
    <2>4. \A k \in 1..Len(m.of) : m.of[k].serial \in Nat /\ calls < m.of[k].serial
                                  /\ m.of[k].serial <= calls'
      BY <1>1, <1>2
    <2> QED
      BY <2>2, <2>3, <2>4 DEF Left
  <1>4. \A j, k \in 1..Len(todo'[l]) : todo'[l][j].serial = todo'[l][k].serial => j = k
    <2> SUFFICES ASSUME NEW j \in 1..Len(m.of), NEW k \in 1..Len(m.of),
                        m.of[j].serial = m.of[k].serial
                 PROVE  j = k
      BY DEF Asks
    <2>1. calls + j = calls + k
      BY <1>1
    <2> QED
      BY <1>2, <2>1
  <1>5. Left(l)' \subseteq 1..calls'
    BY <1>2, <1>3
  <1>6. \A i \in 1..Len(journal'[l]) : journal'[l][i].of \in 0..calls
    BY <1>1, GrownNumbers
  <1>7. \A i \in 1..Len(journal'[l]) : journal'[l][i].of \in (0..calls') \ Later(l)'
    BY <1>2, <1>3, <1>6
  <1>8. pc'[l] = "settle" =>
           /\ InHand(l)'.serial \in Left(l)'
           /\ \A i \in 1..Len(journal'[l]) : journal'[l][i].of # InHand(l)'.serial
    <2> SUFFICES ASSUME pc'[l] = "settle"
                 PROVE  /\ InHand(l)'.serial \in Left(l)'
                        /\ \A i \in 1..Len(journal'[l]) : journal'[l][i].of # InHand(l)'.serial
      OBVIOUS
    <2>1. todo'[l] = m.of /\ m.of # <<>>
      BY DEF Asks
    <2>2. InHand(l)' = m.of[1] /\ 1 \in 1..Len(m.of)
      BY <1>1, <2>1 DEF InHand
    <2>3. InHand(l)'.serial \in Left(l)'
      BY <2>1, <2>2 DEF Left
    <2> QED
      BY <1>2, <1>3, <1>6, <2>3
  <1>9. \A i \in 1..Len(convo'[l]) : convo'[l][i].role = "tool" =>
           convo'[l][i].of[1].serial \in (1..calls') \ Left(l)'
    <2> SUFFICES ASSUME NEW i \in 1..Len(convo'[l]), convo'[l][i].role = "tool"
                 PROVE  convo'[l][i].of[1].serial \in (1..calls') \ Left(l)'
      OBVIOUS
    <2>1. convo[l] \in Seq(Message) /\ Len(convo[l]) \in Nat
      BY LengthTypes
    <2>2. Len(convo'[l]) = Len(convo[l]) + 1 /\ convo'[l][Len(convo[l]) + 1] = m
      BY <1>1, <2>1, AppendProperties DEF Asks
    <2>3. i \in 1..Len(convo[l]) /\ convo'[l][i] = convo[l][i]
      BY <1>1, <2>1, <2>2, AppendProperties DEF Asks
    <2>4. PICK s : s = convo[l][i].of[1].serial
      OBVIOUS
    <2>5. s \in 1..calls
      BY <1>1, <2>3, <2>4 DEF Numbered
    <2>6. s \in (1..calls') \ Left(l)'
      BY <1>2, <1>3, <2>5
    <2> QED
      BY <2>3, <2>4, <2>6
  <1>10. \A a \in acts' : a.level = l =>
           /\ a.serial \in (1..calls') \ Later(l)'
           /\ pc'[l] \in BeforeAct \cup {"settle"} => a.serial # InHand(l)'.serial
    <2> SUFFICES ASSUME NEW a \in acts', a.level = l
                 PROVE  /\ a.serial \in (1..calls') \ Later(l)'
                        /\ pc'[l] = "settle" => a.serial # InHand(l)'.serial
      BY DEF Asks
    <2>1. a.serial \in 1..calls
      BY <1>1 DEF Numbered
    <2> QED
      BY <1>2, <1>3, <1>8, <2>1
  <1> QED
    BY <1>4, <1>5, <1>7, <1>8, <1>9, <1>10 DEF Numbered

LEMMA AfterLast ==
    \A n, x \in Nat : /\ ~((n + 1) + x < n + 1)
                      /\ \A k \in 1..x : ~((n + 1) + k <= n + 1) /\ (n + 1) + k - (n + 1) = k
  OBVIOUS

LEMMA AsksAnswering ==
    ASSUME Typed, NEW l \in Levels, LevelInv(l), NEW m, Asks(l, m)
    PROVE  Answering(l)'
  <1> DEFINE n == Len(convo[l])
  <1>1. n \in Nat /\ convo[l] \in Seq(Message)
    BY LengthTypes
  <1>2. /\ Len(convo'[l]) = n + 1
        /\ \A i \in 1..n : convo'[l][i] = convo[l][i]
        /\ convo'[l][n + 1] = m
    BY <1>1, AppendProperties DEF Asks
  <1>3. todo[l] = <<>> /\ todo'[l] = m.of /\ m.role # "tool" /\ Len(m.of) \in Nat
    <2>1. m.of \in Seq(CallRecord)
      BY DEF Asks, Message
    <2> QED
      BY <2>1, LenProperties DEF Asks
  <1>4. \A i \in 1..n : convo[l][i].role = "assistant" => Answered(l, i)
    BY DEF LevelInv, Answering
  <1>5. ASSUME NEW i \in 1..(n + 1), convo'[l][i].role = "assistant"
        PROVE  Answered(l, i)'
    <2>1. CASE i \in 1..n
      <3> DEFINE asks == convo[l][i].of
      <3>1. convo'[l][i] = convo[l][i]
        BY <1>2, <2>1
      <3>2. Len(asks) \in Nat
        <4>1. convo[l][i] \in Message
          BY <2>1, LengthTypes
        <4> QED
          BY <4>1, LenProperties DEF Message
      <3>3. /\ i + Len(asks) >= n => i + Len(asks) = n
            /\ i + Len(asks) < n => convo[l][i + Len(asks) + 1].role # "tool"
            /\ \A k \in 1..Len(asks) :
                  i + k <= n => convo[l][i + k].role = "tool" /\ convo[l][i + k].of = <<asks[k]>>
        <4>1. Answered(l, i)
          BY <1>4, <1>5, <2>1, <3>1
        <4>2. Len(todo[l]) = 0 /\ n + Len(todo[l]) = n
          BY <1>1, <1>3
        <4>3. /\ i + Len(asks) >= n => i + Len(asks) = n + Len(todo[l])
              /\ i + Len(asks) < n => convo[l][i + Len(asks) + 1].role # "tool"
              /\ \A k \in 1..Len(asks) :
                    i + k <= n => convo[l][i + k].role = "tool" /\ convo[l][i + k].of = <<asks[k]>>
          BY <4>1, Zenon DEF Answered
        <4> HIDE DEF n, asks
        <4> QED
          BY <4>2, <4>3, Zenon
      <3> HIDE DEF n, asks
      <3>4. i + Len(asks) <= n /\ ~(i + Len(asks) >= n + 1)
        BY <1>1, <2>1, <3>2, <3>3
      <3>5. convo'[l][i + Len(asks) + 1].role # "tool"
        <4>1. CASE i + Len(asks) = n
          BY <1>2, <1>3, <4>1
        <4>2. CASE i + Len(asks) # n
          <5>1. i + Len(asks) < n /\ i + Len(asks) + 1 \in 1..n
            BY <1>1, <2>1, <3>2, <3>4, <4>2
          <5> QED
            BY <1>2, <3>3, <5>1
        <4> QED
          BY <4>1, <4>2
      <3>6. ASSUME NEW k \in 1..Len(asks)
            PROVE  /\ convo'[l][i + k].role = "tool" /\ convo'[l][i + k].of = <<asks[k]>>
                   /\ ~(i + k > n + 1)
        <4>1. i + k \in 1..n /\ i + k <= n /\ ~(i + k > n + 1)
          BY <1>1, <2>1, <3>2, <3>4
        <4>2. convo'[l][i + k] = convo[l][i + k]
          BY <1>2, <4>1
        <4> QED
          BY <3>3, <4>1, <4>2
      <3> QED
        BY <1>2, <3>1, <3>4, <3>5, <3>6 DEF Answered, asks
    <2>2. CASE i = n + 1
      <3>1. convo'[l][i].of = m.of
        BY <1>2, <2>2
      <3> HIDE DEF n
      <3>2. i + Len(m.of) = (n + 1) + Len(m.of) /\ ~(i + Len(m.of) < n + 1)
        BY <1>1, <1>3, <2>2, AfterLast, Zenon
      <3>3. \A k \in 1..Len(m.of) : ~(i + k <= n + 1) /\ i + k - (n + 1) = k
        BY <1>1, <1>3, <2>2, AfterLast, Zenon
      <3> QED
        BY <1>2, <1>3, <3>1, <3>2, <3>3 DEF Answered
    <2> QED
      BY <1>1, <2>1, <2>2
  <1>6. pc'[l] = "answered" => convo'[l] # <<>> /\ convo'[l][Len(convo'[l])].role = "assistant"
    <2>1. convo'[l] # <<>>
      BY <1>1 DEF Asks
    <2>2. pc'[l] = "answered" => m.role = "assistant"
      BY DEF Asks
    <2> QED
      BY <1>2, <2>1, <2>2
  <1> QED
    BY <1>2, <1>5, <1>6 DEF Answering

LEMMA AsksAccounted ==
    ASSUME Typed, Typed', NEW l \in Levels, LevelInv(l), NEW m, Asks(l, m)
    PROVE  Accounted(l)'
  <1>1. /\ Numbered(l) /\ Handed(l) /\ Accounted(l) /\ Growing(l) /\ acts' = acts
        /\ todo[l] = <<>> /\ pc[l] \notin Ended /\ pc'[l] \notin AfterAct /\ m.role # "tool"
    BY DEF LevelInv, Asks
  <1>2. ASSUME NEW a \in acts', a.level = l PROVE ActReported(l, a)'
    <2>1. a.serial \in Nat \ {0}
      BY <1>1, <1>2, LengthTypes DEF Numbered
    <2>2. Reported(l, a.serial)
      BY <1>1, <1>2 DEF Accounted, ActReported, Handed
    <2>3. Reported(l, a.serial)'
      BY <1>1, <2>1, <2>2, ReportedStays
    <2> QED
      BY <2>3 DEF ActReported
  <1>3. ASSUME NEW i \in 1..Len(convo'[l]) PROVE SuccessReported(l, i)'
    <2>1. convo[l] \in Seq(Message) /\ Len(convo[l]) \in Nat /\ m \in Message
      BY LengthTypes DEF Asks
    <2>2. Len(convo'[l]) = Len(convo[l]) + 1 /\ convo'[l][Len(convo[l]) + 1] = m
      BY <2>1, AppendProperties DEF Asks
    <2>3. CASE i <= Len(convo[l])
      <3>1. i \in 1..Len(convo[l]) /\ convo'[l][i] = convo[l][i]
        BY <2>1, <2>3, AppendProperties DEF Asks
      <3> QED
        BY <3>1, <1>1, SuccessStays
    <2>4. CASE i = Len(convo[l]) + 1
      BY <1>1, <2>2, <2>4 DEF SuccessReported
    <2> QED
      BY <2>1, <2>2, <2>3, <2>4
  <1> QED
    BY <1>1, <1>2, <1>3 DEF Accounted

-----------------------------------------------------------------------------
(* The events of a step *)

OwnEvents(l, events) ==
    /\ events \in Seq(EventRecord)
    /\ \A j \in 1..Len(events) :
          events[j].of = 0 \/ (todo[l] # <<>> /\ events[j].of = InHand(l).serial)

\* What a step does to its level's ledger.
Tells(l, events) ==
    /\ recorded[l] = Len(journal[l]) /\ recorded'[l] = Len(journal'[l])
    /\ Len(journal'[l]) = Len(journal[l]) + Len(events)
    /\ \A i \in 1..Len(journal[l]) : journal'[l][i] = journal[l][i]
    /\ \A i \in 1..Len(events) : journal'[l][Len(journal[l]) + i] = events[i]

OwnLedger(l) ==
    /\ journal' = [journal EXCEPT ![l] = journal'[l]] /\ journal'[l] \in Seq(EventRecord)
    /\ recorded' = [recorded EXCEPT ![l] = recorded'[l]] /\ recorded'[l] \in Nat
    /\ Growing(l)

LEMMA QuietGrows ==
    ASSUME Typed, NEW l \in Levels, Handed(l), journal' = journal, recorded' = recorded
    PROVE  OwnLedger(l)
  <1>1. journal[l] \in Seq(EventRecord) /\ Len(journal[l]) \in Nat /\ recorded[l] \in Nat
    BY LengthTypes
  <1>2. journal = [journal EXCEPT ![l] = journal[l]] /\ recorded = [recorded EXCEPT ![l] = recorded[l]]
    BY DEF Typed
  <1> QED
    BY <1>1, <1>2 DEF OwnLedger, Growing, Handed

LEMMA Concatenated ==
    ASSUME NEW s \in Seq(EventRecord), NEW t \in Seq(EventRecord)
    PROVE  /\ s \o t \in Seq(EventRecord) /\ Len(s \o t) = Len(s) + Len(t)
           /\ \A i \in 1..Len(s) : (s \o t)[i] = s[i]
           /\ \A i \in 1..Len(t) : (s \o t)[Len(s) + i] = t[i]
  OBVIOUS

LEMMA TellGrows ==
    ASSUME Typed, NEW l \in Levels, Handed(l), NEW events, OwnEvents(l, events), Tell(l, events)
    PROVE  OwnLedger(l) /\ Tells(l, events)
  <1> DEFINE n == Len(journal[l])
             e == Len(events)
  <1>1. journal[l] \in Seq(EventRecord) /\ n \in Nat /\ recorded[l] \in Nat /\ e \in Nat
        /\ events \in Seq(EventRecord)
    BY LengthTypes, LenProperties DEF OwnEvents
  <1>2. recorded[l] = n
    BY <1>1 DEF Tell, Behind, Handed
  <1>3. /\ journal' = [journal EXCEPT ![l] = journal[l] \o events]
        /\ recorded' = [recorded EXCEPT ![l] = recorded[l] + e]
    BY DEF Tell
  <1>4. journal'[l] = journal[l] \o events /\ recorded'[l] = n + e
    BY <1>2, <1>3 DEF Typed
  <1>5. /\ journal'[l] \in Seq(EventRecord) /\ Len(journal'[l]) = n + e
        /\ \A i \in 1..n : journal'[l][i] = journal[l][i]
        /\ \A i \in 1..e : journal'[l][n + i] = events[i]
    <2>1. LET j == journal[l] \o events
          IN  /\ j \in Seq(EventRecord) /\ Len(j) = n + e
              /\ \A i \in 1..n : j[i] = journal[l][i]
              /\ \A i \in 1..e : j[n + i] = events[i]
      BY <1>1, Concatenated, Zenon
    <2> QED
      BY <1>4, <2>1, Zenon
  <1> HIDE DEF n, e
  <1>6. ASSUME NEW i \in 1..(n + e), i > n
        PROVE  journal'[l][i].of = 0 \/ (todo[l] # <<>> /\ journal'[l][i].of = InHand(l).serial)
    <2>1. i - n \in 1..e /\ n + (i - n) = i
      BY <1>1, <1>6
    <2>2. journal'[l][i] = events[i - n]
      BY <1>5, <2>1
    <2> QED
      BY <2>1, <2>2 DEF OwnEvents, e
  <1>7. Growing(l)
    BY <1>1, <1>2, <1>4, <1>5, <1>6 DEF Growing, n
  <1>8. /\ journal' = [journal EXCEPT ![l] = journal'[l]]
        /\ recorded' = [recorded EXCEPT ![l] = recorded'[l]]
    BY <1>3, <1>4
  <1>9. Tells(l, events)
    BY <1>2, <1>4, <1>5 DEF Tells, n, e
  <1> QED
    BY <1>1, <1>4, <1>5, <1>7, <1>8, <1>9 DEF OwnLedger

LEMMA SumsBetween ==
    \A n, b, e \in Nat : b <= e => n + b \in Nat /\ n <= n + b /\ n + b <= n + e
  OBVIOUS

LEMMA BreaksGrows ==
    ASSUME Typed, NEW l \in Levels, Handed(l), NEW events, OwnEvents(l, events),
           NEW b \in Nat, NEW written \in BOOLEAN, Breaks(l, events, b, written)
    PROVE  OwnLedger(l)
  <1> DEFINE n == Len(journal[l])
             e == IF written THEN b ELSE b - 1
             told == SubSeq(events, 1, e)
  <1>1. journal[l] \in Seq(EventRecord) /\ n \in Nat /\ recorded[l] \in Nat
        /\ events \in Seq(EventRecord) /\ Len(events) \in Nat /\ recorded[l] <= n
    BY LengthTypes, LenProperties DEF OwnEvents, Handed
  <1>2. b \in 1..Len(events) /\ e \in 0..Len(events) /\ b - 1 <= e /\ e \in Nat /\ b - 1 \in Nat
    BY <1>1 DEF Breaks
  <1>3. /\ told \in Seq(EventRecord) /\ Len(told) = e
        /\ \A i \in 1..e : told[i] = events[i]
    BY <1>1, <1>2
  <1>4. journal' = [journal EXCEPT ![l] = journal[l] \o told]
    BY DEF Breaks
  <1> HIDE DEF told
  <1>5. journal'[l] = journal[l] \o told
    BY <1>4 DEF Typed
  <1>6. /\ journal'[l] \in Seq(EventRecord) /\ Len(journal'[l]) = n + e
        /\ \A i \in 1..n : journal'[l][i] = journal[l][i]
        /\ \A i \in 1..e : journal'[l][n + i] = told[i]
    <2>1. LET j == journal[l] \o told
          IN  /\ j \in Seq(EventRecord) /\ Len(j) = n + Len(told)
              /\ \A i \in 1..n : j[i] = journal[l][i]
              /\ \A i \in 1..Len(told) : j[n + i] = told[i]
      BY <1>1, <1>3, Concatenated, Zenon
    <2> QED
      BY <1>3, <1>5, <2>1, Zenon
  <1> HIDE DEF n, e
  <1>7. ASSUME NEW i \in 1..(n + e), i > n
        PROVE  journal'[l][i].of = 0 \/ (todo[l] # <<>> /\ journal'[l][i].of = InHand(l).serial)
    <2>1. i - n \in 1..e /\ n + (i - n) = i /\ i - n \in 1..Len(events)
      BY <1>1, <1>2, <1>7
    <2>2. journal'[l][i] = events[i - n]
      BY <1>3, <1>6, <2>1
    <2> QED
      BY <2>1, <2>2 DEF OwnEvents
  <1>8. /\ recorded' = [recorded EXCEPT ![l] = recorded'[l]] /\ recorded'[l] \in Nat
        /\ recorded[l] <= recorded'[l] /\ recorded'[l] <= n + e
        /\ recorded'[l] = recorded[l] \/ recorded[l] = n
    <2>1. CASE Behind(l)
      <3>1. recorded' = recorded
        BY <2>1 DEF Breaks
      <3>2. recorded = [recorded EXCEPT ![l] = recorded[l]]
        BY DEF Typed
      <3> QED
        BY <1>1, <1>2, <3>1, <3>2
    <2>2. CASE ~Behind(l)
      <3>1. recorded[l] = n
        BY <1>1, <2>2 DEF Behind, n
      <3>2. recorded' = [recorded EXCEPT ![l] = recorded[l] + b - 1]
        BY <2>2 DEF Breaks
      <3>3. recorded'[l] = n + (b - 1) /\ recorded' = [recorded EXCEPT ![l] = recorded'[l]]
        <4>1. recorded' = [recorded EXCEPT ![l] = n + (b - 1)]
          BY <1>1, <1>2, <3>1, <3>2
        <4>2. recorded'[l] = n + (b - 1)
          BY <4>1 DEF Typed
        <4> QED
          BY <4>1, <4>2
      <3>4. n + (b - 1) \in Nat /\ n <= n + (b - 1) /\ n + (b - 1) <= n + e
        BY <1>1, <1>2, SumsBetween, Zenon
      <3> QED
        BY <3>1, <3>3, <3>4
    <2> QED
      BY <2>1, <2>2
  <1>9. Growing(l)
    BY <1>1, <1>2, <1>6, <1>7, <1>8 DEF Growing, n
  <1>10. journal' = [journal EXCEPT ![l] = journal'[l]]
    BY <1>4, <1>5
  <1> QED
    BY <1>6, <1>8, <1>9, <1>10 DEF OwnLedger

LEMMA OneEvent ==
    ASSUME Typed, NEW l \in Levels, NEW t \in EventTypes, NEW of \in Nat,
           of = 0 \/ (todo[l] # <<>> /\ of = InHand(l).serial)
    PROVE  OwnEvents(l, <<Event(t, of)>>)
  <1>1. Event(t, of) \in EventRecord /\ Event(t, of).of = of
    BY DEF Event, EventRecord
  <1> HIDE DEF Event
  <1> QED
    BY <1>1 DEF OwnEvents

LEMMA MoreEvents ==
    ASSUME NEW l, NEW s, NEW t, OwnEvents(l, s), OwnEvents(l, t)
    PROVE  OwnEvents(l, s \o t)
  <1>1. s \in Seq(EventRecord) /\ t \in Seq(EventRecord) /\ Len(s) \in Nat /\ Len(t) \in Nat
    BY LenProperties DEF OwnEvents
  <1>2. /\ s \o t \in Seq(EventRecord) /\ Len(s \o t) = Len(s) + Len(t)
        /\ \A i \in 1..Len(s) : (s \o t)[i] = s[i]
        /\ \A i \in 1..Len(t) : (s \o t)[Len(s) + i] = t[i]
    BY <1>1, Concatenated
  <1>3. ASSUME NEW j \in 1..Len(s \o t)
        PROVE  (s \o t)[j].of = 0 \/ (todo[l] # <<>> /\ (s \o t)[j].of = InHand(l).serial)
    <2>1. CASE j <= Len(s)
      BY <1>1, <1>2, <2>1 DEF OwnEvents
    <2>2. CASE j > Len(s)
      <3>1. j - Len(s) \in 1..Len(t) /\ Len(s) + (j - Len(s)) = j
        BY <1>1, <1>2, <2>2
      <3> QED
        BY <1>2, <3>1 DEF OwnEvents
    <2> QED
      BY <1>1, <1>2, <2>1, <2>2
  <1> QED
    BY <1>2, <1>3 DEF OwnEvents

LEMMA TwoEvents ==
    ASSUME Typed, NEW l \in Levels, NEW t \in EventTypes, NEW u \in EventTypes, NEW of \in Nat,
           of = 0 \/ (todo[l] # <<>> /\ of = InHand(l).serial)
    PROVE  OwnEvents(l, <<Event(t, of), Event(u, of)>>)
  <1>1. Event(t, of) \in EventRecord /\ Event(t, of).of = of
    BY DEF Event, EventRecord
  <1>2. Event(u, of) \in EventRecord /\ Event(u, of).of = of
    BY DEF Event, EventRecord
  <1> HIDE DEF Event
  <1> QED
    BY <1>1, <1>2 DEF OwnEvents

LEMMA ThreeEvents ==
    ASSUME Typed, NEW l \in Levels, NEW t \in EventTypes, NEW u \in EventTypes,
           NEW v \in EventTypes, NEW of \in Nat,
           of = 0 \/ (todo[l] # <<>> /\ of = InHand(l).serial)
    PROVE  OwnEvents(l, <<Event(t, of), Event(u, of), Event(v, of)>>)
  <1>1. Event(t, of) \in EventRecord /\ Event(t, of).of = of
    BY DEF Event, EventRecord
  <1>2. Event(u, of) \in EventRecord /\ Event(u, of).of = of
    BY DEF Event, EventRecord
  <1>3. Event(v, of) \in EventRecord /\ Event(v, of).of = of
    BY DEF Event, EventRecord
  <1> HIDE DEF Event
  <1> QED
    BY <1>1, <1>2, <1>3 DEF OwnEvents

\* The events of a call before and after its approval, one by one.
LEMMA DecisionIs ==
    ASSUME NEW call
    PROVE  DecisionEvents(call)
             = <<Event("tool.requested", call.serial), Event("risk.composed", call.serial),
                 Event("policy.decided", call.serial)>>
  BY DEF DecisionEvents

LEMMA OneMore ==
    ASSUME NEW a, NEW b, NEW c
    PROVE  <<a, b>> \o <<c>> = <<a, b, c>> /\ <<a, b>> \o <<>> = <<a, b>>
  <1> DEFINE S == {a, b, c}
  <1>1. <<a, b>> \in Seq(S) /\ <<c>> \in Seq(S) /\ <<a, b, c>> \in Seq(S) /\ Len(<<a, b, c>>) = 3
    OBVIOUS
  <1>2. /\ <<a, b>> \o <<c>> \in Seq(S) /\ Len(<<a, b>> \o <<c>>) = 3
        /\ \A i \in 1..3 : (<<a, b>> \o <<c>>)[i] = IF i <= 2 THEN <<a, b>>[i] ELSE <<c>>[i - 2]
    BY <1>1, ConcatProperties
  <1>3. \A i \in 1..3 : (<<a, b>> \o <<c>>)[i] = <<a, b, c>>[i]
    <2>1. \A i \in 1..3 : (IF i <= 2 THEN <<a, b>>[i] ELSE <<c>>[i - 2]) = <<a, b, c>>[i]
      OBVIOUS
    <2> QED
      BY <1>2, <2>1, Zenon
  <1>4. <<a, b>> \o <<c>> = <<a, b, c>>
    BY <1>1, <1>2, <1>3, SeqEqual, Zenon
  <1>5. <<a, b>> \o <<>> = <<a, b>>
    BY <1>1, ConcatEmptySeq, Zenon
  <1> QED
    BY <1>4, <1>5

LEMMA ApprovalIs ==
    ASSUME NEW call
    PROVE  ApprovalEvents(call) =
             IF call.kind = "outside"
             THEN <<Event("consent.recorded", call.serial), Event("policy.decided", call.serial)>>
             ELSE <<Event("consent.recorded", call.serial), Event("policy.decided", call.serial),
                    Event("lease.issued", call.serial)>>
  BY OneMore, Zenon DEF ApprovalEvents

LEMMA SegmentEvents ==
    ASSUME Typed, NEW l \in Levels, Handed(l)
    PROVE  OwnEvents(l, Segment(l))
  <1> DEFINE s == InHand(l).serial
  <1>1. todo[l] # <<>> => s \in Nat
    BY LengthTypes DEF CallRecord
  <1>2. \A t \in EventTypes : OwnEvents(l, <<Event(t, 0)>>)
    BY OneEvent
  <1>3. ASSUME todo[l] # <<>> PROVE \A t \in EventTypes : OwnEvents(l, <<Event(t, s)>>)
    BY <1>1, <1>3, OneEvent
  <1>4. OwnEvents(l, <<>>)
    BY DEF OwnEvents
  <1>0. /\ "input.admitted" \in EventTypes /\ "context.epoch.recorded" \in EventTypes
        /\ "agent.model.requested" \in EventTypes /\ "agent.model.responded" \in EventTypes
        /\ "agent.loop.completed" \in EventTypes /\ "agent.loop.depth_exceeded" \in EventTypes
        /\ "tool.settled" \in EventTypes /\ "tool.denied" \in EventTypes
        /\ "tool.requested" \in EventTypes /\ "risk.composed" \in EventTypes
        /\ "policy.decided" \in EventTypes /\ "consent.recorded" \in EventTypes
        /\ "lease.issued" \in EventTypes /\ "tool.result" \in EventTypes
    BY DEF EventTypes
  <1>5. CASE pc[l] \in {"start", "turn", "model", "answered"}
    <2>1. CASE pc[l] = "start"
      <3>1. Segment(l) = <<Event("input.admitted", 0), Event("context.epoch.recorded", 0)>>
        BY <2>1 DEF Segment
      <3> QED
        BY <1>0, <3>1, TwoEvents
    <2>2. CASE pc[l] = "turn"
      <3>1. PICK t \in {"agent.model.requested", "agent.loop.depth_exceeded"} :
               Segment(l) = <<Event(t, 0)>>
        BY <2>2 DEF Segment
      <3> QED
        BY <1>0, <1>2, <3>1
    <2>3. CASE pc[l] = "model"
      <3>1. Segment(l) = <<Event("agent.model.responded", 0)>>
        BY <2>3 DEF Segment
      <3> QED
        BY <1>0, <1>2, <3>1
    <2>4. CASE pc[l] = "answered"
      <3>1. Segment(l) = <<Event("agent.loop.completed", 0)>>
        BY <2>4 DEF Segment
      <3> QED
        BY <1>0, <1>2, <3>1
    <2> QED
      BY <1>5, <2>1, <2>2, <2>3, <2>4
  <1>6. CASE pc[l] \in BeforeAct \cup AfterAct \cup {"settle"}
    <2>0. todo[l] # <<>>
      BY <1>6 DEF Handed
    <2>1. CASE pc[l] = "settle"
      <3>1. PICK t \in {"tool.settled", "tool.denied"} : Segment(l) = <<Event(t, s)>>
        BY <2>1 DEF Segment
      <3> QED
        BY <1>0, <1>3, <2>0, <3>1
    <2>2. CASE pc[l] = "decide" /\ InHand(l).kind # "malformed"
      <3>1. Segment(l) = DecisionEvents(InHand(l))
        BY <2>2 DEF Segment
      <3> QED
        BY SMTT(30), <1>0, <1>1, <2>0, <3>1, DecisionIs, ThreeEvents
    <2>3. CASE pc[l] = "decide" /\ InHand(l).kind = "malformed"
      <3>1. Segment(l) = <<>>
        BY <2>3 DEF Segment
      <3> QED
        BY <1>4, <3>1
    <2>4. CASE pc[l] = "lease"
      <3>1. Segment(l) = <<Event("lease.issued", s)>>
        BY <2>4 DEF Segment
      <3> QED
        BY <1>0, <1>3, <2>0, <3>1
    <2>5. CASE pc[l] = "card"
      <3>1. Segment(l) = <<Event("policy.decided", s)>>
        BY <2>5 DEF Segment
      <3> QED
        BY <1>0, <1>3, <2>0, <3>1
    <2>6. CASE pc[l] = "denied"
      <3>1. Segment(l) = <<Event("tool.denied", s)>>
        BY <2>6 DEF Segment
      <3> QED
        BY <1>0, <1>3, <2>0, <3>1
    <2>7. CASE pc[l] = "approved"
      <3>1. Segment(l) = ApprovalEvents(InHand(l))
        BY <2>7 DEF Segment
      <3>2. CASE InHand(l).kind = "outside"
        <4>1. Segment(l) = <<Event("consent.recorded", s), Event("policy.decided", s)>>
          BY <3>1, <3>2, ApprovalIs
        <4> QED
          BY <1>0, <1>1, <2>0, <4>1, TwoEvents
      <3>3. CASE InHand(l).kind # "outside"
        <4>1. Segment(l) = <<Event("consent.recorded", s), Event("policy.decided", s),
                             Event("lease.issued", s)>>
          BY <3>1, <3>3, ApprovalIs
        <4> QED
          BY <1>0, <1>1, <2>0, <4>1, ThreeEvents
      <3> QED
        BY <3>2, <3>3
    <2>8. CASE pc[l] = "caught" \/ pc[l] = "back"
      <3>1. Segment(l) = <<Event("tool.result", s)>>
        BY <2>8 DEF Segment
      <3> QED
        BY <1>0, <1>3, <2>0, <3>1
    <2>9. CASE pc[l] \in {"propose", "snapshot", "act", "result", "child"}
      <3>1. Segment(l) = <<>>
        BY <2>9 DEF Segment
      <3> QED
        BY <1>4, <3>1
    <2> QED
      BY <1>6, <2>1, <2>2, <2>3, <2>4, <2>5, <2>6, <2>7, <2>8, <2>9 DEF BeforeAct, AfterAct
  <1>7. CASE pc[l] \in Ended \cup {"off"}
    <2>1. Segment(l) = <<>>
      BY <1>7 DEF Segment, Ended
    <2> QED
      BY <1>4, <2>1
  <1>8. pc[l] \in Points
    BY DEF Typed
  <1> QED
    BY <1>5, <1>6, <1>7, <1>8 DEF Points, BeforeAct, AfterAct

LEMMA ResultOwn ==
    ASSUME Typed, NEW l \in Levels, Handed(l), pc[l] = "result"
    PROVE  OwnEvents(l, ResultEvents(InHand(l)))
  <1>1. todo[l] # <<>>
    BY DEF Handed, AfterAct
  <1>2. InHand(l).serial \in Nat
    BY <1>1, LengthTypes DEF CallRecord
  <1>3. /\ "action.recorded" \in EventTypes /\ "verification.recorded" \in EventTypes
        /\ "tool.result" \in EventTypes
    BY DEF EventTypes
  <1>4. CASE InHand(l).kind \in {"write", "edit"}
    <2>1. OwnEvents(l, <<Event("action.recorded", InHand(l).serial),
                         Event("verification.recorded", InHand(l).serial)>>)
      BY <1>1, <1>2, <1>3, TwoEvents
    <2> QED
      BY <1>4, <2>1 DEF ResultEvents
  <1>5. CASE InHand(l).kind \notin {"write", "edit"}
    <2>1. OwnEvents(l, <<Event("tool.result", InHand(l).serial)>>)
      BY <1>1, <1>2, <1>3, OneEvent
    <2> QED
      BY <1>5, <2>1 DEF ResultEvents
  <1> QED
    BY <1>4, <1>5

\* The ledger goes on ending with the types, of which more were told.
LEMMA EndsTells ==
    ASSUME Typed, NEW l \in Levels, NEW types, NEW m \in Nat, NEW e \in Nat,
           NEW events \in Seq(EventRecord), Len(events) = e,
           Tells(l, events), EndsWith(l, types, m), InHand(l)' = InHand(l),
           \A j \in 1..e : events[j] = Event(types[m + j], InHand(l).serial)
    PROVE  EndsWith(l, types, m + e)'
  <1> DEFINE n == Len(journal[l])
             call == InHand(l)
  <1>1. n \in Nat /\ e \in Nat /\ m <= n /\ recorded[l] = n
    BY LengthTypes, LenProperties DEF EndsWith
  <1>2. /\ Len(journal'[l]) = n + e /\ recorded'[l] = n + e
        /\ \A i \in 1..n : journal'[l][i] = journal[l][i]
        /\ \A i \in 1..e : journal'[l][n + i] = events[i]
    BY DEF Tells
  <1>3. /\ \A k \in 1..m : journal[l][n - m + k] = Event(types[k], call.serial)
        /\ \A i \in 1..(n - m) : journal[l][i].of # call.serial
    BY DEF EndsWith
  <1>4. \A j \in 1..e : events[j] = Event(types[m + j], call.serial)
    OBVIOUS
  <1> HIDE DEF n, call
  <1>5. m + e <= n + e /\ n + e - (m + e) = n - m /\ n - m <= n /\ m + e \in Nat /\ n - m \in Nat
    BY <1>1
  <1>6. ASSUME NEW k \in 1..(m + e)
        PROVE  journal'[l][n - m + k] = Event(types[k], call.serial)
    <2>1. CASE k <= m
      <3>1. n - m + k \in 1..n /\ k \in 1..m
        BY <1>1, <2>1
      <3> QED
        BY <1>2, <1>3, <3>1
    <2>2. CASE k > m
      <3>1. k - m \in 1..e /\ n - m + k = n + (k - m) /\ m + (k - m) = k
        BY <1>1, <2>2
      <3> QED
        BY <1>2, <1>4, <3>1
    <2> QED
      BY <1>1, <2>1, <2>2
  <1>7. ASSUME NEW i \in 1..(n - m) PROVE journal'[l][i].of # call.serial
    <2>1. i \in 1..n
      BY <1>1, <1>5
    <2> QED
      BY <1>2, <1>3, <2>1
  <1>8. /\ Len(journal'[l]) - (m + e) = n - m /\ m + e <= Len(journal'[l])
        /\ recorded'[l] = Len(journal'[l]) /\ InHand(l)' = call
    <2>1. Len(journal'[l]) = n + e /\ recorded'[l] = n + e
      BY <1>2
    <2>2. (n + e) - (m + e) = n - m /\ m + e <= n + e
      BY <1>1
    <2>3. InHand(l)' = call
      BY DEF call
    <2> QED
      BY <2>1, <2>2, <2>3, Zenon
  <1> QED
    BY <1>6, <1>7, <1>8, Zenon DEF EndsWith

LEMMA EndsSame ==
    ASSUME NEW l, NEW types, NEW m, journal'[l] = journal[l], recorded'[l] = recorded[l],
           InHand(l)' = InHand(l), EndsWith(l, types, m)
    PROVE  EndsWith(l, types, m)'
  BY DEF EndsWith

LEMMA ToldFirstStays ==
    ASSUME Typed, NEW l \in Levels, Handed(l), Growing(l), recorded'[l] \in Nat,
           NEW s, NEW types \in Seq(EventTypes), ToldFirst(l, s, types)
    PROVE  ToldFirst(l, s, types)'
  <1>1. PICK n \in 0..recorded[l] :
           /\ n + Len(types) <= recorded[l]
           /\ \A k \in 1..Len(types) : journal[l][n + k] = Event(types[k], s)
           /\ \A i \in 1..n : journal[l][i].of # s
    BY DEF ToldFirst
  <1>2. /\ recorded[l] \in Nat /\ recorded'[l] \in Nat /\ Len(types) \in Nat
        /\ Len(journal[l]) \in Nat /\ recorded[l] <= Len(journal[l]) /\ recorded[l] <= recorded'[l]
        /\ \A i \in 1..Len(journal[l]) : journal'[l][i] = journal[l][i]
    BY LengthTypes, LenProperties DEF Typed, Handed, Growing
  <1>3. n \in 0..recorded'[l] /\ n + Len(types) <= recorded'[l]
    BY <1>1, <1>2
  <1>4. \A k \in 1..Len(types) : n + k \in 1..Len(journal[l])
    BY <1>1, <1>2
  <1>5. \A i \in 1..n : i \in 1..Len(journal[l])
    BY <1>1, <1>2
  <1> QED
    BY <1>1, <1>2, <1>3, <1>4, <1>5 DEF ToldFirst

LEMMA EndsTold ==
    ASSUME Typed, NEW l \in Levels, NEW types \in Seq(EventTypes), EndsWith(l, types, Len(types))
    PROVE  /\ ToldFirst(l, InHand(l).serial, types)
           /\ ToldOnly(l, InHand(l).serial, types)
  <1> DEFINE n == Len(journal[l]) - Len(types)
  <1>1. /\ Len(types) \in Nat /\ Len(journal[l]) \in Nat /\ recorded[l] = Len(journal[l])
        /\ Len(types) <= Len(journal[l])
    BY LengthTypes, LenProperties DEF EndsWith
  <1>2. n \in 0..recorded[l] /\ n + Len(types) <= recorded[l]
    BY <1>1
  <1>3. /\ \A k \in 1..Len(types) : journal[l][n + k] = Event(types[k], InHand(l).serial)
        /\ \A i \in 1..n : journal[l][i].of # InHand(l).serial
    BY DEF EndsWith
  <1> QED
    BY <1>1, <1>2, <1>3 DEF ToldFirst, ToldOnly

LEMMA FirstTypes ==
    /\ AllowedFirst \in Seq(EventTypes) /\ Len(AllowedFirst) = 5
    /\ ApprovedFirst \in Seq(EventTypes) /\ Len(ApprovedFirst) = 8
    /\ \A k \in 1..4 : ApprovedFirst[k] = AllowedFirst[k]
    /\ AllowedFirst[1] = "tool.settled" /\ AllowedFirst[2] = "tool.requested"
    /\ AllowedFirst[3] = "risk.composed" /\ AllowedFirst[4] = "policy.decided"
    /\ AllowedFirst[5] = "lease.issued" /\ ApprovedFirst[5] = "policy.decided"
    /\ ApprovedFirst[6] = "consent.recorded" /\ ApprovedFirst[7] = "policy.decided"
    /\ ApprovedFirst[8] = "lease.issued"
  <1>1. AllowedFirst \in Seq(EventTypes) /\ Len(AllowedFirst) = 5
    BY DEF AllowedFirst, EventTypes
  <1>2. ApprovedFirst \in Seq(EventTypes) /\ Len(ApprovedFirst) = 8
    BY DEF ApprovedFirst, EventTypes
  <1>3. /\ AllowedFirst[1] = "tool.settled" /\ AllowedFirst[2] = "tool.requested"
        /\ AllowedFirst[3] = "risk.composed" /\ AllowedFirst[4] = "policy.decided"
        /\ AllowedFirst[5] = "lease.issued"
    BY DEF AllowedFirst
  <1>4. /\ ApprovedFirst[1] = "tool.settled" /\ ApprovedFirst[2] = "tool.requested"
        /\ ApprovedFirst[3] = "risk.composed" /\ ApprovedFirst[4] = "policy.decided"
        /\ ApprovedFirst[5] = "policy.decided"
        /\ ApprovedFirst[6] = "consent.recorded" /\ ApprovedFirst[7] = "policy.decided"
        /\ ApprovedFirst[8] = "lease.issued"
    BY DEF ApprovedFirst
  <1>5. 1..4 = {1, 2, 3, 4}
    OBVIOUS
  <1> QED
    BY <1>1, <1>2, <1>3, <1>4, <1>5, Zenon

-----------------------------------------------------------------------------
(* Steps that carry on *)

LEMMA Unmoved ==
    ASSUME Typed, NEW l \in Levels
    PROVE  /\ turn = [turn EXCEPT ![l] = turn[l]] /\ convo = [convo EXCEPT ![l] = convo[l]]
           /\ todo = [todo EXCEPT ![l] = todo[l]] /\ asked = [asked EXCEPT ![l] = asked[l]]
           /\ acted = [acted EXCEPT ![l] = acted[l]]
           /\ manifest = [manifest EXCEPT ![l] = manifest[l]]
           /\ consents = [consents EXCEPT ![l] = consents[l]]
           /\ TypedAt(l)
  <1>1. turn = [turn EXCEPT ![l] = turn[l]] /\ convo = [convo EXCEPT ![l] = convo[l]]
    BY DEF Typed
  <1>2. todo = [todo EXCEPT ![l] = todo[l]] /\ asked = [asked EXCEPT ![l] = asked[l]]
    BY DEF Typed
  <1>3. acted = [acted EXCEPT ![l] = acted[l]] /\ manifest = [manifest EXCEPT ![l] = manifest[l]]
    BY DEF Typed
  <1>4. consents = [consents EXCEPT ![l] = consents[l]]
    BY DEF Typed
  <1>5. TypedAt(l)
    BY DEF Typed, TypedAt
  <1> QED
    BY <1>1, <1>2, <1>3, <1>4, <1>5

LEMMA CarriesKeeps ==
    ASSUME LoopInv, NEW l \in Levels, Only(l), OwnDone(l), Carries(l), MoreShared, TypedAt(l)',
           Handed(l)', Evidenced(l)', Consented(l)', Closed(l)'
    PROVE  LoopInv'
  <1>1. Typed /\ LevelInv(l) /\ calls' \in Nat
    BY DEF LoopInv, Carries, Typed
  <1>2. Typed'
    BY <1>1, OnlyTyped
  <1>3. Numbered(l)' /\ Answering(l)' /\ Accounted(l)'
    BY <1>1, <1>2, CarriesNumbered, CarriesAnswering, CarriesAccounted
  <1>4. LevelInv(l)'
    BY <1>3 DEF LevelInv
  <1> QED
    BY <1>1, <1>4, LevelStep

\* A step that goes on with the call in hand, or without one, and acts on
\* nothing.
LEMMA Advances ==
    ASSUME LoopInv, NEW l \in Levels, NEW q \in Points, pc' = [pc EXCEPT ![l] = q],
           turn' = [turn EXCEPT ![l] = turn'[l]], turn'[l] \in Nat,
           convo' = convo, todo' = todo,
           asked' = [asked EXCEPT ![l] = asked'[l]],
           acted' = [acted EXCEPT ![l] = acted'[l]], acted'[l] \in BOOLEAN,
           OwnLedger(l), manifest' = manifest,
           consents' = [consents EXCEPT ![l] = consents'[l]],
           file' = [k \in Levels |-> file'[k]],
           acts' = acts, calls' = calls, granted \subseteq granted', grants \subseteq grants',
           pc[l] \notin Ended \cup {"off"}, q \notin {"settle", "answered"},
           q \in BeforeAct => pc[l] \in BeforeAct \cup {"settle"},
           pc[l] \in AfterAct => q \in AfterAct \cup Ended,
           q \in AfterAct \ {"caught"} => pc[l] \in AfterAct \ {"caught"},
           Handed(l)', Evidenced(l)', Consented(l)'
    PROVE  LoopInv'
  <1>1. Typed /\ LevelInv(l) /\ Handed(l)
    BY DEF LoopInv, LevelInv
  <1>2. pc'[l] = q /\ manifest[l] = "running" /\ calls \in Nat
    BY <1>1 DEF Typed, Handed
  <1>3. Only(l)
    BY <1>1, <1>2, Unmoved DEF Only, OwnLedger
  <1>4. TypedAt(l)'
    BY <1>1, <1>2, Unmoved DEF TypedAt, OwnLedger
  <1>5. Closed(l)'
    BY <1>2 DEF Closed
  <1>6. Act(l) \in acts \/ q \notin AfterAct \ {"caught"}
    BY <1>1 DEF LevelInv, Accounted
  <1>7. Carries(l)
    BY <1>2, <1>6 DEF Carries, OwnLedger
  <1>8. MoreShared /\ OwnDone(l)
    BY <1>2 DEF MoreShared, OwnDone
  <1> QED
    BY <1>3, <1>4, <1>5, <1>7, <1>8, CarriesKeeps

\* What is asked of a level between its calls, and after its act.
LEMMA NotBefore ==
    ASSUME NEW l \in Levels, pc[l] \notin BeforeAct PROVE Evidenced(l) /\ Consented(l)
  BY DEF BeforeAct, Evidenced, Consented

\* A loop that breaks off.
LEMMA BreaksOff ==
    ASSUME LoopInv, NEW l \in Levels, NEW q \in Ended, pc' = [pc EXCEPT ![l] = q],
           turn' = turn, convo' = convo, todo' = todo, asked' = asked, acted' = acted,
           OwnLedger(l), manifest' = manifest, consents' = consents, file' = file,
           acts' = acts, calls' = calls, granted' = granted, grants \subseteq grants',
           pc[l] \notin Ended \cup {"off"}
    PROVE  LoopInv'
  <1>1. Typed /\ Typed /\ TypedAt(l) /\ pc'[l] = q
    BY Unmoved DEF LoopInv, Typed
  <1>2. /\ q \in Points /\ q \notin BeforeAct \cup AfterAct \cup Idle \cup {"settle", "answered"}
    BY DEF Points, Ended, BeforeAct, AfterAct, Idle
  <1>3. Evidenced(l)' /\ Consented(l)'
    BY <1>1, <1>2 DEF BeforeAct, Evidenced, Consented
  <1>4. Handed(l)'
    BY <1>1, <1>2 DEF Handed, OwnLedger, Growing, BeforeAct, AfterAct, Idle, Ended
  <1>5. /\ turn' = [turn EXCEPT ![l] = turn'[l]] /\ asked' = [asked EXCEPT ![l] = asked'[l]]
        /\ acted' = [acted EXCEPT ![l] = acted'[l]]
        /\ consents' = [consents EXCEPT ![l] = consents'[l]]
        /\ turn'[l] \in Nat /\ acted'[l] \in BOOLEAN
    BY <1>1, Unmoved DEF TypedAt
  <1>6. file' = [k \in Levels |-> file'[k]]
    BY <1>1 DEF Typed
  <1> QED
    BY <1>2, <1>3, <1>4, <1>5, <1>6, Advances

LEMMA BreaksOffKeeps ==
    ASSUME LoopInv, NEW l \in Levels, Throw(l) \/ ProviderFails(l) \/ CloseFails(l) \/ SpawnFails(l)
    PROVE  LoopInv'
  <1>1. Typed /\ Handed(l) /\ LevelInv(l)
    BY DEF LoopInv, LevelInv
  <1>2. OwnEvents(l, Segment(l))
    BY <1>1, SegmentEvents
  <1>3. CASE Throw(l)
    <2>1. PICK b \in 1..Len(Segment(l)), written \in BOOLEAN : Breaks(l, Segment(l), b, written)
      BY <1>3 DEF Throw
    <2>2. b \in Nat /\ Len(Segment(l)) \in Nat
      BY <1>2, LenProperties DEF OwnEvents
    <2>3. OwnLedger(l)
      BY <1>1, <1>2, <2>1, <2>2, BreaksGrows
    <2>4. pc[l] \notin Ended \cup {"off"}
      <3>1. Len(Segment(l)) # 0
        BY <2>1, <2>2
      <3>2. pc[l] \in Ended \cup {"off"} => Segment(l) = <<>>
        BY DEF Segment, Ended
      <3> QED
        BY <3>1, <3>2
    <2> DEFINE q == IF pc[l] = "start" THEN "threw" ELSE "over"
    <2>5. q \in Ended /\ pc' = [pc EXCEPT ![l] = q]
      BY <1>3 DEF Throw, Ended
    <2>6. /\ turn' = turn /\ convo' = convo /\ todo' = todo /\ asked' = asked /\ acted' = acted
          /\ manifest' = manifest /\ consents' = consents /\ file' = file
          /\ acts' = acts /\ calls' = calls /\ granted' = granted /\ grants' = grants
      BY <1>3 DEF Throw, user
    <2> HIDE DEF q
    <2> QED
      BY <2>3, <2>4, <2>5, <2>6, BreaksOff
  <1>4. CASE ProviderFails(l)
    <2>1. OwnLedger(l)
      BY <1>1, <1>4, QuietGrows DEF ProviderFails, disk
    <2>2. /\ pc[l] = "model" /\ pc' = [pc EXCEPT ![l] = "over"]
          /\ turn' = turn /\ convo' = convo /\ todo' = todo /\ asked' = asked /\ acted' = acted
          /\ manifest' = manifest /\ consents' = consents /\ file' = file
          /\ acts' = acts /\ calls' = calls /\ granted' = granted /\ grants' = grants
      BY <1>4 DEF ProviderFails, disk, user, history
    <2> QED
      BY <2>1, <2>2, BreaksOff DEF Ended
  <1>5. CASE CloseFails(l)
    <2>1. OwnLedger(l)
      BY <1>1, <1>2, <1>5, TellGrows DEF CloseFails
    <2>2. /\ pc[l] \in {"answered", "turn"} /\ pc' = [pc EXCEPT ![l] = "over"]
          /\ turn' = turn /\ convo' = convo /\ todo' = todo /\ asked' = asked /\ acted' = acted
          /\ manifest' = manifest /\ consents' = consents /\ file' = file
          /\ acts' = acts /\ calls' = calls /\ granted' = granted /\ grants' = grants
      BY <1>5 DEF CloseFails, user
    <2> QED
      BY <2>1, <2>2, BreaksOff DEF Ended
  <1>6. CASE SpawnFails(l)
    <2>1. OwnLedger(l)
      BY <1>1, <1>6, QuietGrows DEF SpawnFails, disk
    <2>2. /\ pc[l] = "act" /\ pc' = [pc EXCEPT ![l] = "over"]
          /\ turn' = turn /\ convo' = convo /\ todo' = todo /\ asked' = asked /\ acted' = acted
          /\ manifest' = manifest /\ consents' = consents /\ file' = file
          /\ acts' = acts /\ calls' = calls /\ granted' = granted /\ grants' = grants
      BY <1>6 DEF SpawnFails, disk, user
    <2> QED
      BY <2>1, <2>2, BreaksOff DEF Ended
  <1> QED
    BY <1>3, <1>4, <1>5, <1>6

LEMMA ClosesKeeps ==
    ASSUME LoopInv, NEW l \in Levels, Exhaust(l) \/ Complete(l)
    PROVE  LoopInv'
  <1>1. Typed /\ Handed(l) /\ LevelInv(l) /\ OwnEvents(l, Segment(l))
    BY SegmentEvents DEF LoopInv, LevelInv
  <1>2. Tell(l, Segment(l)) /\ pc[l] \in {"turn", "answered"} /\ pc' = [pc EXCEPT ![l] = "over"]
    BY DEF Exhaust, Complete
  <1>3. OwnLedger(l) /\ Tells(l, Segment(l))
    BY <1>1, <1>2, TellGrows
  <1>4. PICK m \in {"completed", "blocked"} :
           /\ manifest' = [manifest EXCEPT ![l] = m]
           /\ m = "completed" => pc[l] = "answered"
           /\ Segment(l) = <<Event(IF m = "completed" THEN "agent.loop.completed"
                                   ELSE "agent.loop.depth_exceeded", 0)>>
    <2>1. CASE Exhaust(l)
      <3>1. manifest' = [manifest EXCEPT ![l] = "blocked"]
        BY <2>1 DEF Exhaust
      <3>2. pc[l] = "turn" /\ turn[l] >= MaxDepth
        BY <2>1 DEF Exhaust
      <3>3. ~(turn[l] < MaxDepth)
        BY <1>1, <3>2, AgentAssumption DEF AgentAssumption, Typed
      <3>4. Segment(l) = <<Event("agent.loop.depth_exceeded", 0)>>
        BY <3>2, <3>3 DEF Segment
      <3> QED
        BY <3>1, <3>4
    <2>2. CASE Complete(l)
      <3>1. manifest' = [manifest EXCEPT ![l] = "completed"] /\ pc[l] = "answered"
        BY <2>2 DEF Complete
      <3>2. Segment(l) = <<Event("agent.loop.completed", 0)>>
        BY <3>1 DEF Segment
      <3> QED
        BY <3>1, <3>2
    <2> QED
      BY <2>1, <2>2
  <1>5. /\ turn' = turn /\ convo' = convo /\ todo' = todo /\ asked' = asked /\ acted' = acted
        /\ consents' = consents /\ file' = file
        /\ acts' = acts /\ calls' = calls /\ granted' = granted /\ grants' = grants
    BY DEF Exhaust, Complete, user, history
  <1>6. pc'[l] = "over" /\ manifest'[l] = m /\ manifest' = [manifest EXCEPT ![l] = manifest'[l]]
        /\ pc' = [pc EXCEPT ![l] = pc'[l]] /\ file' = [k \in Levels |-> file'[k]] /\ calls \in Nat
    BY <1>1, <1>2, <1>4, <1>5 DEF Typed
  <1>7. Only(l)
    BY <1>1, <1>3, <1>5, <1>6, Unmoved DEF Only, OwnLedger
  <1>8. TypedAt(l)'
    BY <1>1, <1>3, <1>5, <1>6, Unmoved DEF TypedAt, OwnLedger, Points, Ended
  <1>9. Handed(l)'
    BY <1>1, <1>3, <1>5, <1>6 DEF Handed, OwnLedger, Growing, BeforeAct, AfterAct, Idle, Ended
  <1>10. Evidenced(l)' /\ Consented(l)'
    BY <1>6 DEF BeforeAct, Evidenced, Consented
  <1>11. Closed(l)'
    <2> DEFINE n == Len(journal[l])
               t == IF m = "completed" THEN "agent.loop.completed" ELSE "agent.loop.depth_exceeded"
    <2>1. n \in Nat /\ Len(journal'[l]) = n + 1 /\ recorded'[l] = n + 1
          /\ journal'[l][n + 1] = Event(t, 0)
      BY <1>1, <1>3, <1>4, LengthTypes DEF Tells
    <2> HIDE DEF n, t
    <2>2. journal'[l][Len(journal'[l])].type = t
      BY <2>1 DEF Event
    <2>3. journal'[l] # <<>>
      <3>1. Len(journal'[l]) # 0
        BY <2>1
      <3> QED
        BY <3>1
    <2>4. ~Behind(l)'
      BY <2>1 DEF Behind
    <2>5. m = "completed" => convo'[l] # <<>> /\ convo'[l][Len(convo'[l])].role = "assistant"
      BY <1>1, <1>4, <1>5 DEF LevelInv, Answering
    <2> QED
      BY <1>6, <2>2, <2>3, <2>4, <2>5 DEF Closed, t
  <1>12. Carries(l)
    BY <1>2, <1>3, <1>5, <1>6 DEF Carries, OwnLedger, AfterAct, BeforeAct, Ended
  <1>13. MoreShared /\ OwnDone(l)
    BY <1>5, <1>6 DEF MoreShared, OwnDone
  <1> QED
    BY <1>7, <1>8, <1>9, <1>10, <1>11, <1>12, <1>13, CarriesKeeps

LEMMA HandedStays ==
    ASSUME Typed, NEW l \in Levels, Handed(l), NEW q \in Points, pc' = [pc EXCEPT ![l] = q],
           todo' = todo, convo' = convo, manifest' = manifest, OwnLedger(l),
           pc[l] \notin Ended \cup {"off"},
           q \in BeforeAct \cup AfterAct => pc[l] \in BeforeAct \cup AfterAct \cup {"settle"},
           q \in Idle => pc[l] \in Idle, q \notin {"start", "settle"},
           q = "lease" => InHand(l).kind = "observe",
           q \in {"card", "propose", "approved"} => InHand(l).kind \in Asking,
           q = "snapshot" => InHand(l).kind = "exec",
           q = "act" => InHand(l).kind \in {"observe", "write", "edit", "exec", "spawn"}
    PROVE  Handed(l)' /\ InHand(l)' = InHand(l) /\ pc'[l] = q
  <1>1. pc'[l] = q /\ InHand(l)' = InHand(l) /\ todo'[l] = todo[l] /\ manifest'[l] = "running"
    BY DEF Typed, InHand, Handed
  <1>2. recorded'[l] <= Len(journal'[l])
    BY DEF OwnLedger, Growing
  <1> QED
    BY <1>1, <1>2 DEF Handed

LEMMA RequestKeeps == ASSUME LoopInv, NEW l \in Levels, Request(l) PROVE LoopInv'
  <1>1. Typed /\ Handed(l) /\ OwnEvents(l, Segment(l)) /\ TypedAt(l)
    BY SegmentEvents, Unmoved DEF LoopInv, LevelInv
  <1>2. /\ pc[l] = "turn" /\ pc' = [pc EXCEPT ![l] = "model"] /\ Tell(l, Segment(l))
        /\ turn' = [turn EXCEPT ![l] = turn[l] + 1] /\ convo' = convo /\ todo' = todo
        /\ asked' = asked /\ acted' = acted /\ manifest' = manifest /\ consents' = consents
        /\ file' = file /\ acts' = acts /\ calls' = calls /\ granted' = granted /\ grants' = grants
    BY DEF Request, user, history
  <1>3. OwnLedger(l)
    BY <1>1, <1>2, TellGrows
  <1>4. Handed(l)' /\ pc'[l] = "model"
    BY <1>1, <1>2, <1>3, HandedStays DEF Points, Ended, BeforeAct, AfterAct, Idle
  <1>5. turn' = [turn EXCEPT ![l] = turn'[l]] /\ turn'[l] \in Nat
    <2>1. turn'[l] = turn[l] + 1
      BY <1>1, <1>2 DEF Typed
    <2>2. turn[l] \in Nat
      BY <1>1 DEF TypedAt
    <2>3. turn' = [turn EXCEPT ![l] = turn'[l]]
      BY <1>2, <2>1
    <2> QED
      BY <2>1, <2>2, <2>3
  <1>6. Evidenced(l)' /\ Consented(l)'
    BY <1>4 DEF Evidenced, Consented
  <1>7. file' = [k \in Levels |-> file'[k]] /\ acted'[l] \in BOOLEAN
    BY <1>1, <1>2 DEF Typed
  <1>8. /\ asked' = [asked EXCEPT ![l] = asked'[l]] /\ acted' = [acted EXCEPT ![l] = acted'[l]]
        /\ consents' = [consents EXCEPT ![l] = consents'[l]]
    BY <1>1, <1>2, Unmoved
  <1> QED
    BY <1>2, <1>3, <1>4, <1>5, <1>6, <1>7, <1>8, Advances DEF Points, Ended, BeforeAct, AfterAct

\* A step of the call in hand on its way to the act or back from it.
LEMMA Proceeds ==
    ASSUME LoopInv, NEW l \in Levels, NEW q \in BeforeAct \cup AfterAct, pc' = [pc EXCEPT ![l] = q],
           turn' = turn, convo' = convo, todo' = todo,
           asked' = [asked EXCEPT ![l] = asked'[l]],
           acted' = [acted EXCEPT ![l] = acted'[l]], acted'[l] \in BOOLEAN,
           OwnLedger(l), manifest' = manifest,
           consents' = [consents EXCEPT ![l] = consents'[l]],
           file' = [k \in Levels |-> file'[k]],
           acts' = acts, calls' = calls, granted \subseteq granted', grants \subseteq grants',
           pc[l] \in BeforeAct \cup AfterAct \cup {"settle"},
           q \in BeforeAct => pc[l] \in BeforeAct \cup {"settle"},
           q \in AfterAct \ {"caught"} => pc[l] \in AfterAct \ {"caught"},
           q = "lease" => InHand(l).kind = "observe",
           q \in {"card", "propose", "approved"} => InHand(l).kind \in Asking,
           q = "snapshot" => InHand(l).kind = "exec",
           q = "act" => InHand(l).kind \in {"observe", "write", "edit", "exec", "spawn"},
           Evidenced(l)', Consented(l)'
    PROVE  LoopInv'
  <1>1. Typed /\ Handed(l) /\ TypedAt(l)
    BY Unmoved DEF LoopInv, LevelInv
  <1>2. /\ q \in Points \ (Idle \cup Ended \cup {"settle", "answered", "start"})
        /\ pc[l] \notin Ended \cup {"off"} /\ (pc[l] \in AfterAct => q \in AfterAct)
    BY DEF BeforeAct, AfterAct, Points, Idle, Ended
  <1>3. Handed(l)'
    BY <1>1, <1>2, HandedStays
  <1>4. turn' = [turn EXCEPT ![l] = turn'[l]] /\ turn'[l] \in Nat
    BY <1>1, Unmoved DEF TypedAt
  <1> QED
    BY <1>2, <1>3, <1>4, Advances

LEMMA InHandStays ==
    ASSUME NEW l, todo' = todo, turn' = turn
    PROVE  InHand(l)' = InHand(l) /\ ConsentName(l)' = ConsentName(l)
  BY DEF InHand, ConsentName

\* Nothing was told of the call that settles.
LEMMA AdmitHolds == ASSUME LoopInv, NEW l \in Levels, Admit(l) PROVE LoopInv'
  <1>1. Typed /\ Handed(l) /\ OwnEvents(l, Segment(l)) /\ TypedAt(l) /\ Numbered(l)
    BY SegmentEvents, Unmoved DEF LoopInv, LevelInv
  <1>2. /\ pc[l] = "settle" /\ pc' = [pc EXCEPT ![l] = "decide"] /\ Tell(l, Segment(l))
        /\ turn' = turn /\ convo' = convo /\ todo' = todo
        /\ asked' = asked /\ acted' = acted /\ manifest' = manifest /\ consents' = consents
        /\ file' = file /\ acts' = acts /\ calls' = calls /\ granted' = granted /\ grants' = grants
    BY DEF Admit, user, history
  <1>3. OwnLedger(l) /\ Tells(l, Segment(l))
    BY <1>1, <1>2, TellGrows
  <1>4. pc'[l] = "decide" /\ InHand(l)' = InHand(l)
    BY <1>1, <1>2, InHandStays DEF Typed
  <1>5. Segment(l) = <<Event("tool.settled", InHand(l).serial)>>
    BY <1>2 DEF Segment, Admit
  <1>6. EndsWith(l, AllowedFirst, 0)
    <2>1. /\ 0 <= Len(journal[l]) /\ Len(journal[l]) - 0 = Len(journal[l])
          /\ \A k : k \notin 1..0
      BY <1>1, LengthTypes
    <2>2. \A i \in 1..Len(journal[l]) : journal[l][i].of # InHand(l).serial
      BY <1>1, <1>2 DEF Numbered
    <2>3. recorded[l] = Len(journal[l])
      BY <1>3 DEF Tells
    <2> QED
      BY <2>1, <2>2, <2>3, Zenon DEF EndsWith
  <1>7. EndsWith(l, AllowedFirst, 1)'
    <2>1. PICK events : events = Segment(l)
      OBVIOUS
    <2>2. /\ events \in Seq(EventRecord) /\ Len(events) = 1 /\ 0 + 1 = 1 /\ 0 \in Nat /\ 1 \in Nat
          /\ \A j \in 1..1 : j = 1 /\ 0 + j = 1
      BY <1>1, <1>5, <2>1 DEF OwnEvents
    <2>3. events[1] = Event(AllowedFirst[1], InHand(l).serial)
      BY <1>5, <2>1, FirstTypes
    <2>4. \A j \in 1..1 : events[j] = Event(AllowedFirst[0 + j], InHand(l).serial)
      BY <2>2, <2>3
    <2>5. EndsWith(l, AllowedFirst, 0 + 1)'
      BY <1>1, <1>3, <1>4, <1>6, <2>1, <2>2, <2>4, EndsTells
    <2> QED
      BY <2>2, <2>5
  <1>8. Evidenced(l)' /\ Consented(l)'
    BY <1>4, <1>7 DEF Evidenced, Consented
  <1>9. file' = [k \in Levels |-> file'[k]] /\ acted'[l] \in BOOLEAN
    BY <1>1, <1>2 DEF Typed
  <1>10. /\ asked' = [asked EXCEPT ![l] = asked'[l]] /\ acted' = [acted EXCEPT ![l] = acted'[l]]
         /\ consents' = [consents EXCEPT ![l] = consents'[l]]
    BY <1>1, <1>2, Unmoved
  <1> QED
    BY <1>2, <1>3, <1>8, <1>9, <1>10, Proceeds DEF BeforeAct, AfterAct

\* The same for a step that tells the next events of the call, and takes it
\* nowhere but further.
LEMMA TellsNext ==
    ASSUME LoopInv, NEW l \in Levels, NEW types, NEW m \in Nat, NEW e \in Nat,
           NEW events \in Seq(EventRecord), Len(events) = e,
           OwnEvents(l, events), Tell(l, events), todo' = todo, turn' = turn,
           EndsWith(l, types, m),
           \A j \in 1..e : events[j] = Event(types[m + j], InHand(l).serial)
    PROVE  OwnLedger(l) /\ EndsWith(l, types, m + e)'
  <1>1. Typed /\ Handed(l)
    BY DEF LoopInv, LevelInv
  <1>2. OwnLedger(l) /\ Tells(l, events)
    BY <1>1, TellGrows
  <1>3. InHand(l)' = InHand(l)
    BY InHandStays
  <1> QED
    BY <1>1, <1>2, <1>3, EndsTells

LEMMA DecideHolds == ASSUME LoopInv, NEW l \in Levels, Decide(l) PROVE LoopInv'
  <1>1. Typed /\ Handed(l) /\ OwnEvents(l, Segment(l)) /\ TypedAt(l) /\ Evidenced(l)
    BY SegmentEvents, Unmoved DEF LoopInv, LevelInv
  <1> DEFINE q == IF InHand(l).kind \in Asking THEN "card" ELSE "lease"
  <1>2. /\ pc[l] = "decide" /\ pc' = [pc EXCEPT ![l] = q] /\ Tell(l, Segment(l))
        /\ InHand(l).kind \in Asking \cup {"observe"}
        /\ turn' = turn /\ convo' = convo /\ todo' = todo
        /\ asked' = [asked EXCEPT ![l] = Proposed(l, InHand(l))]
        /\ acted' = acted /\ manifest' = manifest /\ consents' = consents
        /\ file' = file /\ acts' = acts /\ calls' = calls /\ granted' = granted /\ grants' = grants
    BY DEF Decide, user, history
  <1>3. /\ q \in {"card", "lease"}
        /\ q = "lease" => InHand(l).kind = "observe"
        /\ q = "card" => InHand(l).kind \in Asking
    BY <1>2
  <1> HIDE DEF q
  <1>4. pc'[l] = q
    BY <1>1, <1>2 DEF Typed
  <1>5. PICK events : events = Segment(l)
    OBVIOUS
  <1>6. events = <<Event("tool.requested", InHand(l).serial), Event("risk.composed", InHand(l).serial),
                   Event("policy.decided", InHand(l).serial)>>
    <2>1. InHand(l).kind # "malformed"
      BY <1>2 DEF Asking
    <2>2. Segment(l) = DecisionEvents(InHand(l))
      BY <1>2, <2>1 DEF Segment
    <2> QED
      BY <1>5, <2>2, DecisionIs, Zenon
  <1>7. events \in Seq(EventRecord) /\ Len(events) = 3 /\ 1 + 3 = 4 /\ 3 \in Nat /\ 1 \in Nat
        /\ \A j \in 1..3 : j = 1 \/ j = 2 \/ j = 3
    BY <1>1, <1>5, <1>6 DEF OwnEvents
  <1>8. /\ events[1] = Event("tool.requested", InHand(l).serial)
        /\ events[2] = Event("risk.composed", InHand(l).serial)
        /\ events[3] = Event("policy.decided", InHand(l).serial)
    BY <1>6
  <1>9. ASSUME NEW types, types[2] = "tool.requested", types[3] = "risk.composed",
               types[4] = "policy.decided", EndsWith(l, types, 1)
        PROVE  OwnLedger(l) /\ EndsWith(l, types, 4)'
    <2>1. 1 + 1 = 2 /\ 1 + 2 = 3 /\ 1 + 3 = 4
      OBVIOUS
    <2>2. \A j \in 1..3 : events[j] = Event(types[1 + j], InHand(l).serial)
      BY <1>7, <1>8, <1>9, <2>1, Zenon
    <2>3. OwnLedger(l) /\ EndsWith(l, types, 1 + 3)'
      BY <1>1, <1>2, <1>5, <1>7, <1>9, <2>2, TellsNext
    <2> QED
      BY <1>7, <2>3
  <1>10. EndsWith(l, AllowedFirst, 1)
    BY <1>1, <1>2 DEF Evidenced
  <1>11. EndsWith(l, ApprovedFirst, 1)
    <2>1. \A k \in 1..1 : k = 1
      OBVIOUS
    <2>2. ApprovedFirst[1] = AllowedFirst[1]
      BY FirstTypes
    <2> QED
      BY <1>10, <2>1, <2>2, Zenon DEF EndsWith
  <1>12. OwnLedger(l) /\ EndsWith(l, AllowedFirst, 4)' /\ EndsWith(l, ApprovedFirst, 4)'
    <2>1. ApprovedFirst[2] = "tool.requested" /\ ApprovedFirst[3] = "risk.composed"
          /\ ApprovedFirst[4] = "policy.decided"
      BY DEF ApprovedFirst
    <2> QED
      BY <1>9, <1>10, <1>11, <2>1, FirstTypes
  <1>13. Evidenced(l)' /\ Consented(l)'
    BY <1>3, <1>4, <1>12 DEF Evidenced, Consented
  <1>14. file' = [k \in Levels |-> file'[k]] /\ acted'[l] \in BOOLEAN
         /\ asked' = [asked EXCEPT ![l] = asked'[l]]
    BY <1>1, <1>2 DEF Typed
  <1>15. /\ acted' = [acted EXCEPT ![l] = acted'[l]]
         /\ consents' = [consents EXCEPT ![l] = consents'[l]]
    BY <1>1, <1>2, Unmoved
  <1>16. q \in BeforeAct \cup AfterAct /\ pc[l] \in BeforeAct /\ q \notin AfterAct
    BY <1>2, <1>3 DEF BeforeAct, AfterAct
  <1> QED
    BY <1>2, <1>3, <1>12, <1>13, <1>14, <1>15, <1>16, Proceeds

LEMMA IssueLeaseHolds == ASSUME LoopInv, NEW l \in Levels, IssueLease(l) PROVE LoopInv'
  <1>1. Typed /\ Handed(l) /\ OwnEvents(l, Segment(l)) /\ TypedAt(l) /\ Evidenced(l)
    BY SegmentEvents, Unmoved DEF LoopInv, LevelInv
  <1>2. /\ pc[l] = "lease" /\ pc' = [pc EXCEPT ![l] = "act"] /\ Tell(l, Segment(l))
        /\ turn' = turn /\ convo' = convo /\ todo' = todo
        /\ asked' = asked /\ acted' = acted /\ manifest' = manifest /\ consents' = consents
        /\ file' = file /\ acts' = acts /\ calls' = calls /\ granted' = granted /\ grants' = grants
    BY DEF IssueLease, user, history
  <1>3. InHand(l).kind = "observe" /\ "observe" \notin Asking
    BY <1>1, <1>2 DEF Handed, Asking
  <1>4. pc'[l] = "act" /\ InHand(l)' = InHand(l)
    BY <1>1, <1>2, InHandStays DEF Typed
  <1>5. PICK events : events = Segment(l)
    OBVIOUS
  <1>6. events = <<Event("lease.issued", InHand(l).serial)>>
    BY <1>2, <1>5 DEF Segment
  <1>7. events \in Seq(EventRecord) /\ Len(events) = 1 /\ 4 + 1 = 5 /\ 1 \in Nat /\ 4 \in Nat
        /\ \A j \in 1..1 : j = 1
    BY <1>1, <1>5, <1>6 DEF OwnEvents
  <1>8. events[1] = Event(AllowedFirst[4 + 1], InHand(l).serial)
    BY <1>6, <1>7, FirstTypes
  <1>9. OwnLedger(l) /\ EndsWith(l, AllowedFirst, 4 + 1)'
    BY <1>1, <1>2, <1>5, <1>7, <1>8, TellsNext DEF Evidenced
  <1>10. EndsWith(l, AllowedFirst, 5)'
    BY <1>7, <1>9
  <1>11. Evidenced(l)' /\ Consented(l)'
    BY <1>3, <1>4, <1>10 DEF Evidenced, Consented
  <1>12. file' = [k \in Levels |-> file'[k]] /\ acted'[l] \in BOOLEAN
    BY <1>1, <1>2 DEF Typed
  <1>13. /\ asked' = [asked EXCEPT ![l] = asked'[l]] /\ acted' = [acted EXCEPT ![l] = acted'[l]]
         /\ consents' = [consents EXCEPT ![l] = consents'[l]]
    BY <1>1, <1>2, Unmoved
  <1> QED
    BY <1>2, <1>3, <1>9, <1>11, <1>12, <1>13, Proceeds DEF BeforeAct, AfterAct

LEMMA PresentCardHolds == ASSUME LoopInv, NEW l \in Levels, PresentCard(l) PROVE LoopInv'
  <1>1. Typed /\ Handed(l) /\ OwnEvents(l, Segment(l)) /\ TypedAt(l) /\ Evidenced(l)
    BY SegmentEvents, Unmoved DEF LoopInv, LevelInv
  <1>2. /\ pc[l] = "card" /\ pc' = [pc EXCEPT ![l] = "propose"] /\ Tell(l, Segment(l))
        /\ turn' = turn /\ convo' = convo /\ todo' = todo
        /\ asked' = asked /\ acted' = acted /\ manifest' = manifest /\ consents' = consents
        /\ file' = file /\ acts' = acts /\ calls' = calls /\ granted' = granted /\ grants' = grants
    BY DEF PresentCard, user, history
  <1>3. InHand(l).kind \in Asking
    BY <1>1, <1>2 DEF Handed
  <1>4. pc'[l] = "propose" /\ InHand(l)' = InHand(l)
    BY <1>1, <1>2, InHandStays DEF Typed
  <1>5. PICK events : events = Segment(l)
    OBVIOUS
  <1>6. events = <<Event("policy.decided", InHand(l).serial)>>
    BY <1>2, <1>5 DEF Segment
  <1>7. events \in Seq(EventRecord) /\ Len(events) = 1 /\ 4 + 1 = 5 /\ 1 \in Nat /\ 4 \in Nat
        /\ \A j \in 1..1 : j = 1
    BY <1>1, <1>5, <1>6 DEF OwnEvents
  <1>8. events[1] = Event(ApprovedFirst[4 + 1], InHand(l).serial)
    BY <1>6, <1>7, FirstTypes
  <1>9. OwnLedger(l) /\ EndsWith(l, ApprovedFirst, 4 + 1)'
    BY <1>1, <1>2, <1>5, <1>7, <1>8, TellsNext DEF Evidenced
  <1>10. EndsWith(l, ApprovedFirst, 5)'
    BY <1>7, <1>9
  <1>11. Evidenced(l)' /\ Consented(l)'
    BY <1>4, <1>10 DEF Evidenced, Consented
  <1>12. file' = [k \in Levels |-> file'[k]] /\ acted'[l] \in BOOLEAN
    BY <1>1, <1>2 DEF Typed
  <1>13. /\ asked' = [asked EXCEPT ![l] = asked'[l]] /\ acted' = [acted EXCEPT ![l] = acted'[l]]
         /\ consents' = [consents EXCEPT ![l] = consents'[l]]
    BY <1>1, <1>2, Unmoved
  <1> QED
    BY <1>2, <1>3, <1>9, <1>11, <1>12, <1>13, Proceeds DEF BeforeAct, AfterAct

\* An approval puts the consent on file.
LEMMA ApproveHolds ==
    ASSUME LoopInv, NEW l \in Levels, NEW by, Approve(l, by), pc[l] = "propose",
           by = "grant" => Tool(InHand(l).kind) \in grants,
           turn' = turn, convo' = convo, todo' = todo, asked' = asked, acted' = acted,
           journal' = journal, recorded' = recorded, manifest' = manifest, file' = file,
           acts' = acts, calls' = calls, grants \subseteq grants'
    PROVE  LoopInv'
  <1>1. Typed /\ Handed(l) /\ TypedAt(l) /\ Evidenced(l)
    BY Unmoved DEF LoopInv, LevelInv
  <1> DEFINE name == ConsentName(l)
             added == [n \in DOMAIN consents[l] \cup {name} |->
                         IF n = name THEN InHand(l).serial ELSE consents[l][n]]
  <1>2. /\ pc' = [pc EXCEPT ![l] = "approved"]
        /\ granted' = granted \cup {Approval(l, by)}
        /\ consents' = [consents EXCEPT ![l] = added]
    BY DEF Approve
  <1>3. added[name] = InHand(l).serial
    OBVIOUS
  <1> HIDE DEF added
  <1>4. consents'[l] = added /\ consents' = [consents EXCEPT ![l] = consents'[l]]
    BY <1>1, <1>2 DEF Typed
  <1>5. pc'[l] = "approved" /\ InHand(l)' = InHand(l) /\ ConsentName(l)' = ConsentName(l)
        /\ asked'[l] = asked[l]
    BY <1>1, <1>2, InHandStays DEF Typed
  <1>6. OwnLedger(l)
    BY <1>1, QuietGrows
  <1>7. EndsWith(l, ApprovedFirst, 5)'
    <2>1. EndsWith(l, ApprovedFirst, 5)
      BY <1>1 DEF Evidenced
    <2> QED
      BY <1>5, <2>1, EndsSame
  <1>8. Evidenced(l)'
    BY <1>5, <1>7 DEF Evidenced
  <1>9. Consented(l)'
    <2>1. consents'[l][ConsentName(l)'] = InHand(l)'.serial
      BY <1>3, <1>4, <1>5
    <2>2. \E g \in granted' :
             /\ g.serial = InHand(l)'.serial /\ g.content = asked'[l]
             /\ g.by = "grant" => Tool(InHand(l)'.kind) \in grants'
      <3>1. /\ Approval(l, by) \in granted' /\ Approval(l, by).serial = InHand(l).serial
            /\ Approval(l, by).content = asked[l] /\ Approval(l, by).by = by
        BY <1>2 DEF Approval
      <3> QED
        BY <1>5, <3>1
    <2> QED
      BY <2>1, <2>2 DEF Consented
  <1>10. file' = [k \in Levels |-> file'[k]] /\ acted'[l] \in BOOLEAN
    BY <1>1 DEF Typed
  <1>11. /\ asked' = [asked EXCEPT ![l] = asked'[l]] /\ acted' = [acted EXCEPT ![l] = acted'[l]]
    BY <1>1, Unmoved
  <1>12. InHand(l).kind \in Asking
    BY <1>1 DEF Handed
  <1> QED
    BY <1>2, <1>4, <1>6, <1>8, <1>9, <1>10, <1>11, <1>12, Proceeds DEF BeforeAct, AfterAct

LEMMA UnaskedHolds == ASSUME LoopInv, NEW l \in Levels, ApproveUnasked(l) PROVE LoopInv'
  <1>1. PICK by \in {"parent", "grant", "auto"} :
           Approve(l, by) /\ (by = "grant" => Tool(InHand(l).kind) \in grants)
    BY DEF ApproveUnasked
  <1>2. /\ pc[l] = "propose"
        /\ turn' = turn /\ convo' = convo /\ todo' = todo /\ asked' = asked /\ acted' = acted
        /\ journal' = journal /\ recorded' = recorded /\ manifest' = manifest /\ file' = file
        /\ acts' = acts /\ calls' = calls /\ grants' = grants
    BY DEF ApproveUnasked, user
  <1> QED
    BY <1>1, <1>2, ApproveHolds

\* A step of the call in hand that tells nothing and leaves it where nothing
\* is asked of it.
LEMMA QuietProceeds ==
    ASSUME LoopInv, NEW l \in Levels, NEW q \in {"denied", "back"}, pc' = [pc EXCEPT ![l] = q],
           turn' = turn, convo' = convo, todo' = todo, asked' = asked,
           acted' = [acted EXCEPT ![l] = acted'[l]], acted'[l] \in BOOLEAN,
           journal' = journal, recorded' = recorded, manifest' = manifest, consents' = consents,
           file' = file, acts' = acts, calls' = calls, granted' = granted, grants' = grants,
           q = "denied" => pc[l] = "propose", q = "back" => pc[l] = "child"
    PROVE  LoopInv'
  <1>1. Typed /\ Handed(l) /\ TypedAt(l)
    BY Unmoved DEF LoopInv, LevelInv
  <1>2. pc'[l] = q
    BY <1>1 DEF Typed
  <1>3. OwnLedger(l)
    BY <1>1, QuietGrows
  <1>4. Evidenced(l)' /\ Consented(l)'
    BY <1>2 DEF Evidenced, Consented
  <1>5. /\ asked' = [asked EXCEPT ![l] = asked'[l]] /\ consents' = [consents EXCEPT ![l] = consents'[l]]
    BY <1>1, Unmoved
  <1>6. file' = [k \in Levels |-> file'[k]]
    BY <1>1 DEF Typed
  <1> QED
    BY <1>3, <1>4, <1>5, <1>6, Proceeds DEF BeforeAct, AfterAct

LEMMA UserHolds ==
    ASSUME LoopInv, UserApproves \/ GrantNotSaved \/ UserDenies \/ EofDenies
    PROVE  LoopInv'
  <1>1. 1 \in Levels
    BY AgentAssumption DEF AgentAssumption, Levels
  <1>2. Typed /\ Handed(1) /\ TypedAt(1) /\ acted = [acted EXCEPT ![1] = acted[1]]
    BY <1>1, Unmoved DEF LoopInv, LevelInv
  <1>3. acted[1] \in BOOLEAN
    BY <1>2 DEF TypedAt
  <1>4. CASE UserApproves
    <2>1. /\ Approve(1, "user") /\ pc[1] = "propose"
          /\ turn' = turn /\ convo' = convo /\ todo' = todo /\ asked' = asked /\ acted' = acted
          /\ journal' = journal /\ recorded' = recorded /\ manifest' = manifest /\ file' = file
          /\ acts' = acts /\ calls' = calls
      BY <1>4 DEF UserApproves, Waiting
    <2>2. grants \subseteq grants'
      BY <1>4 DEF UserApproves
    <2> QED
      BY <1>1, <2>1, <2>2, ApproveHolds
  <1>5. CASE GrantNotSaved
    <2>1. /\ pc[1] = "propose" /\ pc' = [pc EXCEPT ![1] = "over"]
          /\ turn' = turn /\ convo' = convo /\ todo' = todo /\ asked' = asked /\ acted' = acted
          /\ journal' = journal /\ recorded' = recorded
          /\ manifest' = manifest /\ consents' = consents /\ file' = file
          /\ acts' = acts /\ calls' = calls /\ granted' = granted
      BY <1>5 DEF GrantNotSaved, Waiting, disk
    <2>2. grants \subseteq grants'
      BY <1>5 DEF GrantNotSaved
    <2>3. OwnLedger(1)
      BY <1>1, <1>2, <2>1, QuietGrows
    <2> QED
      BY <1>1, <2>1, <2>2, <2>3, BreaksOff DEF Ended
  <1>6. CASE UserDenies \/ EofDenies
    <2>1. /\ pc[1] = "propose" /\ pc' = [pc EXCEPT ![1] = "denied"]
          /\ turn' = turn /\ convo' = convo /\ todo' = todo /\ asked' = asked /\ acted' = acted
          /\ journal' = journal /\ recorded' = recorded
          /\ manifest' = manifest /\ consents' = consents /\ file' = file
          /\ acts' = acts /\ calls' = calls /\ granted' = granted /\ grants' = grants
      BY <1>6 DEF UserDenies, EofDenies, Waiting, disk, user, history
    <2> QED
      BY <1>1, <1>2, <1>3, <2>1, QuietProceeds
  <1> QED
    BY <1>4, <1>5, <1>6

LEMMA ChildBackHolds == ASSUME LoopInv, NEW l \in Levels, ChildBack(l) PROVE LoopInv'
  <1>1. Typed
    BY DEF LoopInv
  <1>2. /\ pc[l] = "child" /\ pc' = [pc EXCEPT ![l] = "back"]
        /\ acted' = [acted EXCEPT ![l] = pc[l + 1] = "over"]
        /\ turn' = turn /\ convo' = convo /\ todo' = todo /\ asked' = asked
        /\ journal' = journal /\ recorded' = recorded
        /\ manifest' = manifest /\ consents' = consents /\ file' = file
        /\ acts' = acts /\ calls' = calls /\ granted' = granted /\ grants' = grants
    BY DEF ChildBack, disk, user, history
  <1>3. acted' = [acted EXCEPT ![l] = acted'[l]] /\ acted'[l] \in BOOLEAN
    <2> DEFINE b == pc[l + 1] = "over"
    <2>1. b \in BOOLEAN /\ acted' = [acted EXCEPT ![l] = b]
      BY <1>2
    <2> HIDE DEF b
    <2>2. acted'[l] = b
      BY <1>1, <2>1 DEF Typed
    <2> QED
      BY <2>1, <2>2
  <1> QED
    BY <1>2, <1>3, QuietProceeds

\* A step of the call in hand that ends in a failure to be reported.
LEMMA FailsHolds ==
    ASSUME LoopInv, NEW l \in Levels, ActFails(l) \/ ReportFails(l) PROVE LoopInv'
  <1>1. Typed /\ Handed(l) /\ TypedAt(l)
    BY Unmoved DEF LoopInv, LevelInv
  <1>2. /\ pc[l] \in {"act", "result"} /\ pc' = [pc EXCEPT ![l] = "caught"]
        /\ acted' = [acted EXCEPT ![l] = FALSE]
        /\ turn' = turn /\ convo' = convo /\ todo' = todo /\ asked' = asked
        /\ manifest' = manifest /\ consents' = consents
        /\ acts' = acts /\ calls' = calls /\ granted' = granted /\ grants' = grants
    BY DEF ActFails, ReportFails, disk, user
  <1>3. OwnLedger(l)
    <2>1. CASE ActFails(l)
      BY <1>1, <2>1, QuietGrows DEF ActFails, disk
    <2>2. CASE ReportFails(l)
      <3>1. PICK n \in 1..2, written \in BOOLEAN : Breaks(l, ResultEvents(InHand(l)), n, written)
        BY <2>2 DEF ReportFails
      <3>2. OwnEvents(l, ResultEvents(InHand(l)))
        BY <1>1, <2>2, ResultOwn DEF ReportFails
      <3>3. n \in Nat
        OBVIOUS
      <3> QED
        BY <1>1, <3>1, <3>2, <3>3, BreaksGrows
    <2> QED
      BY <2>1, <2>2
  <1>4. pc'[l] = "caught" /\ acted'[l] = FALSE /\ acted' = [acted EXCEPT ![l] = acted'[l]]
        /\ file' = [k \in Levels |-> file'[k]]
    <2>1. pc'[l] = "caught" /\ acted'[l] = FALSE /\ acted' = [acted EXCEPT ![l] = acted'[l]]
      BY <1>1, <1>2 DEF Typed
    <2>2. file' = file \/ file' = [file EXCEPT ![l] = {}]
      BY DEF ActFails, ReportFails, Where
    <2>3. file' = [k \in Levels |-> file'[k]]
      BY <1>1, <2>2 DEF Typed
    <2> QED
      BY <2>1, <2>3
  <1>5. Evidenced(l)' /\ Consented(l)'
    BY <1>4 DEF Evidenced, Consented
  <1>6. /\ asked' = [asked EXCEPT ![l] = asked'[l]] /\ consents' = [consents EXCEPT ![l] = consents'[l]]
    BY <1>1, <1>2, Unmoved
  <1> QED
    BY <1>2, <1>3, <1>4, <1>5, <1>6, Proceeds DEF BeforeAct, AfterAct

LEMMA SnapshotHolds == ASSUME LoopInv, NEW l \in Levels, Snapshot(l) PROVE LoopInv'
  <1>1. Typed /\ Handed(l) /\ TypedAt(l) /\ Evidenced(l) /\ Consented(l)
    BY Unmoved DEF LoopInv, LevelInv
  <1> DEFINE events == <<Event("vcs.snapshot.created", InHand(l).serial)>>
  <1>2. /\ pc[l] = "snapshot" /\ pc' = [pc EXCEPT ![l] = "act"]
        /\ Tell(l, events) \/ \E written \in BOOLEAN : Breaks(l, events, 1, written)
        /\ turn' = turn /\ convo' = convo /\ todo' = todo
        /\ asked' = asked /\ acted' = acted /\ manifest' = manifest /\ consents' = consents
        /\ file' = file /\ acts' = acts /\ calls' = calls /\ granted' = granted /\ grants' = grants
    BY DEF Snapshot, user
  <1>3. OwnEvents(l, events)
    <2>1. todo[l] # <<>>
      BY <1>1, <1>2 DEF Handed, BeforeAct
    <2>2. InHand(l).serial \in Nat
      BY <1>1, <2>1, LengthTypes DEF CallRecord
    <2>3. "vcs.snapshot.created" \in EventTypes
      BY DEF EventTypes
    <2> QED
      BY <1>1, <2>1, <2>2, <2>3, OneEvent
  <1> HIDE DEF events
  <1>4. OwnLedger(l)
    BY <1>1, <1>2, <1>3, TellGrows, BreaksGrows
  <1>5. InHand(l).kind = "exec"
    BY <1>1, <1>2 DEF Handed
  <1>6. pc'[l] = "act" /\ InHand(l)' = InHand(l) /\ ConsentName(l)' = ConsentName(l)
        /\ asked'[l] = asked[l] /\ consents'[l] = consents[l]
    BY <1>1, <1>2, InHandStays DEF Typed
  <1>7. ToldFirst(l, InHand(l).serial, ApprovedFirst)'
    <2>1. EndsWith(l, ApprovedFirst, 8)
      BY <1>1, <1>2 DEF Evidenced
    <2>2. ToldFirst(l, InHand(l).serial, ApprovedFirst)
      BY <1>1, <2>1, EndsTold, FirstTypes
    <2>3. PICK s : s = InHand(l).serial
      OBVIOUS
    <2>4. recorded'[l] \in Nat /\ journal'[l] \in Seq(EventRecord) /\ Growing(l)
      BY <1>4 DEF OwnLedger
    <2>5. ToldFirst(l, s, ApprovedFirst)'
      BY <1>1, <2>2, <2>3, <2>4, ToldFirstStays, FirstTypes
    <2> QED
      BY <1>6, <2>3, <2>5
  <1>8. Evidenced(l)'
    BY <1>5, <1>6, <1>7 DEF Evidenced
  <1>9. Consented(l)'
    BY <1>1, <1>2, <1>6 DEF Consented
  <1>10. file' = [k \in Levels |-> file'[k]] /\ acted'[l] \in BOOLEAN
    BY <1>1, <1>2 DEF Typed
  <1>11. /\ asked' = [asked EXCEPT ![l] = asked'[l]] /\ acted' = [acted EXCEPT ![l] = acted'[l]]
         /\ consents' = [consents EXCEPT ![l] = consents'[l]]
    BY <1>1, <1>2, Unmoved
  <1> QED
    BY <1>2, <1>4, <1>5, <1>8, <1>9, <1>10, <1>11, Proceeds DEF BeforeAct, AfterAct

-----------------------------------------------------------------------------
(* Replies *)

\* What was told last is the result.
LEMMA ReportedNow ==
    ASSUME Typed, NEW l \in Levels, NEW events, Tells(l, events), OwnLedger(l),
           NEW e \in Nat \ {0}, Len(events) = e, NEW s,
           events[e].of = s, events[e].type \in Results
    PROVE  Reported(l, s)'
  <1> DEFINE n == Len(journal[l])
  <1>1. n \in Nat /\ Len(journal'[l]) = n + e /\ recorded'[l] = n + e
        /\ journal'[l][n + e] = events[e]
    BY LengthTypes DEF Tells
  <1> HIDE DEF n
  <1>2. n + e \in 1..recorded'[l] /\ \A j \in 1..recorded'[l] : j <= n + e
    BY <1>1
  <1> QED
    BY <1>1, <1>2 DEF Reported

LEMMA ReplyHolds ==
    ASSUME LoopInv, NEW l \in Levels, NEW ok \in BOOLEAN, Reply(l, ok), OwnLedger(l),
           turn' = turn, asked' = asked, acted' = acted, manifest' = manifest,
           consents' = consents, file' = file, acts' = acts, calls' = calls,
           granted' = granted, grants' = grants,
           pc[l] \in BeforeAct \cup AfterAct \cup {"settle"},
           pc[l] \in AfterAct => \A s : s = InHand(l).serial => Reported(l, s)',
           ok => pc[l] \in AfterAct \ {"caught"}
    PROVE  LoopInv'
  <1>1. Typed /\ LevelInv(l) /\ Handed(l) /\ TypedAt(l) /\ todo[l] # <<>> /\ Growing(l)
    BY Unmoved DEF LoopInv, LevelInv, Handed, OwnLedger
  <1> DEFINE q == IF Len(todo[l]) = 1 THEN "turn" ELSE "settle"
             said == Said("tool", <<InHand(l)>>, ok)
  <1>2. /\ convo' = [convo EXCEPT ![l] = Append(convo[l], said)]
        /\ todo' = [todo EXCEPT ![l] = Tail(todo[l])]
        /\ pc' = [pc EXCEPT ![l] = q]
    BY DEF Reply
  <1>3. convo'[l] = Append(convo[l], said) /\ todo'[l] = Tail(todo[l]) /\ pc'[l] = q
    BY <1>1, <1>2 DEF Typed
  <1>4. /\ convo' = [convo EXCEPT ![l] = convo'[l]] /\ todo' = [todo EXCEPT ![l] = todo'[l]]
        /\ pc' = [pc EXCEPT ![l] = pc'[l]]
    BY <1>2, <1>3
  <1>5. Replies(l, ok)
    BY <1>1, <1>3 DEF Replies
  <1>6. said \in Message
    <2>1. InHand(l) \in CallRecord
      BY <1>1, LengthTypes
    <2>2. <<InHand(l)>> \in Seq(CallRecord)
      BY <2>1
    <2> QED
      BY <2>2 DEF Said, Message
  <1>7. convo'[l] \in Seq(Message) /\ todo'[l] \in Seq(CallRecord)
    <2>1. convo[l] \in Seq(Message) /\ todo[l] \in Seq(CallRecord)
      BY <1>1, LengthTypes
    <2> HIDE DEF said
    <2> QED
      BY <1>1, <1>3, <1>6, <2>1, AppendProperties, HeadTailProperties
  <1>8. q \in {"turn", "settle"}
    OBVIOUS
  <1>9. /\ q = "turn" => todo'[l] = <<>>
        /\ q = "settle" => todo'[l] # <<>>
    <2>1. Len(todo'[l]) = Len(todo[l]) - 1 /\ (Len(todo[l]) # 1 => todo'[l] # <<>>)
      BY <1>1, <1>3, TailLeaves
    <2>2. Len(todo[l]) = 1 => todo'[l] = <<>>
      <3>1. Len(todo[l]) = 1 => Len(todo'[l]) = 0
        BY <2>1
      <3> QED
        BY <1>7, <3>1, EmptySeq
    <2> QED
      BY <2>1, <2>2
  <1> HIDE DEF q, said
  <1>10. Only(l)
    <2>1. file' = [k \in Levels |-> file'[k]]
      BY <1>1 DEF Typed
    <2> QED
      BY <1>1, <1>4, <2>1, Unmoved DEF Only, OwnLedger
  <1>11. TypedAt(l)'
    <2>1. q \in Points
      BY <1>8 DEF Points
    <2> QED
      BY <1>1, <1>3, <1>7, <2>1 DEF TypedAt, OwnLedger
  <1>12. pc[l] \notin Ended \cup {"off"} /\ manifest[l] = "running"
    BY <1>1 DEF Handed, BeforeAct, AfterAct, Ended
  <1>13. Handed(l)'
    <2>1. recorded'[l] <= Len(journal'[l])
      BY <1>1 DEF Growing
    <2> QED
      BY <1>3, <1>8, <1>9, <1>12, <2>1 DEF Handed, BeforeAct, AfterAct, Idle
  <1>14. Evidenced(l)' /\ Consented(l)'
    BY <1>3, <1>8 DEF Evidenced, Consented
  <1>15. Closed(l)'
    BY <1>12 DEF Closed
  <1>16. Typed' /\ calls \in Nat
    BY <1>1, <1>10, <1>11, OnlyTyped DEF OwnDone, Typed
  <1>17. LevelInv(l)'
    BY <1>1, <1>5, <1>13, <1>14, <1>15, <1>16, RepliesNumbered, RepliesAnswering, RepliesAccounted
       DEF LevelInv
  <1>18. MoreShared
    BY <1>16 DEF MoreShared
  <1> QED
    BY <1>10, <1>11, <1>16, <1>17, <1>18, LevelStep DEF OwnDone

LEMMA RepliesHold ==
    ASSUME LoopInv, NEW l \in Levels,
           Reject(l) \/ Refuse(l) \/ EditFails(l) \/ Deny(l) \/ Report(l) \/ ReportFailure(l)
             \/ ReportChild(l)
    PROVE  LoopInv'
  <1>1. Typed /\ Handed(l) /\ OwnEvents(l, Segment(l)) /\ TypedAt(l)
    BY SegmentEvents, Unmoved DEF LoopInv, LevelInv
  <1>2. /\ turn' = turn /\ asked' = asked /\ acted' = acted /\ manifest' = manifest
        /\ consents' = consents /\ file' = file /\ acts' = acts /\ calls' = calls
        /\ granted' = granted /\ grants' = grants
    BY DEF Reject, Refuse, EditFails, Deny, Report, ReportFailure, ReportChild, user, history
  <1>3. CASE Reject(l) \/ Refuse(l) \/ EditFails(l) \/ Deny(l)
    <2>1. Reply(l, FALSE) /\ pc[l] \in {"settle", "decide", "denied"}
      BY <1>3 DEF Reject, Refuse, EditFails, Deny
    <2>2. Tell(l, Segment(l)) \/ (journal' = journal /\ recorded' = recorded)
      BY <1>3 DEF Reject, Refuse, EditFails, Deny
    <2>3. OwnLedger(l)
      BY <1>1, <2>2, TellGrows, QuietGrows
    <2> QED
      BY <1>2, <2>1, <2>3, ReplyHolds DEF BeforeAct, AfterAct
  <1>4. CASE Report(l)
    <2>1. Reply(l, TRUE) /\ pc[l] = "result" /\ Tell(l, ResultEvents(InHand(l)))
      BY <1>4 DEF Report
    <2>2. OwnEvents(l, ResultEvents(InHand(l)))
      BY <1>1, <2>1, ResultOwn
    <2>3. OwnLedger(l) /\ Tells(l, ResultEvents(InHand(l)))
      BY <1>1, <2>1, <2>2, TellGrows
    <2>4. PICK events, s : events = ResultEvents(InHand(l)) /\ s = InHand(l).serial
      OBVIOUS
    <2>5. \E e \in Nat \ {0} : Len(events) = e /\ events[e].of = s /\ events[e].type \in Results
      <3>1. CASE InHand(l).kind \in {"write", "edit"}
        <4>1. events = <<Event("action.recorded", s), Event("verification.recorded", s)>>
          BY <2>4, <3>1 DEF ResultEvents
        <4>2. Len(events) = 2 /\ events[2] = Event("verification.recorded", s)
          BY <4>1
        <4> QED
          BY <4>2 DEF Event, Results
      <3>2. CASE InHand(l).kind \notin {"write", "edit"}
        <4>1. events = <<Event("tool.result", s)>>
          BY <2>4, <3>2 DEF ResultEvents
        <4>2. Len(events) = 1 /\ events[1] = Event("tool.result", s)
          BY <4>1
        <4> QED
          BY <4>2 DEF Event, Results
      <3> QED
        BY <3>1, <3>2
    <2>6. Reported(l, s)'
      BY <1>1, <2>3, <2>4, <2>5, ReportedNow
    <2> QED
      BY <1>2, <2>1, <2>3, <2>4, <2>6, ReplyHolds DEF BeforeAct, AfterAct
  <1>5. CASE ReportFailure(l) \/ ReportChild(l)
    <2>1. PICK ok \in BOOLEAN :
             /\ Reply(l, ok) /\ Tell(l, Segment(l)) /\ pc[l] \in {"caught", "back"}
             /\ ok => pc[l] = "back"
      BY <1>1, <1>5 DEF ReportFailure, ReportChild, TypedAt
    <2>2. OwnLedger(l) /\ Tells(l, Segment(l))
      BY <1>1, <2>1, TellGrows
    <2>3. PICK events, s : events = Segment(l) /\ s = InHand(l).serial
      OBVIOUS
    <2>4. events = <<Event("tool.result", s)>>
      BY <2>1, <2>3 DEF Segment
    <2>5. Len(events) = 1 /\ events[1].of = s /\ events[1].type \in Results /\ 1 \in Nat \ {0}
      BY <2>4 DEF Event, Results
    <2>6. Reported(l, s)'
      BY <1>1, <2>2, <2>3, <2>5, ReportedNow
    <2> QED
      BY <1>2, <2>1, <2>2, <2>3, <2>6, ReplyHolds DEF BeforeAct, AfterAct
  <1> QED
    BY <1>3, <1>4, <1>5

LEMMA ConsentHolds == ASSUME LoopInv, NEW l \in Levels, Consent(l) PROVE LoopInv'
  <1>1. Typed /\ Handed(l) /\ OwnEvents(l, Segment(l)) /\ TypedAt(l) /\ Evidenced(l) /\ Consented(l)
    BY SegmentEvents, Unmoved DEF LoopInv, LevelInv
  <1>2. /\ pc[l] = "approved" /\ Tell(l, Segment(l)) /\ InHand(l).kind \in Asking
        /\ turn' = turn /\ asked' = asked /\ acted' = acted /\ manifest' = manifest
        /\ consents' = consents /\ file' = file /\ acts' = acts /\ calls' = calls
        /\ granted' = granted /\ grants' = grants
    BY <1>1 DEF Consent, user, history, Handed
  <1>3. CASE InHand(l).kind = "outside"
    <2>1. Reply(l, FALSE)
      BY <1>3 DEF Consent
    <2>2. OwnLedger(l)
      BY <1>1, <1>2, TellGrows
    <2> QED
      BY <1>2, <2>1, <2>2, ReplyHolds DEF BeforeAct, AfterAct
  <1>4. CASE InHand(l).kind # "outside"
    <2> DEFINE q == IF InHand(l).kind = "exec" THEN "snapshot" ELSE "act"
    <2>1. pc' = [pc EXCEPT ![l] = q] /\ convo' = convo /\ todo' = todo
      BY <1>4 DEF Consent
    <2>2. /\ q \in {"snapshot", "act"}
          /\ q = "snapshot" => InHand(l).kind = "exec"
          /\ q = "act" => InHand(l).kind \in {"write", "edit", "spawn"}
      BY <1>2, <1>4 DEF Asking
    <2> HIDE DEF q
    <2>3. pc'[l] = q /\ InHand(l)' = InHand(l) /\ ConsentName(l)' = ConsentName(l)
          /\ asked'[l] = asked[l] /\ consents'[l] = consents[l]
      BY <1>1, <1>2, <2>1, InHandStays DEF Typed
    <2>4. PICK events : events = Segment(l)
      OBVIOUS
    <2>5. events = <<Event("consent.recorded", InHand(l).serial),
                     Event("policy.decided", InHand(l).serial),
                     Event("lease.issued", InHand(l).serial)>>
      <3>1. Segment(l) = ApprovalEvents(InHand(l))
        BY <1>2 DEF Segment
      <3> QED
        BY <1>4, <2>4, <3>1, ApprovalIs
    <2>6. events \in Seq(EventRecord) /\ Len(events) = 3 /\ 5 + 3 = 8 /\ 3 \in Nat /\ 5 \in Nat
          /\ 5 + 1 = 6 /\ 5 + 2 = 7 /\ \A j \in 1..3 : j = 1 \/ j = 2 \/ j = 3
      BY <1>1, <2>4, <2>5 DEF OwnEvents
    <2>7. /\ events[1] = Event("consent.recorded", InHand(l).serial)
          /\ events[2] = Event("policy.decided", InHand(l).serial)
          /\ events[3] = Event("lease.issued", InHand(l).serial)
      BY <2>5
    <2>8. \A j \in 1..3 : events[j] = Event(ApprovedFirst[5 + j], InHand(l).serial)
      BY <2>6, <2>7, FirstTypes, ZenonT(30)
    <2>9. EndsWith(l, ApprovedFirst, 5)
      BY <1>1, <1>2 DEF Evidenced
    <2>10. OwnLedger(l) /\ EndsWith(l, ApprovedFirst, 5 + 3)'
      BY <1>1, <1>2, <2>1, <2>4, <2>6, <2>8, <2>9, TellsNext
    <2>11. EndsWith(l, ApprovedFirst, 8)'
      BY <2>6, <2>10
    <2>12. Evidenced(l)'
      BY <2>2, <2>3, <2>11 DEF Evidenced
    <2>13. Consented(l)'
      BY <1>1, <1>2, <2>3 DEF Consented
    <2>14. file' = [k \in Levels |-> file'[k]] /\ acted'[l] \in BOOLEAN
      BY <1>1, <1>2 DEF Typed
    <2>15. /\ asked' = [asked EXCEPT ![l] = asked'[l]] /\ acted' = [acted EXCEPT ![l] = acted'[l]]
           /\ consents' = [consents EXCEPT ![l] = consents'[l]]
      BY <1>1, <1>2, Unmoved
    <2>16. q \in BeforeAct \cup AfterAct /\ pc[l] \in BeforeAct /\ q \notin AfterAct
           /\ q \notin {"card", "propose", "approved", "lease"}
      BY <1>2, <2>2 DEF BeforeAct, AfterAct
    <2> QED
      BY <1>2, <2>1, <2>2, <2>10, <2>12, <2>13, <2>14, <2>15, <2>16, Proceeds
  <1> QED
    BY <1>3, <1>4
-----------------------------------------------------------------------------
(* Acts *)

\* The act of the call in hand, told of later.
LEMMA ActedHolds ==
    ASSUME LoopInv, NEW l \in Levels, Write(l) \/ Observe(l) \/ Exec(l) PROVE LoopInv'
  <1>1. Typed /\ LevelInv(l) /\ Handed(l) /\ TypedAt(l)
    BY Unmoved DEF LoopInv, LevelInv
  <1>2. /\ pc[l] = "act" /\ acts' = acts \cup {Act(l)}
        /\ turn' = turn /\ convo' = convo /\ todo' = todo /\ asked' = asked
        /\ journal' = journal /\ recorded' = recorded /\ manifest' = manifest
        /\ consents' = consents /\ calls' = calls /\ granted' = granted /\ grants' = grants
    BY DEF Write, Observe, Exec, disk, user
  <1>3. PICK q \in {"result", "caught"}, ok \in BOOLEAN :
           pc' = [pc EXCEPT ![l] = q] /\ acted' = [acted EXCEPT ![l] = ok]
    <2>1. CASE Write(l) \/ Observe(l)
      <3>1. pc' = [pc EXCEPT ![l] = "result"] /\ acted' = [acted EXCEPT ![l] = TRUE]
        BY <2>1 DEF Write, Observe
      <3> QED
        BY <3>1, Zenon
    <2>2. CASE Exec(l)
      <3>1. PICK ok \in BOOLEAN : /\ acted' = [acted EXCEPT ![l] = ok]
                                  /\ pc' = [pc EXCEPT ![l] = IF ok THEN "result" ELSE "caught"]
        BY <2>2, Zenon DEF Exec
      <3>2. CASE ok
        <4>1. pc' = [pc EXCEPT ![l] = "result"]
          BY <3>1, <3>2
        <4> QED
          BY <3>1, <4>1, Zenon
      <3>3. CASE ~ok
        <4>1. pc' = [pc EXCEPT ![l] = "caught"]
          BY <3>1, <3>3
        <4> QED
          BY <3>1, <4>1, Zenon
      <3> QED
        BY <3>2, <3>3
    <2> QED
      BY <2>1, <2>2
  <1>4. file' = [k \in Levels |-> file'[k]]
    <2>1. CASE Write(l)
      BY <1>1, <2>1 DEF Write, Where, Typed
    <2>2. CASE Observe(l)
      BY <1>1, <2>2 DEF Observe, Typed
    <2>3. CASE Exec(l)
      <3>1. PICK touched \in SUBSET {1, l} :
               file' = [k \in Levels |-> IF k \in touched THEN file[k] \cup {InHand(l).serial}
                                         ELSE file[k]]
        BY <2>3, Zenon DEF Exec
      <3> QED
        BY <3>1
    <2> QED
      BY <2>1, <2>2, <2>3
  <1>5. OwnLedger(l)
    BY <1>1, <1>2, QuietGrows
  <1>6. /\ pc'[l] = q /\ pc' = [pc EXCEPT ![l] = pc'[l]]
        /\ acted'[l] \in BOOLEAN /\ acted' = [acted EXCEPT ![l] = acted'[l]]
    BY <1>1, <1>3 DEF Typed
  <1>7. Only(l)
    BY <1>1, <1>2, <1>4, <1>5, <1>6, Unmoved DEF Only, OwnLedger
  <1>8. TypedAt(l)'
    BY <1>1, <1>2, <1>5, <1>6 DEF TypedAt, OwnLedger, Points
  <1>9. Handed(l)'
    BY <1>1, <1>2, <1>3, <1>5, HandedStays
       DEF Points, Ended, BeforeAct, AfterAct, Idle
  <1>10. Evidenced(l)' /\ Consented(l)'
    BY <1>6 DEF Evidenced, Consented
  <1>11. Closed(l)'
    BY <1>1, <1>2 DEF Handed, Closed, Ended
  <1>12. Carries(l)
    BY <1>1, <1>2, <1>5, <1>6 DEF Carries, OwnLedger, BeforeAct, AfterAct, Ended
  <1>13. MoreShared /\ OwnDone(l)
    BY <1>1, <1>2 DEF MoreShared, OwnDone, Typed
  <1> QED
    BY <1>7, <1>8, <1>9, <1>10, <1>11, <1>12, <1>13, CarriesKeeps

-----------------------------------------------------------------------------
(* New messages *)

LEMMA AsksHolds ==
    ASSUME LoopInv, NEW l \in Levels, NEW q \in {"turn", "answered", "settle"},
           pc' = [pc EXCEPT ![l] = q], NEW m, Asks(l, m),
           convo' = [convo EXCEPT ![l] = convo'[l]], todo' = [todo EXCEPT ![l] = todo'[l]],
           q = "settle" <=> m.of # <<>>,
           turn' = turn, asked' = asked, acted' = acted, OwnLedger(l), manifest' = manifest,
           consents' = consents, file' = file, granted' = granted, grants' = grants,
           pc[l] \notin Ended \cup {"off"}
    PROVE  LoopInv'
  <1>1. Typed /\ LevelInv(l) /\ Handed(l) /\ TypedAt(l)
    BY Unmoved DEF LoopInv, LevelInv
  <1>2. pc'[l] = q /\ pc' = [pc EXCEPT ![l] = pc'[l]] /\ manifest[l] = "running"
    BY <1>1 DEF Typed, Handed
  <1>3. /\ m \in Message /\ m.of \in Seq(CallRecord) /\ todo'[l] = m.of /\ acts' = acts
        /\ convo'[l] = Append(convo[l], m) /\ calls' = calls + Len(m.of)
    BY DEF Asks, Message
  <1>4. convo'[l] \in Seq(Message) /\ todo'[l] \in Seq(CallRecord)
    BY <1>1, <1>3, LengthTypes, AppendProperties
  <1>5. calls' \in Nat /\ calls <= calls'
    BY <1>1, <1>3, LengthTypes, LenProperties
  <1>6. Only(l)
    <2>1. file' = [k \in Levels |-> file'[k]]
      BY <1>1 DEF Typed
    <2> QED
      BY <1>1, <1>2, <2>1, Unmoved DEF Only, OwnLedger
  <1>7. TypedAt(l)'
    BY <1>1, <1>2, <1>4 DEF TypedAt, OwnLedger, Points, Ended
  <1>8. Handed(l)'
    BY <1>2, <1>3 DEF Handed, OwnLedger, Growing, BeforeAct, AfterAct, Idle, Ended
  <1>9. Evidenced(l)' /\ Consented(l)'
    BY <1>2 DEF Evidenced, Consented
  <1>10. Closed(l)'
    BY <1>2 DEF Closed
  <1>11. Typed'
    BY <1>1, <1>3, <1>5, <1>6, <1>7, OnlyTyped DEF OwnDone
  <1>12. LevelInv(l)'
    BY <1>1, <1>8, <1>9, <1>10, <1>11, AsksNumbered, AsksAnswering, AsksAccounted DEF LevelInv
  <1>13. MoreShared
    BY <1>5 DEF MoreShared
  <1> QED
    BY <1>3, <1>5, <1>6, <1>7, <1>12, <1>13, LevelStep DEF OwnDone
LEMMA AnswerTypes ==
    ASSUME Typed, NEW l \in Levels, NEW cs \in Answers(l)
    PROVE  /\ cs \in Seq(CallRecord)
           /\ \A k \in 1..Len(cs) : cs[k].serial = calls + k
  <1>1. calls \in Nat
    BY DEF Typed
  <1>2. PICK n \in {m \in 0..MaxTurnCalls : calls + m <= MaxCalls} :
           /\ cs \in [1..n -> [id : Ids, kind : Kinds, serial : {calls + k : k \in 1..n}]]
           /\ \A k \in 1..n : cs[k].serial = calls + k
    BY DEF Answers
  <1>3. n \in Nat
    BY <1>2, AgentAssumption DEF AgentAssumption
  <1>4. [id : Ids, kind : Kinds, serial : {calls + k : k \in 1..n}] \subseteq CallRecord
    BY <1>1, <1>3, AgentAssumption DEF AgentAssumption, Ids, CallRecord
  <1>5. cs \in [1..n -> CallRecord]
    BY <1>2, <1>4
  <1>6. cs \in Seq(CallRecord) /\ Len(cs) = n
    BY <1>3, <1>5
  <1> QED
    BY <1>2, <1>6

LEMMA BeginRespondHold ==
    ASSUME LoopInv, NEW l \in Levels, Begin(l) \/ Respond(l) PROVE LoopInv'
  <1>1. Typed /\ LevelInv(l) /\ Handed(l) /\ TypedAt(l) /\ OwnEvents(l, Segment(l)) /\ calls \in Nat
    BY SegmentEvents, Unmoved DEF LoopInv, LevelInv, Typed
  <1>2. /\ turn' = turn /\ asked' = asked /\ acted' = acted /\ manifest' = manifest
        /\ consents' = consents /\ file' = file /\ acts' = acts
        /\ granted' = granted /\ grants' = grants /\ Tell(l, Segment(l))
    BY DEF Begin, Respond, user, history
  <1>3. OwnLedger(l)
    BY <1>1, <1>2, TellGrows
  <1>4. pc[l] \in {"start", "model"} /\ pc[l] \notin Ended \cup {"off"} /\ todo[l] = <<>>
    BY <1>1 DEF Begin, Respond, Ended, Handed, Idle
  <1>5. CASE Begin(l)
    <2> DEFINE m == Said("user", <<>>, TRUE)
    <2>1. /\ convo' = [convo EXCEPT ![l] = Append(convo[l], m)] /\ todo' = todo
          /\ pc' = [pc EXCEPT ![l] = "turn"] /\ calls' = calls
      BY <1>5 DEF Begin, history
    <2>2. m \in Message /\ m.of = <<>> /\ m.role = "user" /\ Len(m.of) = 0 /\ \A k : k \notin 1..0
      BY DEF Said, Message
    <2> HIDE DEF m
    <2>3. /\ convo'[l] = Append(convo[l], m) /\ convo' = [convo EXCEPT ![l] = convo'[l]]
          /\ todo' = [todo EXCEPT ![l] = todo'[l]] /\ todo'[l] = <<>> /\ pc'[l] = "turn"
      BY <1>1, <1>4, <2>1 DEF Typed
    <2>4. Asks(l, m)
      BY <1>1, <1>2, <1>3, <1>4, <2>1, <2>2, <2>3 DEF Asks, OwnLedger, BeforeAct, AfterAct
    <2> QED
      BY <1>2, <1>3, <1>4, <2>1, <2>2, <2>3, <2>4, AsksHolds
  <1>6. CASE Respond(l)
    <2>1. PICK cs \in Answers(l) :
             /\ calls' = calls + Len(cs)
             /\ convo' = [convo EXCEPT ![l] = Append(convo[l], Said("assistant", cs, TRUE))]
             /\ todo' = [todo EXCEPT ![l] = cs]
             /\ pc' = [pc EXCEPT ![l] = IF cs = <<>> THEN "answered" ELSE "settle"]
      <3>1. PICK cs \in Answers(l) :
               /\ calls' = calls + Len(cs)
               /\ convo' = [convo EXCEPT ![l] = Append(@, Said("assistant", cs, TRUE))]
               /\ todo' = [todo EXCEPT ![l] = cs]
               /\ IF cs = <<>> THEN pc' = [pc EXCEPT ![l] = "answered"]
                  ELSE pc' = [pc EXCEPT ![l] = "settle"]
        BY <1>6, Zenon DEF Respond
      <3> QED
        BY <3>1
    <2>2. cs \in Seq(CallRecord) /\ \A k \in 1..Len(cs) : cs[k].serial = calls + k
      BY <1>1, AnswerTypes
    <2> DEFINE m == Said("assistant", cs, TRUE)
               q == IF cs = <<>> THEN "answered" ELSE "settle"
    <2>3. m \in Message /\ m.of = cs /\ m.role = "assistant"
      BY <2>2 DEF Said, Message
    <2>4. q \in {"answered", "settle"} /\ (q = "settle" <=> cs # <<>>)
      OBVIOUS
    <2>5. convo' = [convo EXCEPT ![l] = Append(convo[l], m)] /\ pc' = [pc EXCEPT ![l] = q]
      BY <2>1
    <2> HIDE DEF m, q
    <2>6. /\ convo'[l] = Append(convo[l], m) /\ convo' = [convo EXCEPT ![l] = convo'[l]]
          /\ todo' = [todo EXCEPT ![l] = todo'[l]] /\ todo'[l] = cs /\ pc'[l] = q
      BY <1>1, <2>1, <2>5 DEF Typed
    <2>7. Asks(l, m)
      BY <1>1, <1>2, <1>3, <1>4, <2>1, <2>2, <2>3, <2>4, <2>6
         DEF Asks, OwnLedger, BeforeAct, AfterAct
    <2> QED
      BY <1>2, <1>3, <1>4, <2>3, <2>4, <2>5, <2>6, <2>7, AsksHolds
  <1> QED
    BY <1>5, <1>6

-----------------------------------------------------------------------------
(* Steps of no level, and the start of a child *)

LEMMA AsideHolds ==
    ASSUME LoopInv, CloseStdin \/ OutsideEdit \/ UNCHANGED vars PROVE LoopInv'
  <1>1. /\ pc' = pc /\ turn' = turn /\ convo' = convo /\ todo' = todo /\ asked' = asked
        /\ acted' = acted /\ journal' = journal /\ recorded' = recorded /\ manifest' = manifest
        /\ consents' = consents /\ acts' = acts /\ calls' = calls
        /\ granted' = granted /\ grants' = grants
    BY DEF CloseStdin, OutsideEdit, vars, memory, disk, user, history
  <1>2. Typed
    BY DEF LoopInv
  <1>3. DOMAIN file' = Levels /\ file' = [k \in Levels |-> file'[k]]
    <2>1. file' = file \/ file' = [file EXCEPT ![1] = file[1] \cup {0}]
      BY DEF CloseStdin, OutsideEdit, vars
    <2> QED
      BY <1>2, <2>1 DEF Typed
  <1>4. Typed'
    BY <1>1, <1>2, <1>3 DEF Typed
  <1>5. \A k \in Levels : Apart(k)
    BY <1>1 DEF Apart, OwnSame, OwnActs
  <1>6. MoreShared /\ calls' \in Nat
    BY <1>1, <1>2 DEF MoreShared, Typed
  <1> QED
    BY <1>2, <1>4, <1>5, <1>6, OthersKeep DEF LoopInv

\* A level whose run is new.
Fresh(k) ==
    /\ pc[k] \in {"off", "start"} /\ convo[k] = <<>> /\ todo[k] = <<>> /\ journal[k] = <<>>
    /\ recorded[k] = 0 /\ manifest[k] \in {"none", "running"}
    /\ pc[k] = "start" => manifest[k] = "running"
    /\ \A a \in acts : a.level # k

LEMMA FreshHolds ==
    ASSUME NEW k \in Levels, Fresh(k), calls \in Nat PROVE LevelInv(k)
  <1>1. Len(convo[k]) = 0 /\ Len(todo[k]) = 0 /\ Len(journal[k]) = 0 /\ 1..0 = {} /\ 2..0 = {}
    BY DEF Fresh
  <1>2. Handed(k)
    BY <1>1 DEF Fresh, Handed, BeforeAct, AfterAct, Ended
  <1>3. Numbered(k)
    BY <1>1 DEF Fresh, Numbered, BeforeAct, Left
  <1>4. Evidenced(k) /\ Consented(k)
    BY DEF Fresh, Evidenced, Consented
  <1>5. Answering(k)
    BY <1>1 DEF Fresh, Answering
  <1>6. Accounted(k)
    BY <1>1 DEF Fresh, Accounted, AfterAct
  <1>7. Closed(k)
    BY DEF Fresh, Closed
  <1> QED
    BY <1>2, <1>3, <1>4, <1>5, <1>6, <1>7 DEF LevelInv

LEMMA LoopInit == Init => LoopInv
  <1> SUFFICES ASSUME Init PROVE LoopInv
    OBVIOUS
  <1>1. Typed
    <2>1. \A l \in Levels : Start(l) \in Points
      BY DEF Start, Points
    <2>2. pc \in [Levels -> Points] /\ turn \in [Levels -> Nat]
      BY <2>1 DEF Init
    <2>3. <<>> \in Seq(Message) /\ <<>> \in Seq(CallRecord) /\ <<>> \in Seq(EventRecord)
      OBVIOUS
    <2>4. /\ convo \in [Levels -> Seq(Message)] /\ todo \in [Levels -> Seq(CallRecord)]
          /\ journal \in [Levels -> Seq(EventRecord)]
      BY <2>3 DEF Init
    <2>5. /\ recorded \in [Levels -> Nat] /\ acted \in [Levels -> BOOLEAN] /\ calls \in Nat
          /\ manifest \in [Levels -> {"none", "running", "completed", "blocked"}]
      BY DEF Init
    <2>6. /\ DOMAIN asked = Levels /\ asked = [l \in Levels |-> asked[l]]
          /\ DOMAIN consents = Levels /\ consents = [l \in Levels |-> consents[l]]
          /\ DOMAIN file = Levels /\ file = [l \in Levels |-> file[l]]
          /\ \A a \in acts : a.level \in Levels
      BY DEF Init
    <2> QED
      BY <2>2, <2>4, <2>5, <2>6 DEF Typed
  <1>2. \A k \in Levels : Fresh(k)
    BY DEF Init, Fresh, Start
  <1> QED
    BY <1>1, <1>2, FreshHolds DEF LoopInv, Typed
LEMMA FreshNext == \A k \in Levels : Fresh(k)' /\ calls' \in Nat => LevelInv(k)'
  <1>1. \A k \in Levels : Fresh(k) /\ calls \in Nat => LevelInv(k)
    BY FreshHolds
  <1>2. (\A k \in Levels : Fresh(k) /\ calls \in Nat => LevelInv(k))'
    BY <1>1, PTL
  <1> QED
    BY <1>2
LEMMA SpawnHolds == ASSUME LoopInv, NEW l \in Levels, Spawn(l) PROVE LoopInv'
  <1>1. Typed /\ LevelInv(l) /\ Handed(l) /\ calls \in Nat /\ l + 1 # l /\ l \in Nat
    BY DEF LoopInv, LevelInv, Typed, Levels
  <1> DEFINE c == l + 1
  <1> HIDE DEF c
  <1>2. /\ pc[l] = "act" /\ pc' = [pc EXCEPT ![l] = "child", ![c] = "start"]
        /\ turn' = [turn EXCEPT ![c] = 0] /\ convo' = [convo EXCEPT ![c] = <<>>]
        /\ todo' = [todo EXCEPT ![c] = <<>>] /\ journal' = [journal EXCEPT ![c] = <<>>]
        /\ recorded' = [recorded EXCEPT ![c] = 0] /\ manifest' = [manifest EXCEPT ![c] = "running"]
        /\ consents' = [consents EXCEPT ![c] = <<>>] /\ file' = [file EXCEPT ![c] = file[l]]
        /\ acts' = {a \in acts : a.level # c} \cup {Act(l)} /\ Act(l).level = l /\ c # l
        /\ asked' = asked /\ acted' = acted /\ granted' = granted /\ grants' = grants
        /\ calls' = calls
    BY <1>1 DEF Spawn, user, c, Act
  <1>3. Typed'
    <2>1. pc' \in [Levels -> Points] /\ turn' \in [Levels -> Nat]
      BY <1>1, <1>2 DEF Typed, Points
    <2>2. <<>> \in Seq(Message) /\ <<>> \in Seq(CallRecord) /\ <<>> \in Seq(EventRecord)
      OBVIOUS
    <2>3. /\ convo' \in [Levels -> Seq(Message)] /\ todo' \in [Levels -> Seq(CallRecord)]
          /\ journal' \in [Levels -> Seq(EventRecord)]
      BY <1>1, <1>2, <2>2 DEF Typed
    <2>4. /\ recorded' \in [Levels -> Nat] /\ acted' \in [Levels -> BOOLEAN] /\ calls' \in Nat
          /\ manifest' \in [Levels -> {"none", "running", "completed", "blocked"}]
      BY <1>1, <1>2 DEF Typed
    <2>5. /\ DOMAIN asked' = Levels /\ asked' = [k \in Levels |-> asked'[k]]
          /\ DOMAIN consents' = Levels /\ consents' = [k \in Levels |-> consents'[k]]
          /\ DOMAIN file' = Levels /\ file' = [k \in Levels |-> file'[k]]
      BY <1>1, <1>2 DEF Typed
    <2>6. \A a \in acts' : a.level \in Levels
      BY <1>1, <1>2 DEF Typed
    <2> QED
      BY <2>1, <2>3, <2>4, <2>5, <2>6 DEF Typed
  <1>4. ASSUME NEW k \in Levels, k # l, k # c PROVE LevelInv(k)'
    <2>1. OwnSame(k)
      BY <1>1, <1>2, <1>4 DEF OwnSame, Typed
    <2>2. OwnActs(k)' = OwnActs(k)
      BY <1>2, <1>4 DEF OwnActs
    <2>3. MoreShared /\ calls' \in Nat
      BY <1>1, <1>2 DEF MoreShared
    <2> QED
      BY <1>1, <2>1, <2>2, <2>3, OthersKeep DEF LoopInv, Apart
  <1>5. ASSUME c \in Levels PROVE LevelInv(c)'
    <2>1. Fresh(c)'
      BY <1>1, <1>2, <1>5 DEF Fresh, Typed
    <2> QED
      BY <1>1, <1>2, <1>5, <2>1, FreshNext
  <1>6. LevelInv(l)'
    <2>1. /\ pc'[l] = "child" /\ convo'[l] = convo[l] /\ todo'[l] = todo[l]
          /\ journal'[l] = journal[l] /\ recorded'[l] = recorded[l] /\ manifest'[l] = manifest[l]
      BY <1>1, <1>2 DEF Typed
    <2>2. Len(journal[l]) \in Nat /\ recorded[l] \in Nat
      BY <1>1, LengthTypes
    <2>3. Growing(l)
      BY <1>1, <2>1, <2>2 DEF Growing, Handed
    <2>4. Carries(l)
      BY <1>2, <2>1, <2>3 DEF Carries, BeforeAct, AfterAct, Ended
    <2>5. Numbered(l)' /\ Answering(l)' /\ Accounted(l)'
      BY <1>1, <1>3, <2>4, CarriesNumbered, CarriesAnswering, CarriesAccounted
    <2>6. Handed(l)'
      BY <1>1, <1>2, <2>1 DEF Handed, BeforeAct, AfterAct, Idle, Ended
    <2>7. Evidenced(l)' /\ Consented(l)'
      BY <2>1 DEF Evidenced, Consented
    <2>8. Closed(l)'
      BY <1>1, <1>2, <2>1 DEF Handed, Closed, Ended
    <2> QED
      BY <2>5, <2>6, <2>7, <2>8 DEF LevelInv
  <1> QED
    BY <1>3, <1>4, <1>5, <1>6 DEF LoopInv

LEMMA LoopKeeps == LoopInv /\ [Next]_vars => LoopInv'
  <1> SUFFICES ASSUME LoopInv, [Next]_vars PROVE LoopInv'
    OBVIOUS
  <1>1. ASSUME NEW l \in Levels, LoopStep(l) PROVE LoopInv'
    <2>1. CASE Begin(l) \/ Respond(l)
      BY <2>1, BeginRespondHold
    <2>2. CASE Request(l)
      BY <2>2, RequestKeeps
    <2>3. CASE Exhaust(l) \/ Complete(l)
      BY <2>3, ClosesKeeps
    <2>4. CASE Throw(l) \/ ProviderFails(l) \/ CloseFails(l) \/ SpawnFails(l)
      BY <2>4, BreaksOffKeeps
    <2>5. CASE Reject(l) \/ Refuse(l) \/ EditFails(l) \/ Deny(l) \/ Report(l) \/ ReportFailure(l)
                 \/ ReportChild(l)
      BY <2>5, RepliesHold
    <2>6. CASE Admit(l)
      BY <2>6, AdmitHolds
    <2>7. CASE Decide(l)
      BY <2>7, DecideHolds
    <2>8. CASE IssueLease(l)
      BY <2>8, IssueLeaseHolds
    <2>9. CASE PresentCard(l)
      BY <2>9, PresentCardHolds
    <2>10. CASE ApproveUnasked(l)
      BY <2>10, UnaskedHolds
    <2>11. CASE Consent(l)
      BY <2>11, ConsentHolds
    <2>12. CASE Snapshot(l)
      BY <2>12, SnapshotHolds
    <2>13. CASE Write(l) \/ Observe(l) \/ Exec(l)
      BY <2>13, ActedHolds
    <2>14. CASE ActFails(l) \/ ReportFails(l)
      BY <2>14, FailsHolds
    <2>15. CASE Spawn(l)
      BY <2>15, SpawnHolds
    <2>16. CASE ChildBack(l)
      BY <2>16, ChildBackHolds
    <2> QED
      BY <1>1, <2>1, <2>2, <2>3, <2>4, <2>5, <2>6, <2>7, <2>8, <2>9, <2>10, <2>11, <2>12, <2>13,
         <2>14, <2>15, <2>16 DEF LoopStep
  <1>2. CASE UserApproves \/ GrantNotSaved \/ UserDenies \/ EofDenies
    BY <1>2, UserHolds
  <1>3. CASE CloseStdin \/ OutsideEdit \/ UNCHANGED vars
    BY <1>3, AsideHolds
  <1> QED
    BY <1>1, <1>2, <1>3 DEF Next

\* What every level of the agent loop knows, has told and has done, at every moment.
THEOREM LoopInvariant == Spec => []LoopInv
  <1>1. Init => LoopInv
    BY LoopInit
  <1>2. LoopInv /\ [Next]_vars => LoopInv'
    BY LoopKeeps
  <1> QED
    BY <1>1, <1>2, PTL DEF Spec
-----------------------------------------------------------------------------
(* What follows from it *)

LEMMA LoopReplies == LoopInv => RepliesMatch
  <1> SUFFICES ASSUME LoopInv, NEW l \in Levels, pc[l] = "model",
                      NEW i \in 1..Len(convo[l]), convo[l][i].role = "assistant"
               PROVE  LET asks == convo[l][i].of
                          next == i + Len(asks) + 1
                      IN  /\ \A k \in 1..Len(asks) :
                                /\ i + k <= Len(convo[l])
                                /\ convo[l][i + k].role = "tool"
                                /\ convo[l][i + k].of = <<asks[k]>>
                          /\ next <= Len(convo[l]) => convo[l][next].role # "tool"
    BY DEF RepliesMatch
  <1> DEFINE asks == convo[l][i].of
             n == Len(convo[l])
  <1>1. Typed /\ Handed(l) /\ Answering(l)
    BY DEF LoopInv, LevelInv
  <1>2. n \in Nat /\ i \in Nat /\ Len(asks) \in Nat
    <2>1. n \in Nat /\ convo[l][i] \in Message
      BY <1>1, LengthTypes
    <2> QED
      BY <2>1, LenProperties DEF Message
  <1>3. Len(todo[l]) = 0
    <2>1. todo[l] = <<>>
      BY <1>1 DEF Handed, Idle
    <2> QED
      BY <2>1
  <1>4. /\ i + Len(asks) >= n => i + Len(asks) = n + 0
        /\ i + Len(asks) < n => convo[l][i + Len(asks) + 1].role # "tool"
        /\ \A k \in 1..Len(asks) :
              i + k <= n => convo[l][i + k].role = "tool" /\ convo[l][i + k].of = <<asks[k]>>
    BY <1>1, <1>3 DEF Answering, Answered
  <1> HIDE DEF asks, n
  <1>5. /\ \A k \in 1..Len(asks) : i + k <= n
        /\ i + Len(asks) + 1 <= n => i + Len(asks) < n
    BY <1>2, <1>4
  <1>6. /\ \A k \in 1..Len(asks) :
              i + k <= n /\ convo[l][i + k].role = "tool" /\ convo[l][i + k].of = <<asks[k]>>
        /\ i + Len(asks) + 1 <= n => convo[l][i + Len(asks) + 1].role # "tool"
    BY <1>4, <1>5
  <1> QED
    BY <1>6, Zenon DEF asks, n

LEMMA LoopManifest == LoopInv => ManifestTells
  <1> SUFFICES ASSUME LoopInv, NEW l \in Levels, manifest[l] \in {"completed", "blocked"}
               PROVE  /\ pc[l] = "over"
                      /\ ~Behind(l)
                      /\ Last(journal[l]).type = IF manifest[l] = "completed"
                                                 THEN "agent.loop.completed"
                                                 ELSE "agent.loop.depth_exceeded"
                      /\ manifest[l] = "completed" => Last(convo[l]).role = "assistant"
                      /\ \A a \in acts : a.level = l => Reported(l, a.serial)
    BY DEF ManifestTells
  <1>1. Closed(l) /\ Accounted(l)
    BY DEF LoopInv, LevelInv
  <1>2. pc[l] = "over" /\ manifest[l] # "running"
    BY <1>1 DEF Closed
  <1>3. \A a \in acts : a.level = l => Reported(l, a.serial)
    BY <1>1, <1>2 DEF Accounted, ActReported, AfterAct
  <1> QED
    BY <1>1, <1>3 DEF Closed, Last

LEMMA LoopSuccess == LoopInv => SuccessIsRecorded
  BY DEF LoopInv, LevelInv, Accounted, SuccessReported, SuccessIsRecorded, ActOf

\* What a step does newly is the call in hand of a level that acts.
LEMMA NewActs ==
    ASSUME [Next]_vars, NEW a \in acts' \ acts
    PROVE  \E l \in Levels : pc[l] = "act" /\ a = Act(l)
  <1>1. CASE \E l \in Levels : LoopStep(l)
    <2>1. PICK l \in Levels : LoopStep(l)
      BY <1>1
    <2>2. pc[l] = "act" /\ acts' \subseteq acts \cup {Act(l)}
      <3>1. CASE Write(l) \/ Observe(l) \/ Exec(l)
        BY <3>1 DEF Write, Observe, Exec
      <3>2. CASE Spawn(l)
        BY <3>2 DEF Spawn
      <3>3. CASE acts' = acts
        BY <3>3
      <3> QED
        BY <2>1, <3>1, <3>2, <3>3
           DEF LoopStep, Begin, Request, Exhaust, ProviderFails, Respond, Complete, CloseFails,
               Reject, Admit, Refuse, EditFails, Decide, IssueLease, PresentCard, ApproveUnasked,
               Approve, Deny, Consent, Snapshot, ActFails, Report, ReportFails, ReportFailure,
               SpawnFails, ChildBack, ReportChild, Throw, history
    <2> QED
      BY <2>2
  <1>2. CASE acts' = acts
    BY <1>2
  <1> QED
    BY <1>1, <1>2
       DEF Next, UserApproves, GrantNotSaved, UserDenies, EofDenies, CloseStdin, OutsideEdit,
           vars, history

LEMMA LoopEvidenced ==
    ASSUME LoopInv, [Next]_vars, NEW a \in acts' \ acts
    PROVE  /\ IF a.kind \in Asking
              THEN /\ ToldFirst(a.level, a.serial, ApprovedFirst)
                   /\ consents[a.level][ConsentName(a.level)] = a.serial
              ELSE ToldOnly(a.level, a.serial, AllowedFirst)
           /\ Behind(a.level) => a.kind = "exec"
  <1>1. PICK l \in Levels : pc[l] = "act" /\ a = Act(l)
    BY NewActs
  <1>2. Typed /\ Handed(l) /\ Evidenced(l) /\ Consented(l)
    BY DEF LoopInv, LevelInv
  <1>3. a.level = l /\ a.serial = InHand(l).serial /\ a.kind = InHand(l).kind
    BY <1>1 DEF Act
  <1>4. InHand(l).kind \in {"observe", "write", "edit", "exec", "spawn"}
    BY <1>1, <1>2 DEF Handed
  <1>5. CASE InHand(l).kind = "observe"
    <2>1. EndsWith(l, AllowedFirst, 5)
      BY <1>1, <1>2, <1>5 DEF Evidenced
    <2>2. ToldOnly(l, InHand(l).serial, AllowedFirst)
      BY <1>2, <2>1, EndsTold, FirstTypes
    <2>3. ~Behind(l)
      BY <1>2, <2>1, LengthTypes DEF EndsWith, Behind
    <2> QED
      BY <1>3, <1>5, <2>2, <2>3 DEF Asking
  <1>6. CASE InHand(l).kind \in {"write", "edit", "exec", "spawn"}
    <2>1. InHand(l).kind \in Asking
      BY <1>6 DEF Asking
    <2>2. consents[l][ConsentName(l)] = InHand(l).serial
      BY <1>1, <1>2, <2>1 DEF Consented
    <2>3. InHand(l).kind # "exec" => EndsWith(l, ApprovedFirst, 8)
      BY <1>1, <1>2, <1>6 DEF Evidenced
    <2>4. ToldFirst(l, InHand(l).serial, ApprovedFirst)
      <3>1. CASE InHand(l).kind = "exec"
        BY <1>1, <1>2, <3>1 DEF Evidenced
      <3>2. CASE InHand(l).kind # "exec"
        BY <1>2, <2>3, <3>2, EndsTold, FirstTypes
      <3> QED
        BY <3>1, <3>2
    <2>5. InHand(l).kind # "exec" => ~Behind(l)
      BY <1>2, <2>3, LengthTypes DEF EndsWith, Behind
    <2> QED
      BY <1>3, <2>1, <2>2, <2>4, <2>5
  <1> QED
    BY <1>4, <1>5, <1>6
\* The history of outside edits counts them.
LEMMA OutsideCounted == Spec => [](outside \in Nat)
  <1>1. Init => outside \in Nat
    BY DEF Init
  <1>2. [Next]_vars => outside' = outside \/ outside' = outside + 1
    <2>1. ASSUME NEW l \in Levels, LoopStep(l) PROVE outside' = outside
      BY <2>1 DEF LoopStep, Begin, Request, Exhaust, ProviderFails, Respond, Complete, CloseFails,
                  Reject, Admit, Refuse, EditFails, Decide, IssueLease, PresentCard,
                  ApproveUnasked, Approve, Deny, Consent, Snapshot, Write, Observe, Exec, ActFails,
                  Report, ReportFails, ReportFailure, Spawn, SpawnFails, ChildBack, ReportChild,
                  Throw, history
    <2> QED
      BY <2>1 DEF Next, UserApproves, Approve, GrantNotSaved, UserDenies, EofDenies, CloseStdin,
                  OutsideEdit, vars, history
  <1>3. outside \in Nat /\ [Next]_vars => (outside \in Nat)'
    BY <1>2
  <1> QED
    BY <1>1, <1>3, PTL DEF Spec

\* The step of a level changes a workspace only by an act, its failure or the
\* copy for a child.
LEMMA FileSteps ==
    ASSUME NEW l \in Levels, LoopStep(l), file' # file
    PROVE  Write(l) \/ Exec(l) \/ ActFails(l) \/ Spawn(l)
  BY DEF LoopStep, Begin, Request, Exhaust, ProviderFails, Respond, Complete, CloseFails,
         Reject, Admit, Refuse, EditFails, Decide, IssueLease, PresentCard, ApproveUnasked, Approve,
         Deny, Consent, Snapshot, Observe, Report, ReportFails, ReportFailure, SpawnFails,
         ChildBack, ReportChild, Throw

\* The call that acts did not act before.
LEMMA ActIsNew ==
    ASSUME LoopInv, NEW l \in Levels, pc[l] = "act" PROVE Act(l) \notin acts
  <1>1. Numbered(l)
    BY DEF LoopInv, LevelInv
  <1>2. Act(l).level = l /\ Act(l).serial = InHand(l).serial
    BY DEF Act
  <1> QED
    BY <1>1, <1>2 DEF Numbered, BeforeAct

LEMMA LoopContent ==
    ASSUME LoopInv, outside \in Nat, [Next]_vars, NEW k \in Levels, file'[k] # file[k]
    PROVE  \/ outside' # outside
           \/ pc'[k] = "start"
           \/ pc[k] = "act" /\ pc'[k] = "caught" /\ file'[k] = {}
           \/ \E a \in acts' \ acts :
                 \/ a.kind = "exec"
                 \/ /\ a.level = k
                    /\ \E g \in granted :
                          /\ g.serial = a.serial
                          /\ g.content = file'[k]
                          /\ g.by = "grant" => Tool(a.kind) \in grants
  <1>1. Typed /\ file' # file
    BY DEF LoopInv
  <1>2. CASE \E l \in Levels : LoopStep(l)
    <2>1. PICK l \in Levels : Write(l) \/ Exec(l) \/ ActFails(l) \/ Spawn(l)
      BY <1>1, <1>2, FileSteps
    <2>2. Act(l).kind = InHand(l).kind /\ Act(l).level = l /\ Act(l).serial = InHand(l).serial
      BY DEF Act
    <2>3. CASE Write(l)
      <3>1. /\ pc[l] = "act" /\ InHand(l).kind \in {"write", "edit"}
            /\ file' = [file EXCEPT ![l] = asked[l]] /\ Act(l) \in acts'
        BY <2>3 DEF Write, Where, Content
      <3>2. k = l /\ file'[l] = asked[l]
        BY <1>1, <3>1 DEF Typed
      <3>3. Act(l) \notin acts
        BY <3>1, ActIsNew
      <3>4. \E g \in granted :
               /\ g.serial = InHand(l).serial /\ g.content = asked[l]
               /\ g.by = "grant" => Tool(InHand(l).kind) \in grants
        BY <3>1 DEF LoopInv, LevelInv, Consented, Asking
      <3> QED
        BY <2>2, <3>1, <3>2, <3>3, <3>4
    <2>4. CASE Exec(l)
      <3>1. pc[l] = "act" /\ InHand(l).kind = "exec" /\ Act(l) \in acts'
        BY <2>4 DEF Exec
      <3>2. Act(l) \notin acts
        BY <3>1, ActIsNew
      <3> QED
        BY <2>2, <3>1, <3>2
    <2>5. CASE ActFails(l)
      <3>1. /\ pc[l] = "act" /\ pc' = [pc EXCEPT ![l] = "caught"]
            /\ file' = [file EXCEPT ![l] = {}]
        BY <1>1, <2>5 DEF ActFails, Where
      <3> QED
        BY <1>1, <3>1 DEF Typed
    <2>6. CASE Spawn(l)
      <3>1. /\ pc' = [pc EXCEPT ![l] = "child", ![l + 1] = "start"]
            /\ file' = [file EXCEPT ![l + 1] = file[l]]
        BY <2>6 DEF Spawn
      <3>2. k = l + 1
        BY <1>1, <3>1 DEF Typed
      <3> QED
        BY <1>1, <3>1, <3>2 DEF Typed
    <2> QED
      BY <2>1, <2>3, <2>4, <2>5, <2>6
  <1>3. CASE OutsideEdit
    <2>1. outside' = outside + 1
      BY <1>3 DEF OutsideEdit
    <2> QED
      BY <2>1
  <1> QED
    BY <1>1, <1>2, <1>3
       DEF Next, UserApproves, Approve, GrantNotSaved, UserDenies, EofDenies, CloseStdin, vars

-----------------------------------------------------------------------------
\* The conversation that is sent answers every call of every answer, in order.
THEOREM RepliesAlwaysMatch == Spec => []RepliesMatch
  BY LoopInvariant, LoopReplies, PTL

\* A closed manifest lists its whole run and of every act how it went.
THEOREM ManifestAlwaysTells == Spec => []ManifestTells
  BY LoopInvariant, LoopManifest, PTL

\* What the model is told went well was done and is recorded.
THEOREM SuccessAlwaysRecorded == Spec => []SuccessIsRecorded
  BY LoopInvariant, LoopSuccess, PTL

\* Nothing is done that the ledger and the manifest do not show the reason of.
THEOREM ActsAlwaysEvidenced == Spec => EvidencedActs
  <1> DEFINE Shown == \A a \in acts' \ acts :
          /\ IF a.kind \in Asking
             THEN /\ ToldFirst(a.level, a.serial, ApprovedFirst)
                  /\ consents[a.level][ConsentName(a.level)] = a.serial
             ELSE ToldOnly(a.level, a.serial, AllowedFirst)
          /\ Behind(a.level) => a.kind = "exec"
  <1>1. LoopInv /\ [Next]_vars => [Shown]_vars
    BY LoopEvidenced
  <1> QED
    BY <1>1, LoopInvariant, PTL DEF Spec, EvidencedActs

\* No workspace changes to what was not shown and approved.
THEOREM ContentAlwaysApproved == Spec => ApprovedContent
  <1> DEFINE Approved == \A l \in Levels : file'[l] # file[l] =>
          \/ outside' # outside
          \/ pc'[l] = "start"
          \/ pc[l] = "act" /\ pc'[l] = "caught" /\ file'[l] = {}
          \/ \E a \in acts' \ acts :
                \/ a.kind = "exec"
                \/ /\ a.level = l
                   /\ \E g \in granted :
                         /\ g.serial = a.serial
                         /\ g.content = file'[l]
                         /\ g.by = "grant" => Tool(a.kind) \in grants
  <1>1. LoopInv /\ outside \in Nat /\ [Next]_vars => [Approved]_vars
    BY LoopContent
  <1> QED
    BY <1>1, LoopInvariant, OutsideCounted, PTL DEF Spec, ApprovedContent
=============================================================================
