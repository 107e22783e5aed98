---------------------------- MODULE IngressProofs ----------------------------
(***************************************************************************)
(* Theorems about Ingress, for every set of calls, of keys and of intents, *)
(* every rate limit, all crash points and faults.                          *)
(***************************************************************************)
EXTENDS Ingress, FiniteSetTheorems, TLAPS

-----------------------------------------------------------------------------
(* A key has one owner *)

Working == {"reserving", "execute", "running", "cache", "caching", "completed", "blocked"}

OwnInv ==
    /\ TypeOK
    /\ \A c \in Calls : pc[c] \in Working => reservations[Key[c]].owner = c
    /\ \A c \in handed : reservations[Key[c]].owner = c
    /\ acted \subseteq handed

LEMMA InitOwnInv == Init => OwnInv
<1> SUFFICES ASSUME Init PROVE OwnInv
  OBVIOUS
<1>1. TypeOK
  BY IngressAssumption
  DEF IngressAssumption, Init, TypeOK, Points, Files, NoFile, Slots, Manifest
<1>2. QED BY <1>1 DEF Init, OwnInv, Working

\* Every step keeps the type invariant.
LEMMA StepTypeOK == TypeOK /\ [Next]_vars => TypeOK'
<1> SUFFICES ASSUME TypeOK, [Next]_vars PROVE TypeOK'
  OBVIOUS
<1> USE IngressAssumption DEF IngressAssumption, TypeOK, Points, Files, Slots, Keys, Goto
<1>1. CASE Tick
  BY <1>1 DEF Tick
<1>2. ASSUME NEW c \in Calls, ReadClock(c) PROVE TypeOK'
  BY <1>2 DEF ReadClock
<1>3. ASSUME NEW c \in Calls, TakeSlot(c) PROVE TypeOK'
  <2>1. slot[c] \in Slots(maxRequests - 1)
    BY <1>3 DEF TakeSlot
  <2>2. slots' \subseteq Slots(maxRequests - 1)
    BY <1>3, <2>1 DEF TakeSlot
  <2>3. QED BY <1>3, <2>2 DEF TakeSlot
<1>4. ASSUME NEW c \in Calls, SlotTaken(c) PROVE TypeOK'
  <2>1. slot[c].index + 1 \in 0..maxRequests /\ slot[c].window \in 0..LastWindow
    BY <1>4 DEF SlotTaken
  <2>2. slot' \in [Calls -> Slots(maxRequests)]
    BY <1>4, <2>1 DEF SlotTaken
  <2>3. QED BY <1>4, <2>2 DEF SlotTaken
<1>5. ASSUME NEW c \in Calls, RateLimited(c) PROVE TypeOK'
  BY <1>5 DEF RateLimited
<1>6. ASSUME NEW c \in Calls, Reserve(c) PROVE TypeOK'
  BY <1>6 DEF Reserve, Created
<1>7. ASSUME NEW c \in Calls, WriteReservation(c) PROVE TypeOK'
  BY <1>7 DEF WriteReservation, Written
<1>8. ASSUME NEW c \in Calls, Duplicate(c) PROVE TypeOK'
  BY <1>8 DEF Duplicate
<1>9. ASSUME NEW c \in Calls, ReadReservation(c) PROVE TypeOK'
  BY <1>9 DEF ReadReservation
<1>10. ASSUME NEW c \in Calls, ReadCompletion(c) PROVE TypeOK'
  BY <1>10 DEF ReadCompletion
<1>11. ASSUME NEW c \in Calls, Replay(c) PROVE TypeOK'
  BY <1>11 DEF Replay
<1>12. ASSUME NEW c \in Calls, Execute(c) PROVE TypeOK'
  BY <1>12 DEF Execute, Manifest
<1>13. ASSUME NEW c \in Calls, Act(c) PROVE TypeOK'
  BY <1>13 DEF Act
<1>14. ASSUME NEW c \in Calls, FinishRun(c) PROVE TypeOK'
  BY <1>14 DEF FinishRun, Manifest
<1>15. ASSUME NEW c \in Calls, KernelFails(c) PROVE TypeOK'
  BY <1>15 DEF KernelFails
<1>16. ASSUME NEW c \in Calls, CreateCompletion(c) PROVE TypeOK'
  BY <1>16 DEF CreateCompletion, Created
<1>17. ASSUME NEW c \in Calls, WriteCompletion(c) PROVE TypeOK'
  BY <1>17 DEF WriteCompletion, Written
<1>18. ASSUME NEW c \in Calls, Crash(c) PROVE TypeOK'
  BY <1>18 DEF Crash
<1>19. ASSUME NEW c \in Calls, Drift(c) PROVE TypeOK'
  BY <1>19 DEF Drift
<1>20. CASE UNCHANGED vars
  BY <1>20 DEF vars
<1>21. QED
  BY <1>1, <1>2, <1>3, <1>4, <1>5, <1>6, <1>7, <1>8, <1>9, <1>10, <1>11, <1>12, <1>13,
     <1>14, <1>15, <1>16, <1>17, <1>18, <1>19, <1>20 DEF Next, CallStep

\* Once a call owns a key, it owns it for good.
LEMMA OwnersStay ==
    ASSUME OwnInv, [Next]_vars, NEW c \in Calls, reservations[Key[c]].owner = c
    PROVE  reservations'[Key[c]].owner = c
<1>1. Key[c] \in Keys /\ c # "none" /\ reservations \in [Keys -> Files]
  BY IngressAssumption DEF Keys, IngressAssumption, OwnInv, TypeOK
<1>2. ASSUME NEW d \in Calls, Reserve(d) PROVE reservations'[Key[c]].owner = c
  <2>1. Key[d] # Key[c]
    BY <1>1, <1>2 DEF Reserve, NoFile
  <2>2. QED BY <1>1, <1>2, <2>1 DEF Reserve
<1>3. ASSUME NEW d \in Calls, WriteReservation(d) PROVE reservations'[Key[c]].owner = c
  <2>1. reservations[Key[d]].owner = d
    BY <1>3 DEF WriteReservation, OwnInv, Working
  <2>2. CASE Key[d] = Key[c]
    BY <1>1, <1>3, <2>1, <2>2 DEF WriteReservation, Written
  <2>3. CASE Key[d] # Key[c]
    BY <1>1, <1>3, <2>3 DEF WriteReservation
  <2>4. QED BY <2>2, <2>3
<1>4. CASE UNCHANGED reservations
  BY <1>4
<1>5. QED
  BY <1>2, <1>3, <1>4
  DEF Next, CallStep, vars, Tick, ReadClock, TakeSlot, SlotTaken, RateLimited, Duplicate,
      ReadReservation, ReadCompletion, Replay, Execute, Act, FinishRun, KernelFails,
      CreateCompletion, WriteCompletion, Drift, Crash

LEMMA StepOwnInv == OwnInv /\ [Next]_vars => OwnInv'
<1> SUFFICES ASSUME OwnInv, [Next]_vars PROVE OwnInv'
  OBVIOUS
<1>1. TypeOK /\ TypeOK'
  BY StepTypeOK DEF OwnInv
<1>2. pc \in [Calls -> Points] /\ reservations \in [Keys -> Files]
      /\ \A c \in Calls : Key[c] \in Keys
  BY <1>1 DEF TypeOK, Keys
\* Only the call that reserves a key starts to work on it.
<1>3. \A c \in Calls : pc'[c] \in Working => pc[c] \in Working \/ reservations'[Key[c]].owner = c
  <2>1. ASSUME NEW c \in Calls, Reserve(c) PROVE reservations'[Key[c]].owner = c
    BY <1>2, <2>1 DEF Reserve, Created
  <2>2. ASSUME NEW c \in Calls, NEW d \in Calls, c # d,
               CallStep(d) \/ ReadClock(d) \/ Act(d) \/ KernelFails(d) \/ Drift(d) \/ Crash(d)
        PROVE  pc'[c] = pc[c]
    BY <1>2, <2>2
    DEF CallStep, ReadClock, TakeSlot, SlotTaken, RateLimited, Reserve, WriteReservation,
        Duplicate, ReadReservation, ReadCompletion, Replay, Execute, Act, FinishRun,
        KernelFails, CreateCompletion, WriteCompletion, Drift, Crash, Goto
  <2>3. ASSUME NEW c \in Calls,
               CallStep(c) \/ ReadClock(c) \/ Act(c) \/ KernelFails(c) \/ Drift(c) \/ Crash(c), ~Reserve(c),
               pc'[c] \in Working
        PROVE  pc[c] \in Working
    BY <1>2, <2>3
    DEF CallStep, ReadClock, TakeSlot, SlotTaken, RateLimited, WriteReservation,
        Duplicate, ReadReservation, ReadCompletion, Replay, Execute, Act, FinishRun,
        KernelFails, CreateCompletion, WriteCompletion, Drift, Crash, Goto, Working
  <2>4. CASE Tick \/ UNCHANGED vars
    BY <2>4 DEF Tick, vars
  <2>5. QED BY <2>1, <2>2, <2>3, <2>4 DEF Next, CallStep
<1>4. \A c \in Calls : pc'[c] \in Working => reservations'[Key[c]].owner = c
  BY <1>3, OwnersStay DEF OwnInv
<1>5. \A c \in Calls : c \in handed' => c \in handed \/ pc[c] = "execute"
  BY DEF Next, CallStep, vars, Tick, ReadClock, TakeSlot, SlotTaken, RateLimited, Reserve,
         WriteReservation, Duplicate, ReadReservation, ReadCompletion, Replay, Execute, Act,
         FinishRun, KernelFails, CreateCompletion, WriteCompletion, Drift, Crash
<1>6. handed' \subseteq Calls
  BY <1>1 DEF TypeOK
<1>7. \A c \in handed' : reservations'[Key[c]].owner = c
  BY <1>5, <1>6, OwnersStay DEF OwnInv, Working
<1>8. acted' \subseteq handed'
  BY DEF OwnInv, Next, CallStep, vars, Tick, ReadClock, TakeSlot, SlotTaken, RateLimited, Reserve,
         WriteReservation, Duplicate, ReadReservation, ReadCompletion, Replay, Execute, Act,
         FinishRun, KernelFails, CreateCompletion, WriteCompletion, Drift, Crash
<1>9. QED BY <1>1, <1>4, <1>7, <1>8 DEF OwnInv

\* Every reachable state is well typed.
THEOREM TypeCorrect == Spec => []TypeOK
<1>1. OwnInv => TypeOK
  BY DEF OwnInv
<1>2. QED BY InitOwnInv, StepOwnInv, <1>1, PTL DEF Spec

\* Whatever is killed, fails, races or is repeated: of all the calls with one
\* key at most one carries out its write.
THEOREM AtMostOneActs == Spec => []ActsAtMostOnce
<1>1. OwnInv => ActsAtMostOnce
  BY DEF OwnInv, ActsAtMostOnce
<1>2. QED BY InitOwnInv, StepOwnInv, <1>1, PTL DEF Spec

-----------------------------------------------------------------------------
(* The ingress implements OnceOnly *)

\* A completion names a call that owns its key, has acted and is past the kernel
\* run; a completion with text is that of a returned call.
CompletionInv ==
    \A k \in Keys :
        LET f == completions[k]
        IN  /\ f.owner = "none" => f = NoFile
            /\ f.owner # "none" =>
                 /\ Key[f.owner] = k
                 /\ f.owner \in acted
                 /\ pc[f.owner] \in {"caching", "completed", "dead"}
            /\ f.text => pc[f.owner] = "completed"

\* A call that caches has acted and, once it made the file, holds it.
CachingInv ==
    \A c \in Calls :
        /\ pc[c] \in {"cache", "caching"} => c \in acted
        /\ pc[c] = "caching" => completions[Key[c]] = Created(c)

\* A call that replays asks for what the owner of its key asked for, and has read
\* that owner's completion.
ReplayInv ==
    \A c \in Calls :
        /\ pc[c] \in {"cached", "replay", "replayed"} =>
             Intent[reservations[Key[c]].owner] = Intent[c] /\ reservations[Key[c]].owner \in Calls
        /\ pc[c] \in {"replay", "replayed"} =>
             /\ source[c].text
             /\ source[c] = completions[Key[c]]
             /\ source[c].owner = reservations[Key[c]].owner

\* A reservation without an owner is no file at all.
NamedInv == \A k \in Keys : reservations[k].owner = "none" => reservations[k] = NoFile

PublishInv == OwnInv /\ NamedInv /\ CompletionInv /\ CachingInv /\ ReplayInv

LEMMA InitPublishInv == Init => PublishInv
<1> SUFFICES ASSUME Init PROVE PublishInv
  OBVIOUS
<1>1. OwnInv
  BY InitOwnInv
<1>2. NamedInv /\ CompletionInv /\ CachingInv /\ ReplayInv
  BY DEF Init, NamedInv, CompletionInv, CachingInv, ReplayInv, NoFile
<1>3. QED BY <1>1, <1>2 DEF PublishInv

\* Reservations that name a call keep naming it, whoever steps.
LEMMA NamesStay ==
    ASSUME OwnInv, [Next]_vars, NEW k \in Keys, reservations[k].owner # "none"
    PROVE  reservations'[k].owner = reservations[k].owner
<1>1. reservations \in [Keys -> Files]
  BY DEF OwnInv, TypeOK
<1>2. ASSUME NEW d \in Calls, Reserve(d) PROVE reservations'[k] = reservations[k]
  BY <1>1, <1>2 DEF Reserve, NoFile
<1>3. ASSUME NEW d \in Calls, WriteReservation(d)
      PROVE  reservations'[k].owner = reservations[k].owner
  <2>1. reservations[Key[d]].owner = d
    BY <1>3 DEF WriteReservation, OwnInv, Working
  <2>2. CASE k = Key[d]
    BY <1>1, <1>3, <2>1, <2>2 DEF WriteReservation, Written
  <2>3. CASE k # Key[d]
    BY <1>1, <1>3, <2>3 DEF WriteReservation
  <2>4. QED BY <2>2, <2>3
<1>4. CASE UNCHANGED reservations
  BY <1>4
<1>5. QED
  BY <1>2, <1>3, <1>4
  DEF Next, CallStep, vars, Tick, ReadClock, TakeSlot, SlotTaken, RateLimited, Duplicate,
      ReadReservation, ReadCompletion, Replay, Execute, Act, FinishRun, KernelFails,
      CreateCompletion, WriteCompletion, Drift, Crash

LEMMA StepNamedInv == OwnInv /\ NamedInv /\ [Next]_vars => NamedInv'
<1> SUFFICES ASSUME OwnInv, NamedInv, [Next]_vars PROVE NamedInv'
  OBVIOUS
<1>1. reservations \in [Keys -> Files] /\ \A c \in Calls : Key[c] \in Keys /\ c # "none"
  BY IngressAssumption DEF OwnInv, TypeOK, Keys, IngressAssumption
<1>2. ASSUME NEW d \in Calls, Reserve(d) PROVE NamedInv'
  BY <1>1, <1>2 DEF Reserve, Created, NamedInv
<1>3. ASSUME NEW d \in Calls, WriteReservation(d) PROVE NamedInv'
  BY <1>1, <1>3 DEF WriteReservation, Written, NamedInv
<1>4. CASE UNCHANGED reservations
  BY <1>4 DEF NamedInv
<1>5. QED
  BY <1>2, <1>3, <1>4
  DEF Next, CallStep, vars, Tick, ReadClock, TakeSlot, SlotTaken, RateLimited, Duplicate,
      ReadReservation, ReadCompletion, Replay, Execute, Act, FinishRun, KernelFails,
      CreateCompletion, WriteCompletion, Drift, Crash

LEMMA StepPublishInv == PublishInv /\ [Next]_vars => PublishInv'
<1> SUFFICES ASSUME PublishInv, [Next]_vars PROVE PublishInv'
  OBVIOUS
<1>0. OwnInv /\ OwnInv' /\ NamedInv /\ NamedInv'
  BY StepOwnInv, StepNamedInv DEF PublishInv
<1>a. /\ pc \in [Calls -> Points]
      /\ completions \in [Keys -> Files]
      /\ reservations \in [Keys -> Files]
      /\ source \in [Calls -> Files]
      /\ events \in [Calls -> Nat]
      /\ \A c \in Calls : Key[c] \in Keys /\ c # "none"
  BY <1>0, IngressAssumption DEF OwnInv, TypeOK, Keys, IngressAssumption
<1>b. \A k \in Keys : reservations[k].owner # "none" =>
          reservations'[k].owner = reservations[k].owner
  BY <1>0, NamesStay
<1>c. CompletionInv /\ CachingInv /\ ReplayInv
  BY DEF PublishInv
\* Steps of a call that neither caches nor has read what it replays.
<1>d. ASSUME NEW c \in Calls, NEW point, UNCHANGED <<completions, acted, events, source>>,
             pc' = [pc EXCEPT ![c] = point],
             pc[c] \notin {"completed", "dead"},
             point \notin {"cached", "replay", "cache", "caching", "completed"},
             point = "replayed" => pc[c] = "replay",
             pc[c] = "caching" => point = "dead"
      PROVE  PublishInv'
  <2>1. CompletionInv'
    BY <1>a, <1>c, <1>d DEF CompletionInv, Written
  <2>2. CachingInv'
    BY <1>a, <1>c, <1>d DEF CachingInv
  <2>3. ReplayInv'
    <3>1. \A d \in Calls : /\ pc'[d] \in {"cached", "replay"} => pc'[d] = pc[d]
                           /\ pc'[d] = "replayed" => pc[d] \in {"replay", "replayed"}
      BY <1>a, <1>d
    <3>2. QED BY <1>a, <1>b, <1>c, <1>d, <3>1 DEF ReplayInv, IngressAssumption
  <2>4. QED BY <1>0, <2>1, <2>2, <2>3 DEF PublishInv
<1>1. CASE Tick \/ UNCHANGED vars
  <2>1. UNCHANGED <<completions, acted, events, source, pc, reservations>>
    BY <1>1 DEF Tick, vars
  <2>2. QED
    BY <1>0, <1>c, <2>1 DEF PublishInv, CompletionInv, CachingInv, ReplayInv, Written
<1>2. ASSUME NEW c \in Calls, ReadClock(c) PROVE PublishInv'
  BY <1>d, <1>2 DEF ReadClock, Goto
<1>3. ASSUME NEW c \in Calls, TakeSlot(c) PROVE PublishInv'
  BY <1>d, <1>3 DEF TakeSlot, Goto
<1>4. ASSUME NEW c \in Calls, SlotTaken(c) PROVE PublishInv'
  <2>1. UNCHANGED <<completions, acted, events, source, pc, reservations>>
    BY <1>4 DEF SlotTaken
  <2>2. QED
    BY <1>0, <1>c, <2>1 DEF PublishInv, CompletionInv, CachingInv, ReplayInv, Written
<1>5. ASSUME NEW c \in Calls, RateLimited(c) PROVE PublishInv'
  BY <1>d, <1>5 DEF RateLimited, Goto
<1>6. ASSUME NEW c \in Calls, Reserve(c) PROVE PublishInv'
  BY <1>d, <1>6 DEF Reserve, Goto
<1>7. ASSUME NEW c \in Calls, WriteReservation(c) PROVE PublishInv'
  BY <1>d, <1>7 DEF WriteReservation, Goto
<1>8. ASSUME NEW c \in Calls, Duplicate(c) PROVE PublishInv'
  BY <1>d, <1>8 DEF Duplicate, Goto
<1>9. ASSUME NEW c \in Calls, ReadReservation(c) PROVE PublishInv'
  <2>1. PICK point \in {"cached", "refused"} : pc' = [pc EXCEPT ![c] = point]
    BY <1>9 DEF ReadReservation, Goto
  <2>2. UNCHANGED <<completions, acted, events, source, reservations>> /\ pc[c] = "duplicate"
    BY <1>9 DEF ReadReservation
  <2>3. CASE point = "refused"
    BY <1>d, <2>1, <2>2, <2>3
  <2>4. CASE point = "cached"
    <3>1. pc' = [pc EXCEPT ![c] = IF reservations[Key[c]].text /\ Intent[reservations[Key[c]].owner] = Intent[c]
                                  THEN "cached" ELSE "refused"]
      BY <1>9 DEF ReadReservation, Goto
    <3>2. reservations[Key[c]].text /\ Intent[reservations[Key[c]].owner] = Intent[c]
      BY <1>a, <2>1, <2>4, <3>1
    <3>3. reservations[Key[c]].owner \in Calls
      BY <1>0, <1>a, <3>2 DEF NamedInv, NoFile, Files
    <3>4. CompletionInv' /\ CachingInv'
      BY <1>a, <1>c, <2>1, <2>2, <2>4 DEF CompletionInv, CachingInv, Written
    <3>5. ReplayInv'
      BY <1>a, <1>c, <2>1, <2>2, <2>4, <3>2, <3>3 DEF ReplayInv
    <3>6. QED BY <1>0, <3>4, <3>5 DEF PublishInv
  <2>5. QED BY <2>3, <2>4
<1>10. ASSUME NEW c \in Calls, ReadCompletion(c) PROVE PublishInv'
  <2>1. PICK point \in {"replay", "refused"} : pc' = [pc EXCEPT ![c] = point]
    BY <1>10 DEF ReadCompletion, Goto
  <2>2. /\ UNCHANGED <<completions, acted, events, reservations>> /\ pc[c] = "cached"
        /\ source' = [source EXCEPT ![c] = completions[Key[c]]]
    BY <1>10 DEF ReadCompletion
  <2>3. point = "replay" => completions[Key[c]].text
                            /\ completions[Key[c]].owner = reservations[Key[c]].owner
    <3>1. pc' = [pc EXCEPT ![c] = IF completions[Key[c]].text
                                     /\ completions[Key[c]].owner = reservations[Key[c]].owner
                                  THEN "replay" ELSE "refused"]
      BY <1>10 DEF ReadCompletion, Goto
    <3>2. QED BY <1>a, <2>1, <3>1
  <2>4. CompletionInv' /\ CachingInv'
    BY <1>a, <1>c, <2>1, <2>2 DEF CompletionInv, CachingInv, Written
  <2>5. \A d \in Calls : d # c => pc'[d] = pc[d] /\ source'[d] = source[d]
    BY <1>a, <2>1, <2>2
  <2>6. pc'[c] = point /\ source'[c] = completions[Key[c]]
    BY <1>a, <2>1, <2>2
  <2>7. ReplayInv'
    BY <1>c, <2>2, <2>3, <2>5, <2>6 DEF ReplayInv
  <2>8. QED BY <1>0, <2>4, <2>7 DEF PublishInv
<1>11. ASSUME NEW c \in Calls, Replay(c) PROVE PublishInv'
  <2>1. PICK point \in {"replayed", "refused"} : pc' = [pc EXCEPT ![c] = point]
    BY <1>11 DEF Replay, Goto
  <2>2. QED BY <1>d, <1>11, <2>1 DEF Replay
<1>12. ASSUME NEW c \in Calls, Execute(c) PROVE PublishInv'
  <2>1. /\ pc[c] = "execute" /\ pc' = [pc EXCEPT ![c] = "running"]
        /\ events' = [events EXCEPT ![c] = 1]
        /\ UNCHANGED <<completions, acted, source, reservations>>
    BY <1>12 DEF Execute, Goto
  <2>2. CompletionInv'
    BY <1>a, <1>c, <2>1 DEF CompletionInv, Written
  <2>3. CachingInv'
    BY <1>a, <1>c, <2>1 DEF CachingInv
  <2>4. ReplayInv'
    BY <1>a, <1>c, <2>1 DEF ReplayInv
  <2>5. QED BY <1>0, <2>2, <2>3, <2>4 DEF PublishInv
<1>13. ASSUME NEW c \in Calls, Act(c) PROVE PublishInv'
  <2>1. /\ c \notin acted /\ acted' = acted \cup {c}
        /\ events' = [events EXCEPT ![c] = @ + 1]
        /\ UNCHANGED <<completions, pc, source, reservations>>
    BY <1>13 DEF Act
  <2>2. CompletionInv'
    BY <1>a, <1>c, <2>1 DEF CompletionInv, Written
  <2>3. CachingInv' /\ ReplayInv'
    BY <1>c, <2>1 DEF CachingInv, ReplayInv
  <2>4. QED BY <1>0, <2>2, <2>3 DEF PublishInv
<1>14. ASSUME NEW c \in Calls, FinishRun(c) PROVE PublishInv'
  <2>1. /\ pc[c] = "running"
        /\ events' = [events EXCEPT ![c] = @ + 1]
        /\ UNCHANGED <<completions, acted, source, reservations>>
    BY <1>14 DEF FinishRun
  <2>2. PICK point \in {"cache", "blocked"} :
          pc' = [pc EXCEPT ![c] = point] /\ (point = "cache" => c \in acted)
    BY <1>14 DEF FinishRun, Goto
  <2>3. CompletionInv'
    BY <1>a, <1>c, <2>1, <2>2 DEF CompletionInv, Written
  <2>4. CachingInv'
    BY <1>a, <1>c, <2>1, <2>2 DEF CachingInv
  <2>5. ReplayInv'
    BY <1>a, <1>c, <2>1, <2>2 DEF ReplayInv
  <2>6. QED BY <1>0, <2>3, <2>4, <2>5 DEF PublishInv
<1>15. ASSUME NEW c \in Calls, KernelFails(c) PROVE PublishInv'
  BY <1>d, <1>15 DEF KernelFails, Goto
<1>16. ASSUME NEW c \in Calls, CreateCompletion(c) PROVE PublishInv'
  <2>1. /\ pc[c] = "cache" /\ pc' = [pc EXCEPT ![c] = "caching"]
        /\ completions[Key[c]] = NoFile
        /\ completions' = [completions EXCEPT ![Key[c]] = Created(c)]
        /\ UNCHANGED <<events, acted, source, reservations>>
    BY <1>16 DEF CreateCompletion, Goto
  <2>2. completions'[Key[c]] = Created(c)
        /\ \A k \in Keys : k # Key[c] => completions'[k] = completions[k]
    BY <1>a, <2>1
  <2>3. \A d \in Calls : d # c => pc'[d] = pc[d]
    BY <1>a, <2>1
  <2>4. \A d \in Calls : pc[d] = "caching" /\ d # c => Key[d] # Key[c]
    BY <1>0, <1>a, <2>1 DEF OwnInv, Working
  <2>5. CompletionInv'
    <3>1. ASSUME NEW k \in Keys, k # Key[c]
          PROVE  /\ completions'[k].owner # "none" => completions[k].owner # c
                 /\ completions[k].owner # "none" => completions[k].owner \in Calls
      BY <1>a, <1>c, <3>1 DEF CompletionInv, Files
    <3>2. \A k \in Keys : k # Key[c] =>
            LET f == completions'[k]
            IN  /\ f.owner = "none" => f = NoFile
                /\ f.owner # "none" =>
                     /\ Key[f.owner] = k
                     /\ f.owner \in acted'
                     /\ pc'[f.owner] \in {"caching", "completed", "dead"}
                /\ f.text => pc'[f.owner] = "completed"
      BY <1>a, <1>c, <2>1, <2>2, <2>3, <3>1 DEF CompletionInv, NoFile
    <3>3. c \in acted /\ pc'[c] = "caching" /\ events'[c] = events[c]
      BY <1>a, <1>c, <2>1 DEF CachingInv
    <3>4. QED BY <1>a, <2>1, <2>2, <3>2, <3>3 DEF CompletionInv, Created, Written
  <2>6. CachingInv'
    BY <1>a, <1>c, <2>1, <2>2, <2>3, <2>4 DEF CachingInv
  <2>7. \A d \in Calls : pc[d] \in {"replay", "replayed"} => Key[d] # Key[c]
    BY <1>a, <1>c, <2>1 DEF ReplayInv, NoFile, Created
  <2>8. ReplayInv'
    BY <1>a, <1>c, <2>1, <2>2, <2>3, <2>7 DEF ReplayInv
  <2>9. QED BY <1>0, <2>5, <2>6, <2>8 DEF PublishInv
<1>17. ASSUME NEW c \in Calls, WriteCompletion(c) PROVE PublishInv'
  <2>1. /\ pc[c] = "caching" /\ pc' = [pc EXCEPT ![c] = "completed"]
        /\ completions' = [completions EXCEPT ![Key[c]] = Written(c, events[c])]
        /\ UNCHANGED <<events, acted, source, reservations>>
    BY <1>17 DEF WriteCompletion, Goto
  <2>2. completions[Key[c]] = Created(c)
    BY <1>c, <2>1 DEF CachingInv
  <2>3. completions'[Key[c]] = Written(c, events[c])
        /\ \A k \in Keys : k # Key[c] => completions'[k] = completions[k]
    BY <1>a, <2>1
  <2>4. \A d \in Calls : d # c => pc'[d] = pc[d]
    BY <1>a, <2>1
  <2>5. \A d \in Calls : pc[d] = "caching" /\ d # c => Key[d] # Key[c]
    BY <1>0, <1>a, <2>1 DEF OwnInv, Working
  <2>6. CompletionInv'
    <3>1. ASSUME NEW k \in Keys, k # Key[c]
          PROVE  /\ completions'[k].owner # "none" => completions[k].owner # c
                 /\ completions[k].owner # "none" => completions[k].owner \in Calls
      BY <1>a, <1>c, <3>1 DEF CompletionInv, Files
    <3>2. \A k \in Keys : k # Key[c] =>
            LET f == completions'[k]
            IN  /\ f.owner = "none" => f = NoFile
                /\ f.owner # "none" =>
                     /\ Key[f.owner] = k
                     /\ f.owner \in acted'
                     /\ pc'[f.owner] \in {"caching", "completed", "dead"}
                /\ f.text => pc'[f.owner] = "completed"
      BY <1>a, <1>c, <2>1, <2>3, <2>4, <3>1 DEF CompletionInv, NoFile
    <3>3. c \in acted /\ pc'[c] = "completed" /\ events'[c] = events[c]
      BY <1>a, <1>c, <2>1 DEF CachingInv
    <3>4. QED BY <1>a, <2>1, <2>3, <3>2, <3>3 DEF CompletionInv, Created, Written
  <2>7. CachingInv'
    BY <1>a, <1>c, <2>1, <2>3, <2>4, <2>5 DEF CachingInv
  <2>8. \A d \in Calls : pc[d] \in {"replay", "replayed"} => Key[d] # Key[c]
    BY <1>a, <1>c, <2>1, <2>2 DEF ReplayInv, NoFile, Created
  <2>9. ReplayInv'
    BY <1>a, <1>c, <2>1, <2>3, <2>4, <2>8 DEF ReplayInv
  <2>10. QED BY <1>0, <2>6, <2>7, <2>9 DEF PublishInv
<1>18. ASSUME NEW c \in Calls, Crash(c) PROVE PublishInv'
  BY <1>d, <1>18, IngressAssumption DEF Crash, Goto, IngressAssumption, Ended
<1>19. ASSUME NEW c \in Calls, Drift(c) PROVE PublishInv'
  <2>1. UNCHANGED <<completions, acted, source, pc, reservations>>
    BY <1>19 DEF Drift
  <2>2. QED BY <1>0, <1>c, <2>1 DEF PublishInv, CompletionInv, CachingInv, ReplayInv
<1>20. QED
  BY <1>1, <1>2, <1>3, <1>4, <1>5, <1>6, <1>7, <1>8, <1>9, <1>10, <1>11, <1>12, <1>13,
     <1>14, <1>15, <1>16, <1>17, <1>18, <1>19 DEF Next, CallStep

\* What the callers of OnceOnly see of the files.
OwnerOf == [k \in Keys |-> reservations[k].owner]
Told == [c \in Calls |-> IF pc[c] = "replayed" THEN source[c].owner ELSE "none"]

\* A step of the ingress is a step of OnceOnly or invisible to its callers.
LEMMA StepRefines ==
    ASSUME PublishInv, PublishInv', [Next]_vars
    PROVE  Once!Next \/ UNCHANGED <<OwnerOf, acted, Published, Told>>
<1>a. /\ pc \in [Calls -> Points]
      /\ completions \in [Keys -> Files]
      /\ reservations \in [Keys -> Files]
      /\ events \in [Calls -> Nat]
      /\ \A c \in Calls : Key[c] \in Keys /\ c # "none"
  BY IngressAssumption DEF PublishInv, OwnInv, TypeOK, Keys, IngressAssumption
<1>b. OwnInv /\ CompletionInv /\ CachingInv /\ ReplayInv
  BY DEF PublishInv
<1>o. (\A k \in Keys : reservations'[k].owner = reservations[k].owner) => OwnerOf' = OwnerOf
  BY DEF OwnerOf
<1>p. completions' = completions /\ events' = events => Published' = Published
  BY DEF Published
<1>q. ASSUME NEW c \in Calls, completions' = completions, c \notin Published, c \notin Published',
             \A d \in Calls : d # c => events'[d] = events[d]
      PROVE  Published' = Published
  BY <1>q DEF Published
<1>t. ASSUME source' = source,
             \A c \in Calls : pc'[c] = "replayed" <=> pc[c] = "replayed"
      PROVE  Told' = Told
  BY <1>t DEF Told
\* A step of c that leaves the files, the trace and what others were told alone.
<1>d. ASSUME NEW c \in Calls, NEW point, UNCHANGED <<completions, reservations, acted, events, source>>,
             pc' = [pc EXCEPT ![c] = point], point # "replayed", pc[c] # "replayed"
      PROVE  UNCHANGED <<OwnerOf, acted, Published, Told>>
  BY <1>a, <1>o, <1>p, <1>t, <1>d
<1>1. CASE Tick \/ UNCHANGED vars
  <2>1. UNCHANGED <<completions, reservations, acted, events, source, pc>>
    BY <1>1 DEF Tick, vars
  <2>2. QED BY <1>o, <1>p, <1>t, <2>1
<1>2. ASSUME NEW c \in Calls,
             ReadClock(c) \/ TakeSlot(c) \/ RateLimited(c) \/ Duplicate(c) \/ KernelFails(c)
      PROVE  UNCHANGED <<OwnerOf, acted, Published, Told>>
  <2>1. PICK point \in Points \ {"replayed"} : pc' = [pc EXCEPT ![c] = point]
    BY <1>2 DEF ReadClock, TakeSlot, RateLimited, Duplicate, KernelFails, Goto, Points
  <2>2. /\ UNCHANGED <<completions, reservations, acted, events, source>>
        /\ pc[c] # "replayed"
    BY <1>2 DEF ReadClock, TakeSlot, RateLimited, Duplicate, KernelFails
  <2>3. QED BY <1>d, <2>1, <2>2
<1>3. ASSUME NEW c \in Calls, SlotTaken(c) PROVE UNCHANGED <<OwnerOf, acted, Published, Told>>
  BY <1>o, <1>p, <1>t, <1>3 DEF SlotTaken
<1>4. ASSUME NEW c \in Calls, ReadReservation(c)
      PROVE  UNCHANGED <<OwnerOf, acted, Published, Told>>
  <2>1. PICK point \in {"cached", "refused"} : pc' = [pc EXCEPT ![c] = point]
    BY <1>4 DEF ReadReservation, Goto
  <2>2. UNCHANGED <<completions, reservations, acted, events, source>> /\ pc[c] # "replayed"
    BY <1>4 DEF ReadReservation
  <2>3. QED BY <1>d, <2>1, <2>2
<1>5. ASSUME NEW c \in Calls, ReadCompletion(c)
      PROVE  UNCHANGED <<OwnerOf, acted, Published, Told>>
  <2>1. PICK point \in {"replay", "refused"} : pc' = [pc EXCEPT ![c] = point]
    BY <1>5 DEF ReadCompletion, Goto
  <2>2. /\ UNCHANGED <<completions, reservations, acted, events>> /\ pc[c] = "cached"
        /\ source' = [source EXCEPT ![c] = completions[Key[c]]]
    BY <1>5 DEF ReadCompletion
  <2>3. /\ \A d \in Calls : pc'[d] = "replayed" <=> pc[d] = "replayed"
        /\ \A d \in Calls : pc[d] = "replayed" => d # c
    BY <1>a, <2>1, <2>2
  <2>4. source \in [Calls -> Files]
    BY <1>b DEF OwnInv, TypeOK
  <2>5. \A d \in Calls : pc[d] = "replayed" => source'[d] = source[d]
    BY <2>2, <2>3, <2>4
  <2>6. Told' = Told
    BY <2>3, <2>5 DEF Told
  <2>7. QED BY <1>o, <1>p, <2>2, <2>6
<1>6. ASSUME NEW c \in Calls, Reserve(c) PROVE Once!Claim(c)
  <2>1. /\ reservations[Key[c]].owner = "none"
        /\ reservations' = [reservations EXCEPT ![Key[c]] = Created(c)]
        /\ UNCHANGED <<completions, acted, events, source>>
        /\ pc' = [pc EXCEPT ![c] = "reserving"] /\ pc[c] = "reserve"
    BY <1>6 DEF Reserve, NoFile, Goto
  <2>2. OwnerOf' = [OwnerOf EXCEPT ![Key[c]] = c] /\ OwnerOf[Key[c]] = "none"
    BY <1>a, <2>1 DEF OwnerOf, Created
  <2>3. Published' = Published
    BY <1>p, <2>1
  <2>4. Told' = Told
    BY <1>a, <1>t, <2>1
  <2>5. QED BY <2>1, <2>2, <2>3, <2>4 DEF Once!Claim, OwnerOf, Told
<1>7. ASSUME NEW c \in Calls, WriteReservation(c)
      PROVE  UNCHANGED <<OwnerOf, acted, Published, Told>>
  <2>1. /\ reservations' = [reservations EXCEPT ![Key[c]] = Written(c, 0)]
        /\ UNCHANGED <<completions, acted, events, source>>
        /\ pc' = [pc EXCEPT ![c] = "execute"] /\ pc[c] = "reserving"
    BY <1>7 DEF WriteReservation, Goto
  <2>2. reservations[Key[c]].owner = c
    BY <1>b, <2>1 DEF OwnInv, Working
  <2>3. OwnerOf' = OwnerOf
    BY <1>a, <1>o, <2>1, <2>2 DEF Written
  <2>4. QED BY <1>a, <1>p, <1>t, <2>1, <2>3
<1>8. ASSUME NEW c \in Calls, Replay(c)
      PROVE  (\E d \in Calls : Once!Tell(c, d)) \/ UNCHANGED <<OwnerOf, acted, Published, Told>>
  <2>1. PICK point \in {"replayed", "refused"} : pc' = [pc EXCEPT ![c] = point]
    BY <1>8 DEF Replay, Goto
  <2>2. UNCHANGED <<completions, reservations, acted, events, source>> /\ pc[c] = "replay"
    BY <1>8 DEF Replay
  <2>3. CASE point = "refused"
    BY <1>d, <2>1, <2>2, <2>3
  <2>4. CASE point = "replayed"
    <3>1. PICK d \in Calls :
             /\ d = source[c].owner
             /\ source[c].text /\ source[c] = completions[Key[c]]
             /\ d = reservations[Key[c]].owner /\ Intent[d] = Intent[c]
      BY <1>b, <2>2 DEF ReplayInv
    <3>2. Key[d] = Key[c] /\ completions[Key[c]] = Written(d, events[d])
      <4>1. Key[d] = Key[c]
        BY <1>a, <1>b, <3>1 DEF CompletionInv
      <4>2. events[d] = source[c].head
        BY <1>8, <1>a, <2>1, <2>4, <3>1 DEF Replay, Goto
      <4>3. source[c] \in Files
        BY <1>b DEF OwnInv, TypeOK
      <4>4. QED BY <3>1, <4>1, <4>2, <4>3 DEF Files, Written
    <3>3. d \in Published
      BY <3>1, <3>2 DEF Published
    <3>4. \A e \in Calls : e # c => pc'[e] = pc[e]
      BY <1>a, <2>1
    <3>5. pc'[c] = "replayed"
      BY <1>a, <2>1, <2>4
    <3>6. Told' = [Told EXCEPT ![c] = d]
      BY <2>2, <3>1, <3>4, <3>5 DEF Told
    <3>7. OwnerOf' = OwnerOf /\ Published' = Published
      BY <1>o, <1>p, <2>2
    <3>8. Once!Tell(c, d)
      BY <2>2, <3>1, <3>2, <3>3, <3>6, <3>7 DEF Once!Tell, OwnerOf, Told
    <3>9. QED BY <3>8
  <2>5. QED BY <2>3, <2>4
<1>9. ASSUME NEW c \in Calls, Execute(c) \/ FinishRun(c)
      PROVE  UNCHANGED <<OwnerOf, acted, Published, Told>>
  <2>1. /\ UNCHANGED <<completions, reservations, acted, source>>
        /\ pc[c] \in {"execute", "running"}
        /\ \A d \in Calls : d # c => events'[d] = events[d]
    BY <1>a, <1>9 DEF Execute, FinishRun
  <2>2. PICK point \in {"running", "cache", "blocked"} : pc' = [pc EXCEPT ![c] = point]
    BY <1>9 DEF Execute, FinishRun, Goto
  <2>3. completions[Key[c]].owner # c
    BY <1>a, <1>b, <2>1 DEF CompletionInv
  <2>4. c \notin Published /\ c \notin Published'
    BY <2>1, <2>3 DEF Published, Written
  <2>5. Published' = Published
    BY <1>q, <2>1, <2>4
  <2>6. QED BY <1>a, <1>o, <1>t, <2>1, <2>2, <2>5
<1>10. ASSUME NEW c \in Calls, Act(c) PROVE Once!Act(c)
  <2>1. /\ c \in handed /\ c \notin acted /\ Intent[c] \in Approving
        /\ acted' = acted \cup {c}
        /\ \A d \in Calls : d # c => events'[d] = events[d]
        /\ UNCHANGED <<completions, reservations, pc, source>>
    BY <1>a, <1>10 DEF Act, Approved
  <2>2. completions[Key[c]].owner # c
    BY <1>a, <1>b, <2>1 DEF CompletionInv
  <2>3. c \notin Published /\ c \notin Published'
    BY <2>1, <2>2 DEF Published, Written
  <2>4. Published' = Published
    BY <1>q, <2>1, <2>3
  <2>5. OwnerOf[Key[c]] = c
    BY <1>a, <1>b, <2>1 DEF OwnInv, OwnerOf
  <2>6. OwnerOf' = OwnerOf /\ Told' = Told
    BY <1>o, <1>t, <2>1
  <2>7. QED BY <2>1, <2>4, <2>5, <2>6 DEF Once!Act, Once!Owns, OwnerOf, Published, Told
<1>11. ASSUME NEW c \in Calls, CreateCompletion(c)
       PROVE  UNCHANGED <<OwnerOf, acted, Published, Told>>
  <2>1. /\ pc[c] = "cache" /\ pc' = [pc EXCEPT ![c] = "caching"]
        /\ completions[Key[c]] = NoFile
        /\ completions' = [completions EXCEPT ![Key[c]] = Created(c)]
        /\ UNCHANGED <<events, acted, source, reservations>>
    BY <1>11 DEF CreateCompletion, Goto
  <2>2. \A d \in Calls : /\ completions[Key[d]] # completions'[Key[d]] =>
                              ~completions[Key[d]].text /\ ~completions'[Key[d]].text
    BY <1>a, <2>1 DEF NoFile, Created
  <2>3. \A d \in Calls : Written(d, events[d]).text
    BY DEF Written
  <2>4. Published' = Published
    BY <2>1, <2>2, <2>3 DEF Published
  <2>5. QED BY <1>a, <1>o, <1>t, <2>1, <2>4
<1>12. ASSUME NEW c \in Calls, WriteCompletion(c) PROVE Once!Publish(c)
  <2>1. /\ pc[c] = "caching" /\ pc' = [pc EXCEPT ![c] = "completed"]
        /\ completions' = [completions EXCEPT ![Key[c]] = Written(c, events[c])]
        /\ UNCHANGED <<events, acted, source, reservations>>
    BY <1>12 DEF WriteCompletion, Goto
  <2>2. c \in acted /\ completions[Key[c]] = Created(c)
    BY <1>b, <2>1 DEF CachingInv
  <2>3. \A d \in Calls : Written(d, events[d]).text /\ Written(d, events[d]).owner = d
    BY DEF Written
  <2>4. \A d \in Calls : Key[d] = Key[c] => completions[Key[d]] # Written(d, events[d])
    BY <2>2, <2>3 DEF Created
  <2>5. /\ completions'[Key[c]] = Written(c, events[c])
        /\ \A d \in Calls : Key[d] # Key[c] => completions'[Key[d]] = completions[Key[d]]
    BY <1>a, <2>1
  <2>6. Published' = Published \cup {c}
    BY <2>1, <2>3, <2>4, <2>5 DEF Published
  <2>7. OwnerOf[Key[c]] = c
    BY <1>a, <1>b, <2>1 DEF OwnInv, Working, OwnerOf
  <2>8. OwnerOf' = OwnerOf /\ Told' = Told
    BY <1>a, <1>o, <1>t, <2>1
  <2>9. QED BY <2>1, <2>2, <2>6, <2>7, <2>8 DEF Once!Publish, Once!Owns, OwnerOf, Published, Told
<1>13. ASSUME NEW c \in Calls, Crash(c) PROVE UNCHANGED <<OwnerOf, acted, Published, Told>>
  <2>1. /\ UNCHANGED <<completions, reservations, acted, events, source>>
        /\ pc[c] # "replayed" /\ pc' = [pc EXCEPT ![c] = "dead"]
    BY <1>13, IngressAssumption DEF Crash, Goto, IngressAssumption, Ended
  <2>2. QED BY <1>d, <2>1
<1>14. ASSUME NEW c \in Calls, Drift(c) PROVE Once!Withdraw(c)
  <2>1. /\ c \in Published
        /\ events' = [events EXCEPT ![c] = @ + 1]
        /\ UNCHANGED <<completions, reservations, acted, pc, source>>
    BY <1>14 DEF Drift
  <2>2. completions[Key[c]] = Written(c, events[c]) /\ events'[c] # events[c]
    BY <1>a, <2>1 DEF Published
  <2>3. \A d \in Calls : d # c => events'[d] = events[d]
    BY <1>a, <2>1
  <2>4. Published' = Published \ {c}
    <3>1. c \notin Published'
      BY <2>1, <2>2 DEF Published, Written
    <3>2. \A d \in Calls : d # c => (d \in Published' <=> d \in Published)
      BY <2>1, <2>3 DEF Published
    <3>3. QED BY <3>1, <3>2 DEF Published
  <2>5. OwnerOf' = OwnerOf /\ Told' = Told
    BY <1>o, <1>t, <2>1
  <2>6. QED BY <2>1, <2>4, <2>5 DEF Once!Withdraw, OwnerOf, Told
<1>15. QED
  BY <1>1, <1>2, <1>3, <1>4, <1>5, <1>6, <1>7, <1>8, <1>9, <1>10, <1>11, <1>12, <1>13,
     <1>14
  DEF Next, CallStep, Once!Next

\* The files implement OnceOnly: a key has one owner, only the owner acts, it acts
\* once, and its result is told only to those who asked for the same thing, and only as
\* long as its trace ends where the completion says.
THEOREM IngressImplementsOnceOnly == Spec => ImplementsOnceOnly
<1>1. Init => Once!Init
  <2> SUFFICES ASSUME Init PROVE Once!Init
    OBVIOUS
  <2>1. OwnerOf = [k \in Keys |-> "none"]
    BY DEF Init, OwnerOf, NoFile
  <2>2. Published = {}
    BY DEF Init, Published, NoFile, Written, Keys
  <2>3. Told = [c \in Calls |-> "none"]
    BY DEF Init, Told
  <2>4. QED BY <2>1, <2>2, <2>3 DEF Init, Once!Init, Once!Keys, Keys, OwnerOf, Published, Told
<1>2. PublishInv /\ PublishInv' /\ [Next]_vars => [Once!Next]_(Once!onceVars)
  BY StepRefines DEF Once!onceVars, OwnerOf, Published, Told
<1>3. QED
  BY InitPublishInv, StepPublishInv, <1>1, <1>2, PTL
  DEF Spec, ImplementsOnceOnly, Once!Spec

-----------------------------------------------------------------------------
(* The rate limit *)

\* A call let past has a slot file of its own.
SlotInv ==
    /\ TypeOK
    /\ \A c \in Admitted : slot[c] \in slots
    /\ \A c, d \in Admitted : slot[c] = slot[d] => c = d

LEMMA InitSlotInv == Init => SlotInv
  BY InitOwnInv DEF Init, SlotInv, OwnInv, Admitted

LEMMA StepSlotInv == SlotInv /\ [Next]_vars => SlotInv'
<1> SUFFICES ASSUME SlotInv, [Next]_vars PROVE SlotInv'
  OBVIOUS
<1>1. TypeOK'
  BY StepTypeOK DEF SlotInv
<1>2. pc \in [Calls -> Points] /\ slot \in [Calls -> Slots(maxRequests)]
  BY DEF SlotInv, TypeOK
<1>3. ASSUME NEW c \in Calls, TakeSlot(c) PROVE SlotInv'
  <2>1. /\ pc[c] = "slot" /\ slot[c] \notin slots
        /\ slots' = slots \cup {slot[c]} /\ slot' = slot
        /\ pc' = [pc EXCEPT ![c] = "reserve"]
    BY <1>3 DEF TakeSlot, Goto
  <2>2. Admitted' = Admitted \cup {c}
    BY <1>2, <2>1 DEF Admitted
  <2>3. QED BY <1>1, <2>1, <2>2 DEF SlotInv
<1>4. ASSUME slots' = slots,
             \A c \in Admitted' : c \in Admitted /\ slot'[c] = slot[c]
      PROVE  SlotInv'
  BY <1>1, <1>4 DEF SlotInv
<1>5. ASSUME NEW c \in Calls, slots' = slots, NEW point \in Points,
             pc' = [pc EXCEPT ![c] = point],
             point \in {"slot", "limited", "dead"} \/ c \in Admitted,
             \A d \in Calls : d # c \/ c \in Admitted => slot'[d] = slot[d]
      PROVE  SlotInv'
  <2>1. \A d \in Calls : d \in Admitted' => d \in Admitted
    BY <1>2, <1>5 DEF Admitted
  <2>2. \A d \in Admitted' : d \in Calls /\ (d # c \/ c \in Admitted)
    BY <2>1 DEF Admitted
  <2>3. QED BY <1>4, <1>5, <2>1, <2>2
<1>6. ASSUME NEW c \in Calls, ReadClock(c) PROVE SlotInv'
  <2>1. /\ slots' = slots /\ pc' = [pc EXCEPT ![c] = "slot"]
        /\ slot' = [slot EXCEPT ![c] = [window |-> window, index |-> 0]]
    BY <1>6 DEF ReadClock, Goto
  <2>2. \A d \in Admitted' : d \in Calls /\ d # c
    BY <1>2, <2>1 DEF Admitted
  <2>3. \A d \in Admitted' : d \in Admitted /\ slot'[d] = slot[d]
    BY <1>2, <2>1, <2>2 DEF Admitted
  <2>4. QED BY <1>4, <2>1, <2>3
<1>7. ASSUME NEW c \in Calls, SlotTaken(c) PROVE SlotInv'
  <2>1. \A d \in Admitted' : d \in Admitted /\ d # c
    BY <1>7 DEF SlotTaken, Admitted
  <2>2. QED BY <1>2, <1>4, <1>7, <2>1 DEF SlotTaken, Admitted
<1>8. ASSUME NEW c \in Calls, RateLimited(c) PROVE SlotInv'
  BY <1>5, <1>8 DEF RateLimited, Goto, Points
<1>9. ASSUME NEW c \in Calls, Crash(c) PROVE SlotInv'
  BY <1>5, <1>9 DEF Crash, Goto, Points
\* The steps behind the rate limit.
<1>10. ASSUME NEW c \in Calls,
              \/ Reserve(c) \/ WriteReservation(c) \/ Duplicate(c) \/ ReadReservation(c)
              \/ ReadCompletion(c) \/ Replay(c) \/ Execute(c) \/ FinishRun(c)
              \/ CreateCompletion(c) \/ WriteCompletion(c) \/ KernelFails(c)
       PROVE  SlotInv'
  <2>1. UNCHANGED <<slots, slot>> /\ c \in Admitted
    BY <1>10
    DEF Reserve, WriteReservation, Duplicate, ReadReservation, ReadCompletion, Replay,
        Execute, FinishRun, CreateCompletion, WriteCompletion, KernelFails, Admitted
  <2>2. \E point \in Points : pc' = [pc EXCEPT ![c] = point]
    BY <1>10
    DEF Reserve, WriteReservation, Duplicate, ReadReservation, ReadCompletion, Replay,
        Execute, FinishRun, CreateCompletion, WriteCompletion, KernelFails, Goto, Points
  <2>3. QED BY <1>5, <2>1, <2>2
<1>11. CASE UNCHANGED <<slots, slot, pc>>
  BY <1>4, <1>11 DEF Admitted
<1>12. QED
  BY <1>3, <1>6, <1>7, <1>8, <1>9, <1>10, <1>11 DEF Next, CallStep, vars, Tick, Act, Drift

\* A window lets no more calls past than it has slots.
THEOREM RateLimitHolds == Spec => []WindowLimit
<1>1. SlotInv => WindowLimit
  <2> SUFFICES ASSUME SlotInv, NEW w \in 0..LastWindow
               PROVE  Cardinality({c \in Admitted : slot[c].window = w}) <= maxRequests
    BY DEF WindowLimit
  <2> DEFINE Past == {c \in Admitted : slot[c].window = w}
  <2> DEFINE indexOf == [c \in Past |-> slot[c].index]
  <2>1. \A c \in Past : slot[c] \in Slots(maxRequests - 1)
    BY DEF SlotInv, TypeOK
  <2>2. \A c \in Past : slot[c].index \in 0..(maxRequests - 1)
    BY <2>1 DEF Slots
  <2>3. \A c, d \in Past : slot[c].index = slot[d].index => c = d
    <3> SUFFICES ASSUME NEW c \in Past, NEW d \in Past, slot[c].index = slot[d].index
                 PROVE  c = d
      OBVIOUS
    <3>1. slot[c] = slot[d]
      BY <2>1 DEF Slots
    <3>2. QED BY <3>1 DEF SlotInv
  <2>4. indexOf \in Injection(Past, 0..(maxRequests - 1))
    BY <2>2, <2>3 DEF Injection, IsInjective
  <2>5. IsFiniteSet(0..(maxRequests - 1)) /\ Cardinality(0..(maxRequests - 1)) = maxRequests
    BY FS_Interval, IngressAssumption DEF IngressAssumption
  <2>6. QED BY <2>4, <2>5, FS_Injection
<1>2. QED BY InitSlotInv, StepSlotInv, <1>1, PTL DEF Spec

=============================================================================
