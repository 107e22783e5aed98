------------------------------- MODULE Ingress -------------------------------
(***************************************************************************)
(* The ingress of `ether run` (main, reserveLocalIngressRateLimit,         *)
(* reserveLocalIngressIdempotency and writeLocalIngressIdempotency-        *)
(* Completion of packages/tui/src/cli.ts): every call is a process of its  *)
(* own; the calls of a workspace meet in files they create exclusively     *)
(* (flag wx), slots of a rate-limit window and one reservation per key,    *)
(* before they hand the run over to the supervisor.                        *)
(***************************************************************************)
EXTENDS Naturals, FiniteSets

CONSTANTS
    Calls,           \* invocations of `ether run` on one workspace
    Key,             \* Key[c]: the idempotency key of c, its own run id by default
    Intent,          \* Intent[c]: the normalized intent of c
    Approving,       \* the intents that contain --approve-write
    maxRequests,     \* slots of a window
    LastWindow,      \* bound: the last window of the clock
    CrashAt,         \* points at which a call may be killed
    Faults           \* "kernel": the kernel run may fail; "drift": another client of
                     \* the supervisor appends to the ledger under the id of a run

Points ==
    {"idle", "slot", "reserve", "reserving", "execute", "running", "cache", "caching",
     "duplicate", "cached", "replay",
     "completed", "blocked", "failed", "refused", "limited", "replayed", "dead"}

Ended == {"completed", "blocked", "failed", "refused", "limited", "replayed", "dead"}

ASSUME IngressAssumption ==
    /\ "none" \notin Calls
    /\ maxRequests \in Nat \ {0}
    /\ LastWindow \in Nat
    /\ CrashAt \subseteq Points \ Ended
    /\ Faults \subseteq {"kernel", "drift"}

VARIABLES
    window,          \* the current window of the clock
    slots,           \* the slot files: [window, index]
    reservations,    \* reservations[k]: the reservation file of key k
    completions,     \* completions[k]: the completion file of key k
    manifests,       \* manifests[c]: the manifest of c's run, its status and how many
                     \* events it lists at the end
    handed,          \* the calls whose run the supervisor may carry out
    acted,           \* the calls whose write has been carried out
    events,          \* events[c]: number of events of c's run in the ledger
    pc,              \* pc[c]: where c is
    slot,            \* slot[c]: the window c read off the clock, the slot it tries
    source           \* source[c]: the completion c has read

vars == <<window, slots, reservations, completions, manifests, handed, acted, events,
          pc, slot, source>>

Keys == {Key[c] : c \in Calls}
Approved(c) == Intent[c] \in Approving

\* A file that was created but holds no text yet: it does not parse.
NoFile == [owner |-> "none", text |-> FALSE, head |-> 0]
Created(c) == [owner |-> c, text |-> FALSE, head |-> 0]
Written(c, n) == [owner |-> c, text |-> TRUE, head |-> n]

Manifest(status, n) == [status |-> status, events |-> n]

Init ==
    /\ window = 0
    /\ slots = {}
    /\ reservations = [k \in Keys |-> NoFile]
    /\ completions = [k \in Keys |-> NoFile]
    /\ manifests = [c \in Calls |-> Manifest("missing", 0)]
    /\ handed = {}
    /\ acted = {}
    /\ events = [c \in Calls |-> 0]
    /\ pc = [c \in Calls |-> "idle"]
    /\ slot = [c \in Calls |-> [window |-> 0, index |-> 0]]
    /\ source = [c \in Calls |-> NoFile]

Goto(c, point) == pc' = [pc EXCEPT ![c] = point]

-----------------------------------------------------------------------------
(* reserveLocalIngressRateLimit *)

Tick ==
    /\ window < LastWindow
    /\ window' = window + 1
    /\ UNCHANGED <<slots, reservations, completions, manifests, handed, acted, events,
                   pc, slot, source>>

\* The clock is read once, before the first slot is tried.
ReadClock(c) ==
    /\ pc[c] = "idle"
    /\ slot' = [slot EXCEPT ![c] = [window |-> window, index |-> 0]]
    /\ Goto(c, "slot")
    /\ UNCHANGED <<window, slots, reservations, completions, manifests, handed, acted,
                   events, source>>

\* Variant of TakeSlot: the slot file is written whether or not it exists.
TakeAnySlot(c) ==
    /\ pc[c] = "slot"
    /\ slot[c].index < maxRequests
    /\ slots' = slots \cup {slot[c]}
    /\ Goto(c, "reserve")
    /\ UNCHANGED <<window, reservations, completions, manifests, handed, acted, events,
                   slot, source>>

\* writeFileSync with flag wx: one call gets the slot.
TakeSlot(c) ==
    /\ pc[c] = "slot"
    /\ slot[c].index < maxRequests
    /\ slot[c] \notin slots
    /\ slots' = slots \cup {slot[c]}
    /\ Goto(c, "reserve")
    /\ UNCHANGED <<window, reservations, completions, manifests, handed, acted, events,
                   slot, source>>

\* Variant of SlotTaken: the same slot is tried again.
SlotTakenAgain(c) ==
    /\ pc[c] = "slot"
    /\ slot[c] \in slots
    /\ UNCHANGED vars

SlotTaken(c) ==
    /\ pc[c] = "slot"
    /\ slot[c] \in slots
    /\ slot' = [slot EXCEPT ![c].index = @ + 1]
    /\ UNCHANGED <<window, slots, reservations, completions, manifests, handed, acted,
                   events, pc, source>>

RateLimited(c) ==
    /\ pc[c] = "slot"
    /\ slot[c].index = maxRequests
    /\ Goto(c, "limited")
    /\ UNCHANGED <<window, slots, reservations, completions, manifests, handed, acted,
                   events, slot, source>>

-----------------------------------------------------------------------------
(* reserveLocalIngressIdempotency *)

Reserve(c) ==
    /\ pc[c] = "reserve"
    /\ reservations[Key[c]] = NoFile
    /\ reservations' = [reservations EXCEPT ![Key[c]] = Created(c)]
    /\ Goto(c, "reserving")
    /\ UNCHANGED <<window, slots, completions, manifests, handed, acted, events, slot, source>>

WriteReservation(c) ==
    /\ pc[c] = "reserving"
    /\ reservations' = [reservations EXCEPT ![Key[c]] = Written(c, 0)]
    /\ Goto(c, "execute")
    /\ UNCHANGED <<window, slots, completions, manifests, handed, acted, events, slot, source>>

\* wx answers EEXIST.
Duplicate(c) ==
    /\ pc[c] = "reserve"
    /\ reservations[Key[c]] # NoFile
    /\ Goto(c, "duplicate")
    /\ UNCHANGED <<window, slots, reservations, completions, manifests, handed, acted,
                   events, slot, source>>

\* Variant of ReadReservation: the intents are not compared.
ReadAnyReservation(c) ==
    /\ pc[c] = "duplicate"
    /\ Goto(c, IF reservations[Key[c]].text THEN "cached" ELSE "refused")
    /\ UNCHANGED <<window, slots, reservations, completions, manifests, handed, acted,
                   events, slot, source>>

\* The reservation is refused when it does not parse or is for another intent.
ReadReservation(c) ==
    /\ pc[c] = "duplicate"
    /\ LET r == reservations[Key[c]]
       IN  Goto(c, IF r.text /\ Intent[r.owner] = Intent[c] THEN "cached" ELSE "refused")
    /\ UNCHANGED <<window, slots, reservations, completions, manifests, handed, acted,
                   events, slot, source>>

\* readAndValidateCachedIdempotencyCompletion: without a completion of the
\* reserved run the call is refused, whether the run is at work, failed or died.
ReadCompletion(c) ==
    /\ pc[c] = "cached"
    /\ source' = [source EXCEPT ![c] = completions[Key[c]]]
    /\ LET r == completions[Key[c]]
       IN  Goto(c, IF r.text /\ r.owner = reservations[Key[c]].owner THEN "replay" ELSE "refused")
    /\ UNCHANGED <<window, slots, reservations, completions, manifests, handed, acted,
                   events, slot>>

\* Variant of Replay: the trace is not looked at again.
ReplayDrifted(c) ==
    /\ pc[c] = "replay"
    /\ Goto(c, IF manifests[source[c].owner] = Manifest("completed", source[c].head)
               THEN "replayed" ELSE "refused")
    /\ UNCHANGED <<window, slots, reservations, completions, manifests, handed, acted,
                   events, slot, source>>

\* The manifest is still completed with the events it listed, and the trace still
\* ends where it did.
Replay(c) ==
    /\ pc[c] = "replay"
    /\ LET run == source[c].owner
           head == source[c].head
       IN  Goto(c, IF manifests[run] = Manifest("completed", head) /\ events[run] = head
                   THEN "replayed" ELSE "refused")
    /\ UNCHANGED <<window, slots, reservations, completions, manifests, handed, acted,
                   events, slot, source>>

-----------------------------------------------------------------------------
(* The kernel run, as SupervisedRun details it *)

Execute(c) ==
    /\ pc[c] = "execute"
    /\ manifests' = [manifests EXCEPT ![c] = Manifest("running", 1)]
    /\ events' = [events EXCEPT ![c] = 1]
    /\ handed' = handed \cup {c}
    /\ Goto(c, "running")
    /\ UNCHANGED <<window, slots, reservations, completions, acted, slot, source>>

\* The supervisor carries out an approved write, whether or not c still waits.
Act(c) ==
    /\ c \in handed \ acted
    /\ Approved(c)
    /\ acted' = acted \cup {c}
    /\ events' = [events EXCEPT ![c] = @ + 1]
    /\ UNCHANGED <<window, slots, reservations, completions, manifests, handed, pc, slot, source>>

\* The run completes after its write, or is blocked without one.
FinishRun(c) ==
    /\ pc[c] = "running"
    /\ Approved(c) => c \in acted
    /\ manifests' = [manifests EXCEPT ![c] =
                        Manifest(IF c \in acted THEN "completed" ELSE "blocked", events[c] + 1)]
    /\ events' = [events EXCEPT ![c] = @ + 1]
    /\ Goto(c, IF c \in acted THEN "cache" ELSE "blocked")
    /\ UNCHANGED <<window, slots, reservations, completions, handed, acted, slot, source>>

\* The run throws, or its trace is not fit to be cached: its reservation stays,
\* and so does what the supervisor has been asked to do.
KernelFails(c) ==
    /\ "kernel" \in Faults
    /\ pc[c] \in {"execute", "running", "cache"}
    /\ Goto(c, "failed")
    /\ UNCHANGED <<window, slots, reservations, completions, manifests, handed, acted,
                   events, slot, source>>

-----------------------------------------------------------------------------
(* writeLocalIngressIdempotencyCompletion *)

CreateCompletion(c) ==
    /\ pc[c] = "cache"
    /\ completions[Key[c]] = NoFile
    /\ completions' = [completions EXCEPT ![Key[c]] = Created(c)]
    /\ Goto(c, "caching")
    /\ UNCHANGED <<window, slots, reservations, manifests, handed, acted, events, slot, source>>

\* Variant of WriteCompletion: the head is that of the trace without its last event.
WriteOldCompletion(c) ==
    /\ pc[c] = "caching"
    /\ completions' = [completions EXCEPT ![Key[c]] = Written(c, events[c] - 1)]
    /\ Goto(c, "completed")
    /\ UNCHANGED <<window, slots, reservations, manifests, handed, acted, events, slot, source>>

WriteCompletion(c) ==
    /\ pc[c] = "caching"
    /\ completions' = [completions EXCEPT ![Key[c]] = Written(c, events[c])]
    /\ Goto(c, "completed")
    /\ UNCHANGED <<window, slots, reservations, manifests, handed, acted, events, slot, source>>

-----------------------------------------------------------------------------
\* The calls whose completion tells where their trace ends.
Published == {c \in Calls : completions[Key[c]] = Written(c, events[c])}

\* event.append takes any run id: an event is added to a run whose result is there
\* to be replayed (bound: one to each run).
Drift(c) ==
    /\ "drift" \in Faults
    /\ c \in Published
    /\ events' = [events EXCEPT ![c] = @ + 1]
    /\ UNCHANGED <<window, slots, reservations, completions, manifests, handed, acted,
                   pc, slot, source>>

Crash(c) ==
    /\ pc[c] \in CrashAt
    /\ Goto(c, "dead")
    /\ UNCHANGED <<window, slots, reservations, completions, manifests, handed, acted,
                   events, slot, source>>

\* What c does once it has been started.
CallStep(c) ==
    \/ TakeSlot(c) \/ SlotTaken(c) \/ RateLimited(c)
    \/ Reserve(c) \/ WriteReservation(c)
    \/ Duplicate(c) \/ ReadReservation(c) \/ ReadCompletion(c) \/ Replay(c)
    \/ Execute(c) \/ FinishRun(c) \/ CreateCompletion(c) \/ WriteCompletion(c)

Next ==
    \/ Tick
    \/ \E c \in Calls :
           ReadClock(c) \/ CallStep(c) \/ Act(c) \/ KernelFails(c) \/ Drift(c) \/ Crash(c)

Spec == Init /\ [][Next]_vars

\* A process that was started and the supervisor keep running.
FairSpec == Spec /\ \A c \in Calls : WF_vars(CallStep(c)) /\ WF_vars(Act(c))

-----------------------------------------------------------------------------
(* Properties *)

Files == [owner : Calls \cup {"none"}, text : BOOLEAN, head : Nat]
Slots(last) == [window : 0..LastWindow, index : 0..last]

\* Every variable holds values of its type.
TypeOK ==
    /\ window \in 0..LastWindow
    /\ slots \subseteq Slots(maxRequests - 1)
    /\ reservations \in [Keys -> Files]
    /\ completions \in [Keys -> Files]
    /\ manifests \in [Calls -> [status : {"missing", "running", "completed", "blocked"},
                               events : Nat]]
    /\ handed \subseteq Calls
    /\ acted \subseteq Calls
    /\ events \in [Calls -> Nat]
    /\ pc \in [Calls -> Points]
    /\ slot \in [Calls -> Slots(maxRequests)]
    /\ source \in [Calls -> Files]

\* Reusing a key never repeats a write: at most one of the calls with a key acts,
\* also when the first one died, failed or was given up on after its write.
ActsAtMostOnce ==
    \A c, d \in acted : Key[c] = Key[d] => c = d

\* The calls that have got a slot.
Admitted == {c \in Calls : pc[c] \notin {"idle", "slot", "limited", "dead"}}

\* However many calls race for the slots of a window, it lets no more calls past
\* than it has slots, those of calls that read the clock just before it ended included.
WindowLimit ==
    \A w \in 0..LastWindow :
        Cardinality({c \in Admitted : slot[c].window = w}) <= maxRequests

\* The idempotency promise: one owner per key, and only its published result is
\* told to others, only to those who ask for the same thing, and only while its trace
\* ends where the completion says.
Once == INSTANCE OnceOnly WITH
    owner <- [k \in Keys |-> reservations[k].owner],
    published <- Published,
    told <- [c \in Calls |-> IF pc[c] = "replayed" THEN source[c].owner ELSE "none"]

ImplementsOnceOnly == Once!Spec

\* Whoever races, dies or fails, a call that was started comes to an end: nobody
\* waits for the holder of a slot or of a reservation.
CallsEnd == \A c \in Calls : pc[c] # "idle" ~> pc[c] \in Ended

\* The trace of c's run has gone on behind its manifest.
Drifted(c) == events[c] # manifests[c].events

\* Once a run has returned its result, a call that repeats the request is told
\* that result, unless it is rate limited or killed or the trace has drifted.
RepeatsAreReplayed ==
    \A c, d \in Calls :
        Key[c] = Key[d] /\ Intent[c] = Intent[d] /\ pc[c] = "slot" /\ pc[d] = "completed"
            ~> pc[c] \in {"replayed", "limited", "dead"} \/ Drifted(d)
=============================================================================
