------------------------------ MODULE OnceOnly ------------------------------
(***************************************************************************)
(* What an idempotency key promises to the callers of `ether run`: of all  *)
(* the calls that carry a key, one owns it, only the owner acts, and it    *)
(* acts once.  Another call is told the owner's published result if it     *)
(* asks for the same thing, and nothing otherwise.                         *)
(***************************************************************************)
CONSTANTS
    Calls,       \* the calls
    Key,         \* Key[c]: the key of call c
    Intent,      \* Intent[c]: what c asks for
    Approving    \* the intents that approve the action

VARIABLES
    owner,       \* owner[k]: the call that owns key k, or "none"
    acted,       \* the calls whose action has been carried out
    published,   \* the calls whose result is published
    told         \* told[c]: the call whose result c was told, or "none"

onceVars == <<owner, acted, published, told>>

Keys == {Key[c] : c \in Calls}
Owns(c) == owner[Key[c]] = c

Init ==
    /\ owner = [k \in Keys |-> "none"]
    /\ acted = {}
    /\ published = {}
    /\ told = [c \in Calls |-> "none"]

Claim(c) ==
    /\ owner[Key[c]] = "none"
    /\ owner' = [owner EXCEPT ![Key[c]] = c]
    /\ UNCHANGED <<acted, published, told>>

Act(c) ==
    /\ Owns(c)
    /\ Intent[c] \in Approving
    /\ c \notin acted
    /\ acted' = acted \cup {c}
    /\ UNCHANGED <<owner, published, told>>

Publish(c) ==
    /\ Owns(c)
    /\ c \in acted
    /\ published' = published \cup {c}
    /\ UNCHANGED <<owner, acted, told>>

\* The record of c no longer ends where its result was published.
Withdraw(c) ==
    /\ c \in published
    /\ published' = published \ {c}
    /\ UNCHANGED <<owner, acted, told>>

Tell(c, d) ==
    /\ d \in published
    /\ Key[c] = Key[d] /\ Intent[c] = Intent[d]
    /\ told' = [told EXCEPT ![c] = d]
    /\ UNCHANGED <<owner, acted, published>>

Next == \E c \in Calls :
    Claim(c) \/ Act(c) \/ Publish(c) \/ Withdraw(c) \/ \E d \in Calls : Tell(c, d)

Spec == Init /\ [][Next]_onceVars
=============================================================================
