-------------------------- MODULE ModelProviderProofs --------------------------
(* A call to a provider is retried only when that may help, as often as it    *)
(* may be, and waits no longer than it may: the program point tells how many  *)
(* of the attempts have failed, which is what RetriesAreJustified lacks.      *)
(* What an answer is made of is told by the place where its stream is read,   *)
(* which is what AnswerIsWhatWasSent lacks.                                   *)
EXTENDS ModelProvider, FiniteSetTheorems, TLAPS

Kinds ==
    {"credential", "timeout", "network", "rejected", "busy", "broken", "tool_call", "malformed"}
Failures == [kind : Kinds, again : BOOLEAN, waited : 0..MaxDelay]

\* Where an attempt is, before it has failed or after.
Underway == {"start", "sent", "body", "answered"}
Failed == {"waiting", "failed"}

\* What withProviderRetry knows at the head of its loop and where it throws.
RetryInv ==
    /\ pc \in Underway \cup Failed
    /\ attempt \in 0..MaxRetries
    /\ failures \in Seq(Failures)
    /\ pc \in Underway => Len(failures) = attempt
    /\ pc \in Failed => Len(failures) = attempt + 1
    /\ pc = "waiting" => attempt < MaxRetries
    /\ \A i \in 1..Len(failures) : failures[i].again \/ (pc = "failed" /\ i = Len(failures))
    /\ pc = "failed" => ~failures[Len(failures)].again \/ attempt = MaxRetries

\* A delay that a provider asks for is cut to the longest allowed one, and a
\* delay of one's own is not longer (providerRetryDelayMs).
LEMMA DelaysAreBounded ==
    ASSUME NEW asked \in SUBSET RetryAfters, NEW ms \in Delays(asked)
    PROVE  ms \in 0..MaxDelay
<1>1. CASE asked # {}
  <2>1. PICK a \in asked : ms = Min({a, MaxDelay})
    BY <1>1 DEF Delays
  <2>2. a \in Nat /\ MaxDelay \in Nat
    BY ConstantsAssumption DEF ConstantsAssumption
  <2>3. \E x \in {a, MaxDelay} : \A y \in {a, MaxDelay} : x =< y
    BY <2>2
  <2>4. /\ Min({a, MaxDelay}) \in {a, MaxDelay}
        /\ \A y \in {a, MaxDelay} : Min({a, MaxDelay}) =< y
    BY <2>3 DEF Min
  <2> QED
    BY <2>1, <2>2, <2>4
<1>2. CASE asked = {}
  BY <1>2 DEF Delays
<1> QED
  BY <1>1, <1>2

\* Variables no retry looks at may change while the call stays where it is.
LEMMA OthersKeep ==
    ASSUME RetryInv, UNCHANGED <<pc, attempt, failures>>
    PROVE  RetryInv'
BY DEF RetryInv

\* A step from one point of an attempt to another.
LEMMA MovesKeep ==
    ASSUME RetryInv, pc \in Underway, pc' \in Underway, UNCHANGED <<attempt, failures>>
    PROVE  RetryInv'
BY DEF RetryInv, Underway, Failed

\* A failure after which the call fails.
LEMMA LastFailureKeeps ==
    ASSUME RetryInv, pc \in Underway, NEW f \in Failures,
           failures' = Append(failures, f), pc' = "failed", attempt' = attempt,
           ~f.again \/ attempt = MaxRetries
    PROVE  RetryInv'
<1>1. /\ failures' \in Seq(Failures)
      /\ Len(failures') = attempt + 1
      /\ failures'[attempt + 1] = f
      /\ \A i \in 1..attempt : failures'[i] = failures[i]
  BY DEF RetryInv
<1>2. \A i \in 1..attempt : failures[i].again
  BY DEF RetryInv, Underway
<1>3. attempt \in 0..MaxRetries /\ MaxRetries \in Nat
  BY ConstantsAssumption DEF ConstantsAssumption, RetryInv
<1>4. \A i \in 1..Len(failures') : failures'[i].again \/ i = Len(failures')
  BY <1>1, <1>2, <1>3
<1> QED
  BY <1>1, <1>3, <1>4 DEF RetryInv, Underway, Failed

\* A failure after which the call waits for its next attempt.
LEMMA RetriedFailureKeeps ==
    ASSUME RetryInv, pc \in Underway, NEW f \in Failures,
           failures' = Append(failures, f), pc' = "waiting", attempt' = attempt,
           f.again, attempt < MaxRetries
    PROVE  RetryInv'
<1>1. /\ failures' \in Seq(Failures)
      /\ Len(failures') = attempt + 1
      /\ failures'[attempt + 1] = f
      /\ \A i \in 1..attempt : failures'[i] = failures[i]
  BY DEF RetryInv
<1>2. \A i \in 1..attempt : failures[i].again
  BY DEF RetryInv, Underway
<1>3. attempt \in 0..MaxRetries /\ MaxRetries \in Nat
  BY ConstantsAssumption DEF ConstantsAssumption, RetryInv
<1>4. \A i \in 1..Len(failures') : failures'[i].again
  BY <1>1, <1>2, <1>3
<1> QED
  BY <1>1, <1>3, <1>4 DEF RetryInv, Underway, Failed

\* What will not pass fails the call at once.
LEMMA RefusalKeeps ==
    ASSUME RetryInv, pc \in Underway, NEW kind \in Kinds, Fails(kind, FALSE, {})
    PROVE  RetryInv'
<1> DEFINE f == [kind |-> kind, again |-> FALSE, waited |-> 0]
<1>1. f \in Failures
  <2>1. 0 \in 0..MaxDelay
    BY ConstantsAssumption DEF ConstantsAssumption
  <2> QED
    BY <2>1, Zenon DEF Failures
<1>2. ~f.again
  OBVIOUS
<1>3. failures' = Append(failures, f) /\ pc' = "failed" /\ attempt' = attempt
  BY DEF Fails, CanRetry
<1> HIDE DEF f
<1> QED
  BY <1>1, <1>2, <1>3, LastFailureKeeps

\* What may pass is tried again unless this was the last attempt.
LEMMA FaultKeeps ==
    ASSUME RetryInv, pc \in Underway, NEW kind \in Kinds, NEW asked \in SUBSET RetryAfters,
           Fails(kind, TRUE, asked)
    PROVE  RetryInv'
<1>1. attempt \in 0..MaxRetries /\ MaxRetries \in Nat /\ 0 \in 0..MaxDelay /\ attempt' = attempt
  BY ConstantsAssumption DEF ConstantsAssumption, RetryInv, Fails
<1>2. CASE attempt < MaxRetries
  <2>1. PICK ms \in Delays(asked) :
          /\ failures' = Append(failures, [kind |-> kind, again |-> TRUE, waited |-> ms])
          /\ pc' = "waiting"
    BY <1>2 DEF Fails, CanRetry
  <2> DEFINE f == [kind |-> kind, again |-> TRUE, waited |-> ms]
  <2>2. f \in Failures
    BY DelaysAreBounded DEF Failures
  <2>3. f.again
    OBVIOUS
  <2>4. failures' = Append(failures, f)
    BY <2>1
  <2> HIDE DEF f
  <2> QED
    BY <1>1, <1>2, <2>1, <2>2, <2>3, <2>4, RetriedFailureKeeps
<1>3. CASE ~(attempt < MaxRetries)
  <2> DEFINE f == [kind |-> kind, again |-> TRUE, waited |-> 0]
  <2>1. f \in Failures
    BY <1>1 DEF Failures
  <2>2. failures' = Append(failures, f) /\ pc' = "failed"
    BY <1>3 DEF Fails, CanRetry
  <2>3. attempt = MaxRetries
    BY <1>1, <1>3
  <2> HIDE DEF f
  <2> QED
    BY <1>1, <2>1, <2>2, <2>3, LastFailureKeeps
<1> QED
  BY <1>2, <1>3

\* Each step of a call keeps the invariant.
LEMMA StepKeeps ==
    ASSUME RetryInv, [Next]_vars
    PROVE  RetryInv'
<1> USE DEF Underway
<1>1. CASE Refuse
  <2> DEFINE f == [kind |-> "credential", again |-> FALSE, waited |-> 0]
  <2>1. f \in Failures
    <3>1. 0 \in 0..MaxDelay
      BY ConstantsAssumption DEF ConstantsAssumption
    <3> QED
      BY <3>1, Zenon DEF Failures, Kinds
  <2>3. ~f.again
    OBVIOUS
  <2>2. failures' = Append(failures, f) /\ pc = "start" /\ pc' = "failed" /\ attempt' = attempt
    BY <1>1 DEF Refuse
  <2> HIDE DEF f
  <2> QED
    BY <2>1, <2>2, <2>3, LastFailureKeeps
<1>2. CASE Send
  BY <1>2, MovesKeep DEF Send
<1>3. CASE TryAgain
  BY <1>3, ConstantsAssumption DEF ConstantsAssumption, TryAgain, RetryInv, Failed
<1>4. CASE TimeOut
  <2>1. {} \in SUBSET RetryAfters
    OBVIOUS
  <2> QED
    BY <1>4, <2>1, FaultKeeps, Zenon DEF TimeOut, Kinds
<1>5. CASE NetworkFails
  <2>1. {} \in SUBSET RetryAfters
    OBVIOUS
  <2> QED
    BY <1>5, <2>1, FaultKeeps, Zenon DEF NetworkFails, Kinds
<1>6. CASE Refused
  <2>1. CASE Fails("rejected", FALSE, {})
    BY <1>6, <2>1, RefusalKeeps, Zenon DEF Refused, Kinds
  <2>2. ASSUME NEW asked \in {{}} \cup {{a} : a \in RetryAfters}, Fails("busy", TRUE, asked)
        PROVE  RetryInv'
    <3>1. asked \in SUBSET RetryAfters
      OBVIOUS
    <3> QED
      BY <1>6, <2>2, <3>1, FaultKeeps, Zenon DEF Refused, Kinds
  <2> QED
    BY <1>6, <2>1, <2>2 DEF Refused
<1>7. CASE HeadersArrive
  BY <1>7, MovesKeep DEF HeadersArrive
<1>8. CASE ReadLine
  BY <1>8, OthersKeep DEF ReadLine
<1>9. CASE StreamCloses \/ StreamIsCut
  BY <1>9, MovesKeep DEF StreamCloses, StreamIsCut, StreamEnds
<1>10. CASE StreamBreaks
  BY <1>10, RefusalKeeps, Zenon DEF StreamBreaks, Kinds
<1>11. CASE BodyIsRead
  BY <1>11, MovesKeep DEF BodyIsRead
<1>12. CASE BodyHasCalls
  BY <1>12, RefusalKeeps, Zenon DEF BodyHasCalls, Kinds
<1>13. CASE BodyIsMalformed
  BY <1>13, RefusalKeeps, Zenon DEF BodyIsMalformed, Kinds
<1>14. CASE UNCHANGED vars
  BY <1>14, OthersKeep DEF vars
<1> QED
  BY <1>1, <1>2, <1>3, <1>4, <1>5, <1>6, <1>7, <1>8, <1>9, <1>10, <1>11, <1>12, <1>13, <1>14
     DEF Next, Program, Fate

\* At every moment the invariant says what RetriesAreJustified asks.
LEMMA InvJustifies ==
    ASSUME RetryInv
    PROVE  RetriesAreJustified
<1>1. /\ attempt \in 0..MaxRetries /\ MaxRetries \in Nat /\ MaxDelay \in Nat
      /\ Len(failures) \in Nat
      /\ Len(failures) = attempt \/ Len(failures) = attempt + 1
  BY ConstantsAssumption DEF ConstantsAssumption, RetryInv
<1>2. failures \in Seq(Failures)
  BY DEF RetryInv
<1>3. DOMAIN failures = 1..Len(failures)
  BY <1>2
<1>4. \A i \in DOMAIN failures : failures[i].waited <= MaxDelay
  <2>1. \A i \in DOMAIN failures : failures[i] \in Failures
    BY <1>2
  <2>2. \A i \in DOMAIN failures : failures[i].waited \in 0..MaxDelay
    BY <2>1, Zenon DEF Failures
  <2> QED
    BY <1>1, <2>2
<1>5. \A i \in DOMAIN failures : i < Len(failures) => failures[i].again
  <2>1. \A i \in 1..Len(failures) : i < Len(failures) => i # Len(failures)
    BY <1>1
  <2> QED
    BY <1>3, <2>1, Zenon DEF RetryInv
<1>6. pc = "failed" => ~Last(failures).again \/ Len(failures) = MaxRetries + 1
  BY <1>1 DEF RetryInv, Failed, Last
<1>7. pc = "answered" => Len(failures) = attempt
  BY DEF RetryInv, Underway
<1>8. Len(failures) <= MaxRetries + 1
  BY <1>1
<1> QED
  BY <1>4, <1>5, <1>6, <1>7, <1>8, Zenon DEF RetriesAreJustified

\* A call fails at once for what will not pass, otherwise only after the last
\* of its attempts, and never waits longer than it may, whatever the provider
\* asks for (withProviderRetry, providerRetryDelayMs).
THEOREM RetriesAlwaysJustified == Spec => []RetriesAreJustified
<1>1. Init => RetryInv
  <2> SUFFICES ASSUME Init
               PROVE  RetryInv
    OBVIOUS
  <2> QED
    BY ConstantsAssumption DEF ConstantsAssumption, Init, RetryInv, Underway, Failed
<1>2. RetryInv /\ [Next]_vars => RetryInv'
  BY StepKeeps
<1>3. RetryInv => RetriesAreJustified
  BY InvJustifies
<1> QED
  BY <1>1, <1>2, <1>3, PTL DEF Spec

-----------------------------------------------------------------------------

\* A function on the first naturals is a sequence.
LEMMA SeqsAreFunctions ==
    ASSUME NEW n \in Nat, NEW S, NEW f \in [1..n -> S]
    PROVE  f \in Seq(S) /\ Len(f) = n
OBVIOUS

\* Sequences with the same items are the same.
LEMMA SameItems ==
    ASSUME NEW S, NEW s \in Seq(S), NEW t \in Seq(S), Len(s) = Len(t),
           \A k \in 1..Len(s) : s[k] = t[k]
    PROVE  s = t
OBVIOUS

\* What begins another sequence, by its items.
LEMMA PrefixByItems ==
    ASSUME NEW S, NEW s \in Seq(S), NEW t \in Seq(S), Len(s) <= Len(t),
           \A k \in 1..Len(s) : s[k] = t[k]
    PROVE  IsPrefix(s, t)
BY DEF IsPrefix

-----------------------------------------------------------------------------
(* The order of the blocks: InOrder lists a finite set of indexes upwards.   *)

Indexes == {S \in SUBSET Nat : IsFiniteSet(S)}

\* What is before an index grows with the index, strictly.
LEMMA BeforeGrows ==
    ASSUME NEW S \in Indexes, NEW i \in S, NEW j \in S, i < j
    PROVE  /\ Cardinality(Before(S, i)) \in Nat /\ Cardinality(Before(S, j)) \in Nat
           /\ Cardinality(Before(S, i)) < Cardinality(Before(S, j))
<1>1. /\ IsFiniteSet(Before(S, i)) /\ Cardinality(Before(S, i)) \in Nat
      /\ IsFiniteSet(Before(S, j)) /\ Cardinality(Before(S, j)) \in Nat
  BY FS_Subset, FS_CardinalityType DEF Before, Indexes
<1>2. Before(S, i) \in SUBSET Before(S, j) /\ i \in Before(S, j) /\ i \notin Before(S, i)
  <2>1. \A h \in S : h \in Nat
    BY DEF Indexes
  <2>2. \A h \in S : h < i => h < j
    BY <2>1
  <2>3. ~(i < i)
    BY <2>1
  <2> QED
    BY <2>2, <2>3, Zenon DEF Before
<1>3. /\ Cardinality(Before(S, i)) <= Cardinality(Before(S, j))
      /\ Cardinality(Before(S, i)) # Cardinality(Before(S, j))
  BY <1>1, <1>2, FS_Subset, Zenon
<1> QED
  BY <1>1, <1>3

\* No two indexes have as many before them.
LEMMA PlacesDiffer ==
    ASSUME NEW S \in Indexes, NEW i \in S, NEW j \in S,
           Cardinality(Before(S, i)) = Cardinality(Before(S, j))
    PROVE  i = j
<1>1. i \in Nat /\ j \in Nat
  BY DEF Indexes
<1>2. ~(i < j) /\ ~(j < i)
  BY BeforeGrows
<1> QED
  BY <1>1, <1>2

\* Every place in the order has its index: there are as many as places.
LEMMA PlacesTaken ==
    ASSUME NEW S \in Indexes, NEW k \in 1..Cardinality(S)
    PROVE  \E i \in S : Cardinality(Before(S, i)) = k - 1
<1> DEFINE n == Cardinality(S)
           place == [i \in S |-> Cardinality(Before(S, i)) + 1]
<1>1. IsFiniteSet(S) /\ n \in Nat
  BY FS_CardinalityType DEF Indexes
<1>2. IsFiniteSet(1..n) /\ Cardinality(1..n) = n
  BY <1>1, FS_Interval
<1>3. ASSUME NEW i \in S
      PROVE  place[i] \in 1..n
  <2>1. Before(S, i) \in SUBSET S /\ i \notin Before(S, i)
    BY DEF Before, Indexes
  <2>2. /\ IsFiniteSet(Before(S, i)) /\ Cardinality(Before(S, i)) \in Nat
        /\ Cardinality(Before(S, i)) <= n /\ Cardinality(Before(S, i)) # n
    BY <1>1, <2>1, FS_Subset, FS_CardinalityType
  <2> QED
    BY <1>1, <2>2
<1>4. place \in Injection(S, 1..n)
  <2>1. place \in [S -> 1..n]
    BY <1>3
  <2>2. ASSUME NEW i \in S, NEW j \in S, place[i] = place[j]
        PROVE  i = j
    <3>1. Cardinality(Before(S, i)) \in Nat /\ Cardinality(Before(S, j)) \in Nat
      BY FS_Subset, FS_CardinalityType DEF Before, Indexes
    <3> QED
      BY <2>2, <3>1, PlacesDiffer
  <2> QED
    BY <2>1, <2>2, Zenon DEF Injection, IsInjective
<1> HIDE DEF place
<1>5. place \in Surjection(S, 1..n)
  BY <1>1, <1>2, <1>4, FS_Injection, Zenon
<1>6. PICK i \in S : place[i] = k
  BY <1>5 DEF Surjection
<1>7. Cardinality(Before(S, i)) \in Nat
  BY FS_Subset, FS_CardinalityType DEF Before, Indexes
<1>8. Cardinality(Before(S, i)) + 1 = k
  BY <1>6 DEF place
<1> QED
  BY <1>7, <1>8

\* What InOrder lists, and where.
LEMMA ListedInOrder ==
    ASSUME NEW S \in Indexes
    PROVE  /\ Cardinality(S) \in Nat
           /\ InOrder(S) \in [1..Cardinality(S) -> S]
           /\ \A k \in 1..Cardinality(S) : Cardinality(Before(S, InOrder(S)[k])) = k - 1
<1>1. Cardinality(S) \in Nat
  BY FS_CardinalityType DEF Indexes
<1>2. ASSUME NEW k \in 1..Cardinality(S)
      PROVE  /\ InOrder(S)[k] \in S
             /\ Cardinality(Before(S, InOrder(S)[k])) = k - 1
  <2>1. \E i \in S : Cardinality(Before(S, i)) = k - 1
    BY PlacesTaken
  <2>2. InOrder(S)[k] = CHOOSE i \in S : Cardinality(Before(S, i)) = k - 1
    BY DEF InOrder
  <2> QED
    BY <2>1, <2>2, Zenon
<1>3. InOrder(S) = [k \in 1..Cardinality(S) |-> InOrder(S)[k]]
  BY DEF InOrder
<1> HIDE DEF InOrder
<1> QED
  BY <1>1, <1>2, <1>3, Zenon

\* The list goes upwards.
LEMMA ListedUpwards ==
    ASSUME NEW S \in Indexes, NEW k \in 1..Cardinality(S), NEW l \in 1..Cardinality(S), k < l
    PROVE  InOrder(S)[k] < InOrder(S)[l]
<1> DEFINE i == InOrder(S)[k]
           j == InOrder(S)[l]
<1>1. /\ i \in S /\ j \in S
      /\ Cardinality(Before(S, i)) = k - 1 /\ Cardinality(Before(S, j)) = l - 1
  BY ListedInOrder
<1>2. i \in Nat /\ j \in Nat
  BY <1>1 DEF Indexes
<1> HIDE DEF i, j
<1>3. Cardinality(S) \in Nat
  BY ListedInOrder
<1>4. i # j /\ ~(j < i)
  <2>1. k - 1 # l - 1 /\ ~(l - 1 < k - 1)
    BY <1>3
  <2> QED
    BY <1>1, <2>1, BeforeGrows
<1>5. i < j
  BY <1>2, <1>4
<1> QED
  BY <1>5 DEF i, j

\* The index with k before it is the one in place k + 1.
LEMMA ListedAt ==
    ASSUME NEW S \in Indexes, NEW k \in 1..Cardinality(S), NEW i \in S,
           Cardinality(Before(S, i)) = k - 1
    PROVE  InOrder(S)[k] = i
<1>1. InOrder(S)[k] \in S /\ Cardinality(Before(S, InOrder(S)[k])) = k - 1
  BY ListedInOrder
<1> QED
  BY <1>1, PlacesDiffer, Zenon

\* The first indexes of a set come first in its list.
LEMMA FirstsComeFirst ==
    ASSUME NEW S \in Indexes, NEW T \in SUBSET S,
           \A i \in T : \A j \in S : j < i => j \in T
    PROVE  /\ T \in Indexes
           /\ Cardinality(T) \in Nat /\ Cardinality(S) \in Nat
           /\ Cardinality(T) <= Cardinality(S)
           /\ \A k \in 1..Cardinality(T) : InOrder(S)[k] = InOrder(T)[k]
<1>1. T \in Indexes
  BY FS_Subset DEF Indexes
<1>2. Cardinality(T) \in Nat /\ Cardinality(S) \in Nat /\ Cardinality(T) <= Cardinality(S)
  BY <1>1, FS_Subset, FS_CardinalityType DEF Indexes
<1>3. ASSUME NEW k \in 1..Cardinality(T)
      PROVE  InOrder(S)[k] = InOrder(T)[k]
  <2>1. InOrder(T)[k] \in T /\ Cardinality(Before(T, InOrder(T)[k])) = k - 1
    BY <1>1, ListedInOrder
  <2>2. Before(S, InOrder(T)[k]) = Before(T, InOrder(T)[k])
    BY <2>1 DEF Before
  <2>3. k \in 1..Cardinality(S) /\ InOrder(T)[k] \in S
    BY <1>2, <2>1
  <2> QED
    BY <2>1, <2>2, <2>3, ListedAt
<1> QED
  BY <1>1, <1>2, <1>3

\* The greatest index comes last.
LEMMA GreatestComesLast ==
    ASSUME NEW S \in Indexes, NEW m \in Nat, \A i \in S : i < m
    PROVE  /\ S \cup {m} \in Indexes
           /\ Cardinality(S \cup {m}) = Cardinality(S) + 1
           /\ InOrder(S \cup {m}) = Append(InOrder(S), m)
<1> DEFINE T == S \cup {m}
           n == Cardinality(S)
<1>1. /\ T \in Indexes /\ n \in Nat /\ Cardinality(T) = n + 1
  <2>1. m \notin S
    BY DEF Indexes
  <2> QED
    BY <2>1, FS_AddElement, FS_CardinalityType DEF Indexes
<1>2. ASSUME NEW k \in 1..n
      PROVE  InOrder(T)[k] = InOrder(S)[k]
  <2>1. \A i \in S : \A j \in T : j < i => j \in S
    BY DEF Indexes
  <2> QED
    BY <1>1, <2>1, FirstsComeFirst
<1>3. InOrder(T)[n + 1] = m
  <2>1. Before(T, m) = S
    <3>1. ~(m < m)
      OBVIOUS
    <3>2. Before(T, m) = {j \in S \cup {m} : j < m}
      BY DEF Before
    <3> QED
      BY <3>1, <3>2, Zenon
  <2> QED
    BY <1>1, <2>1, ListedAt
<1>4. /\ InOrder(S) \in [1..n -> S]
      /\ InOrder(T) \in [1..(n + 1) -> T]
  BY <1>1, ListedInOrder, Zenon
<1> HIDE DEF T, n
<1>5. InOrder(T) = Append(InOrder(S), m)
  <2>1. InOrder(S) \in Seq(S) /\ Len(InOrder(S)) = n
    BY <1>1, <1>4, SeqsAreFunctions
  <2>2. /\ Append(InOrder(S), m) \in Seq(T)
        /\ Len(Append(InOrder(S), m)) = n + 1
        /\ Append(InOrder(S), m)[n + 1] = m
        /\ \A k \in 1..n : Append(InOrder(S), m)[k] = InOrder(S)[k]
    BY <1>1, <2>1 DEF T
  <2>3. InOrder(T) \in Seq(T) /\ Len(InOrder(T)) = n + 1
    BY <1>1, <1>4, SeqsAreFunctions
  <2>4. \A k \in 1..(n + 1) : InOrder(T)[k] = Append(InOrder(S), m)[k]
    BY <1>1, <1>2, <1>3, <2>2
  <2> QED
    BY <2>2, <2>3, <2>4, SameItems
<1> QED
  BY <1>1, <1>5 DEF T, n

-----------------------------------------------------------------------------
(* What has been read of a stream is told by the place where it is read: the *)
(* blocks before it have been read to their end, its own up to its line.     *)

BlocksBefore(kind, b) == {i \in IndexesOf(kind) : i < b}
TextsOf(S) == [k \in 1..Cardinality(S) |-> Text(InOrder(S)[k])]
CallsOf(S) == [k \in 1..Cardinality(S) |-> Whole(InOrder(S)[k])]

\* The place is one of a line, or the one after the last line.
PlaceInv ==
    /\ wire \in [block : Nat \ {0}, line : Nat \ {0}]
    /\ wire.block <= Len(answer) + 1
    /\ IF NothingLeft THEN wire.line = 1 ELSE wire.line <= Len(LinesNow)

\* createAnthropicProvider: a block is open from its start to its stop.
PartsBy(line) == CASE line = 2 -> <<>> [] line = 3 -> <<1>> [] line = 4 -> <<1, 2>>
AnthropicInv ==
    /\ read.calls = CallsOf(BlocksBefore("call", wire.block))
    /\ IF wire.line = 1 THEN read.open = Nowhere
       ELSE /\ DOMAIN read.open = {wire.block}
            /\ read.open[wire.block] = PartsBy(wire.line)

\* createOpenAIChatCompletionsProvider: a call stays open to the end.
ChatInv ==
    /\ read.calls = <<>>
    /\ DOMAIN read.open = BlocksBefore("call", wire.block)
                            \cup (IF wire.line = 1 THEN {} ELSE {wire.block})
    /\ \A i \in DOMAIN read.open :
         read.open[i] = IF i < wire.block THEN <<1, 2>> ELSE <<1>>

\* createGeminiProvider: a call comes at once.
GeminiInv == read.calls = CallsOf(BlocksBefore("call", wire.block))

StreamInv ==
    /\ PlaceInv
    /\ DOMAIN read = {"texts", "calls", "open"}
    /\ read.texts = TextsOf(BlocksBefore("text", wire.block))
    /\ shown = read.texts
    /\ provider = "anthropic" => AnthropicInv
    /\ provider = "openai_chat" => ChatInv
    /\ provider = "gemini" => GeminiInv

AnswerInv ==
    /\ provider \in Providers /\ tools \in BOOLEAN
    /\ attempt \in Nat
    /\ answer \in Seq(Blocks) /\ Len(answer) <= MaxBlocks
    /\ pc \in {"start", "sent", "body", "waiting", "answered", "failed"}
    /\ pc \in {"start", "sent", "waiting"} \/ (pc = "body" /\ ~Streams) => shown = <<>>
    /\ pc = "sent" => wire = FirstLine /\ read = NothingRead
    /\ pc = "body" /\ Streams => StreamInv
    /\ AnswerIsWhatWasSent

Deltas == [try : Nat, block : Nat]
Parts == [block : Nat, parts : Seq(Nat)]

\* The indexes of the blocks of a kind are finitely many numbers.
LEMMA BlocksAreIndexes ==
    ASSUME answer \in Seq(Blocks), NEW kind, NEW S \in SUBSET IndexesOf(kind)
    PROVE  S \in Indexes /\ \A i \in S : i <= Len(answer)
<1>1. IsFiniteSet(1..Len(answer))
  BY FS_Interval
<1>2. S \in SUBSET (1..Len(answer))
  BY DEF IndexesOf
<1>3. IsFiniteSet(S)
  BY <1>1, <1>2, FS_Subset
<1> QED
  BY <1>2, <1>3 DEF Indexes

\* The deltas of a set of blocks.
LEMMA TextsOfIndexes ==
    ASSUME NEW S \in Indexes, attempt \in Nat
    PROVE  /\ TextsOf(S) \in Seq(Deltas)
           /\ Len(TextsOf(S)) = Cardinality(S) /\ Cardinality(S) \in Nat
           /\ \A k \in 1..Cardinality(S) :
                TextsOf(S)[k].block = InOrder(S)[k] /\ TextsOf(S)[k].try = attempt
<1>1. Cardinality(S) \in Nat /\ \A k \in 1..Cardinality(S) : InOrder(S)[k] \in Nat
  BY ListedInOrder DEF Indexes
<1>2. \A k \in 1..Cardinality(S) :
        /\ TextsOf(S)[k] \in Deltas
        /\ TextsOf(S)[k].block = InOrder(S)[k] /\ TextsOf(S)[k].try = attempt
  BY <1>1 DEF TextsOf, Text, Deltas
<1>3. TextsOf(S) \in [1..Cardinality(S) -> Deltas]
  BY <1>2 DEF TextsOf
<1> HIDE DEF TextsOf
<1> QED
  BY <1>1, <1>2, <1>3, SeqsAreFunctions

\* The whole calls of a set of blocks.
LEMMA CallsOfIndexes ==
    ASSUME NEW S \in Indexes
    PROVE  /\ CallsOf(S) \in Seq(Parts)
           /\ Len(CallsOf(S)) = Cardinality(S) /\ Cardinality(S) \in Nat
           /\ \A k \in 1..Cardinality(S) :
                CallsOf(S)[k].block = InOrder(S)[k] /\ CallsOf(S)[k].parts = <<1, 2>>
<1>1. Cardinality(S) \in Nat /\ \A k \in 1..Cardinality(S) : InOrder(S)[k] \in Nat
  BY ListedInOrder DEF Indexes
<1>2. \A k \in 1..Cardinality(S) :
        /\ CallsOf(S)[k] \in Parts
        /\ CallsOf(S)[k].block = InOrder(S)[k] /\ CallsOf(S)[k].parts = <<1, 2>>
  BY <1>1 DEF CallsOf, Whole, Call, Parts
<1>3. CallsOf(S) \in [1..Cardinality(S) -> Parts]
  BY <1>2 DEF CallsOf
<1> HIDE DEF CallsOf
<1> QED
  BY <1>1, <1>2, <1>3, SeqsAreFunctions

\* The delta of a further block comes last, and so does its call.
LEMMA TextsGrow ==
    ASSUME NEW S \in Indexes, NEW m \in Nat, \A i \in S : i < m, attempt \in Nat
    PROVE  TextsOf(S \cup {m}) = Append(TextsOf(S), Text(m))
<1> DEFINE T == S \cup {m}
           n == Cardinality(S)
<1>1. /\ T \in Indexes /\ n \in Nat /\ Cardinality(T) = n + 1
      /\ InOrder(T) = Append(InOrder(S), m)
  BY GreatestComesLast, FS_CardinalityType DEF Indexes
<1>2. InOrder(S) \in Seq(Nat) /\ Len(InOrder(S)) = n
  <2>1. InOrder(S) \in [1..n -> S] /\ S \subseteq Nat
    BY ListedInOrder DEF Indexes
  <2>2. InOrder(S) \in [1..n -> Nat]
    BY <2>1
  <2> QED
    BY <1>1, <2>2, SeqsAreFunctions
<1>3. InOrder(T)[n + 1] = m /\ \A k \in 1..n : InOrder(T)[k] = InOrder(S)[k]
  <2>1. /\ Append(InOrder(S), m)[Len(InOrder(S)) + 1] = m
        /\ \A k \in 1..Len(InOrder(S)) : Append(InOrder(S), m)[k] = InOrder(S)[k]
    BY <1>2
  <2> QED
    BY <1>1, <1>2, <2>1, Zenon
<1>4. /\ TextsOf(T) \in Seq(Deltas) /\ Len(TextsOf(T)) = n + 1
      /\ TextsOf(S) \in Seq(Deltas) /\ Len(TextsOf(S)) = n
  BY <1>1, TextsOfIndexes
<1>5. \A k \in 1..(n + 1) : TextsOf(T)[k] = Text(InOrder(T)[k])
  BY <1>1 DEF TextsOf
<1>6. \A k \in 1..n : TextsOf(S)[k] = Text(InOrder(S)[k])
  BY DEF TextsOf
<1> HIDE DEF T, n
<1>7. Text(m) \in Deltas
  BY DEF Text, Deltas
<1>8. /\ Append(TextsOf(S), Text(m)) \in Seq(Deltas)
      /\ Len(Append(TextsOf(S), Text(m))) = n + 1
      /\ Append(TextsOf(S), Text(m))[n + 1] = Text(m)
      /\ \A k \in 1..n : Append(TextsOf(S), Text(m))[k] = TextsOf(S)[k]
  BY <1>4, <1>7
<1>9. \A k \in 1..(n + 1) : TextsOf(T)[k] = Append(TextsOf(S), Text(m))[k]
  <2>1. n \in Nat
    BY <1>1
  <2>2. \A k \in 1..(n + 1) : k = n + 1 \/ k \in 1..n
    BY <2>1
  <2>3. n + 1 \in 1..(n + 1) /\ \A k \in 1..n : k \in 1..(n + 1)
    BY <2>1
  <2> QED
    BY <2>2, <2>3, <1>3, <1>5, <1>6, <1>8, Zenon
<1> QED
  BY <1>4, <1>8, <1>9, SameItems DEF T

LEMMA CallsGrow ==
    ASSUME NEW S \in Indexes, NEW m \in Nat, \A i \in S : i < m
    PROVE  CallsOf(S \cup {m}) = Append(CallsOf(S), Whole(m))
<1> DEFINE T == S \cup {m}
           n == Cardinality(S)
<1>1. /\ T \in Indexes /\ n \in Nat /\ Cardinality(T) = n + 1
      /\ InOrder(T) = Append(InOrder(S), m)
  BY GreatestComesLast, FS_CardinalityType DEF Indexes
<1>2. InOrder(S) \in Seq(Nat) /\ Len(InOrder(S)) = n
  <2>1. InOrder(S) \in [1..n -> S] /\ S \subseteq Nat
    BY ListedInOrder DEF Indexes
  <2>2. InOrder(S) \in [1..n -> Nat]
    BY <2>1
  <2> QED
    BY <1>1, <2>2, SeqsAreFunctions
<1>3. InOrder(T)[n + 1] = m /\ \A k \in 1..n : InOrder(T)[k] = InOrder(S)[k]
  <2>1. /\ Append(InOrder(S), m)[Len(InOrder(S)) + 1] = m
        /\ \A k \in 1..Len(InOrder(S)) : Append(InOrder(S), m)[k] = InOrder(S)[k]
    BY <1>2
  <2> QED
    BY <1>1, <1>2, <2>1, Zenon
<1>4. /\ CallsOf(T) \in Seq(Parts) /\ Len(CallsOf(T)) = n + 1
      /\ CallsOf(S) \in Seq(Parts) /\ Len(CallsOf(S)) = n
  BY <1>1, CallsOfIndexes
<1>5. \A k \in 1..(n + 1) : CallsOf(T)[k] = Whole(InOrder(T)[k])
  BY <1>1 DEF CallsOf
<1>6. \A k \in 1..n : CallsOf(S)[k] = Whole(InOrder(S)[k])
  BY DEF CallsOf
<1> HIDE DEF T, n
<1>7. Whole(m) \in Parts
  BY DEF Whole, Call, Parts
<1>8. /\ Append(CallsOf(S), Whole(m)) \in Seq(Parts)
      /\ Len(Append(CallsOf(S), Whole(m))) = n + 1
      /\ Append(CallsOf(S), Whole(m))[n + 1] = Whole(m)
      /\ \A k \in 1..n : Append(CallsOf(S), Whole(m))[k] = CallsOf(S)[k]
  BY <1>4, <1>7
<1>9. \A k \in 1..(n + 1) : CallsOf(T)[k] = Append(CallsOf(S), Whole(m))[k]
  <2>1. n \in Nat
    BY <1>1
  <2>2. \A k \in 1..(n + 1) : k = n + 1 \/ k \in 1..n
    BY <2>1
  <2>3. n + 1 \in 1..(n + 1) /\ \A k \in 1..n : k \in 1..(n + 1)
    BY <2>1
  <2> QED
    BY <2>2, <2>3, <1>3, <1>5, <1>6, <1>8, Zenon
<1> QED
  BY <1>4, <1>8, <1>9, SameItems DEF T

\* The blocks before the next one: this one is among them if it is of the kind.
LEMMA BlocksAdvance ==
    ASSUME answer \in Seq(Blocks), NEW b \in 1..Len(answer), NEW kind
    PROVE  BlocksBefore(kind, b + 1) = IF answer[b] = kind THEN BlocksBefore(kind, b) \cup {b}
                                       ELSE BlocksBefore(kind, b)
<1>1. \A i \in 1..Len(answer) : i < b + 1 <=> i < b \/ i = b
  OBVIOUS
<1>2. IndexesOf(kind) = {i \in 1..Len(answer) : answer[i] = kind}
  BY DEF IndexesOf
<1> QED
  BY <1>1, <1>2, Zenon DEF BlocksBefore

\* Before the first block there is none, after the last all of them are.
LEMMA BlocksFromTo ==
    ASSUME answer \in Seq(Blocks), NEW kind
    PROVE  /\ BlocksBefore(kind, 1) = {}
           /\ \A b \in Nat : b > Len(answer) => BlocksBefore(kind, b) = IndexesOf(kind)
BY DEF BlocksBefore, IndexesOf

\* The texts read with a text.
LEMMA TextsAdvance ==
    ASSUME answer \in Seq(Blocks), NEW b \in 1..Len(answer), attempt \in Nat
    PROVE  TextsOf(BlocksBefore("text", b + 1)) =
             IF answer[b] = "text" THEN Append(TextsOf(BlocksBefore("text", b)), Text(b))
             ELSE TextsOf(BlocksBefore("text", b))
<1>1. BlocksBefore("text", b) \in Indexes
  <2>1. BlocksBefore("text", b) \in SUBSET IndexesOf("text")
    BY DEF BlocksBefore
  <2> QED
    BY <2>1, BlocksAreIndexes
<1>2. \A i \in BlocksBefore("text", b) : i < b
  BY DEF BlocksBefore
<1>3. b \in Nat
  OBVIOUS
<1>4. CASE answer[b] = "text"
  <2>1. BlocksBefore("text", b + 1) = BlocksBefore("text", b) \cup {b}
    BY <1>4, BlocksAdvance
  <2> QED
    BY <1>1, <1>2, <1>3, <1>4, <2>1, TextsGrow
<1>5. CASE answer[b] # "text"
  BY <1>5, BlocksAdvance
<1> QED
  BY <1>4, <1>5

\* The calls read with a call.
LEMMA CallsAdvance ==
    ASSUME answer \in Seq(Blocks), NEW b \in 1..Len(answer)
    PROVE  CallsOf(BlocksBefore("call", b + 1)) =
             IF answer[b] = "call" THEN Append(CallsOf(BlocksBefore("call", b)), Whole(b))
             ELSE CallsOf(BlocksBefore("call", b))
<1>1. BlocksBefore("call", b) \in Indexes
  <2>1. BlocksBefore("call", b) \in SUBSET IndexesOf("call")
    BY DEF BlocksBefore
  <2> QED
    BY <2>1, BlocksAreIndexes
<1>2. \A i \in BlocksBefore("call", b) : i < b
  BY DEF BlocksBefore
<1>3. b \in Nat
  OBVIOUS
<1>4. CASE answer[b] = "call"
  <2>1. BlocksBefore("call", b + 1) = BlocksBefore("call", b) \cup {b}
    BY <1>4, BlocksAdvance
  <2> QED
    BY <1>1, <1>2, <1>3, <1>4, <2>1, CallsGrow
<1>5. CASE answer[b] # "call"
  BY <1>5, BlocksAdvance
<1> QED
  BY <1>4, <1>5

\* Nothing of no block.
LEMMA NothingOfNone ==
    TextsOf({}) = <<>> /\ CallsOf({}) = <<>> /\ InOrder({}) = <<>> /\ {} \in Indexes
<1>1. Cardinality({}) = 0 /\ IsFiniteSet({})
  BY FS_EmptySet
<1> QED
  BY <1>1 DEF TextsOf, CallsOf, InOrder, Indexes


\* What a step that leaves the answer alone makes of what is read up to a place.
LEMMA PlaceMoves ==
    ASSUME UNCHANGED <<answer, attempt>>, NEW c, wire' = c
    PROVE  /\ TextsOf(BlocksBefore("text", wire.block))' = TextsOf(BlocksBefore("text", c.block))
           /\ CallsOf(BlocksBefore("call", wire.block))' = CallsOf(BlocksBefore("call", c.block))
           /\ BlocksBefore("call", wire.block)' = BlocksBefore("call", c.block)
           /\ NothingLeft' <=> c.block > Len(answer)
<1>1. /\ BlocksBefore("text", wire.block)' = BlocksBefore("text", c.block)
      /\ BlocksBefore("call", wire.block)' = BlocksBefore("call", c.block)
  BY DEF BlocksBefore, IndexesOf
<1>2. TextsOf(BlocksBefore("text", wire.block))' = TextsOf(BlocksBefore("text", c.block))
  BY <1>1 DEF TextsOf, Text
<1>3. CallsOf(BlocksBefore("call", wire.block))' = CallsOf(BlocksBefore("call", c.block))
  BY <1>1 DEF CallsOf
<1> QED
  BY <1>1, <1>2, <1>3 DEF NothingLeft

\* A stream is of one of three providers, and of tools.
LEMMA StreamOf ==
    ASSUME AnswerInv, Streams
    PROVE  tools /\ provider \in {"openai_chat", "anthropic", "gemini"}
BY ConstantsAssumption DEF ConstantsAssumption, AnswerInv, Streams

\* The lines of the block that is read.
LEMMA LinesRead ==
    ASSUME AnswerInv, Streams
    PROVE  /\ answer[wire.block] = "text" => LinesNow = <<Line("text", wire.block, 0)>>
           /\ answer[wire.block] = "call" /\ provider = "gemini" =>
                LinesNow = <<Line("whole", wire.block, 0)>>
           /\ answer[wire.block] = "call" /\ provider = "openai_chat" =>
                LinesNow = <<Line("part", wire.block, 1), Line("part", wire.block, 2)>>
           /\ answer[wire.block] = "call" /\ provider = "anthropic" =>
                LinesNow = <<Line("open", wire.block, 0), Line("part", wire.block, 1),
                             Line("part", wire.block, 2), Line("close", wire.block, 0)>>
BY StreamOf, Zenon DEF LinesNow, BlockLines

\* The block that is read, and the line of it.
LEMMA BlockRead ==
    ASSUME AnswerInv, PlaceInv, ~NothingLeft
    PROVE  /\ wire.block \in 1..Len(answer) /\ wire.block \in Nat
           /\ answer[wire.block] \in Blocks
           /\ wire = [block |-> wire.block, line |-> wire.line]
           /\ wire.line \in Nat /\ 1 <= wire.line /\ wire.line <= Len(LinesNow)
<1>1. /\ wire \in [block : Nat \ {0}, line : Nat \ {0}]
      /\ wire.block <= Len(answer) + 1 /\ ~(wire.block > Len(answer))
      /\ wire.line <= Len(LinesNow)
  BY DEF PlaceInv, NothingLeft
<1>2. wire.block \in Nat \ {0} /\ wire.line \in Nat \ {0}
  BY <1>1
<1>3. answer \in Seq(Blocks) /\ Len(answer) \in Nat
  BY DEF AnswerInv
<1>4. wire.block \in 1..Len(answer) /\ answer[wire.block] \in Blocks
  BY <1>1, <1>2, <1>3
<1>5. wire = [block |-> wire.block, line |-> wire.line]
  BY <1>1
<1> QED
  BY <1>1, <1>2, <1>4, <1>5


\* A block has a line.
LEMMA BlockHasLines ==
    ASSUME AnswerInv, Streams, NEW kind \in Blocks, NEW i
    PROVE  Len(BlockLines(kind, i)) \in Nat /\ 1 <= Len(BlockLines(kind, i))
<1>1. CASE kind = "text"
  BY <1>1 DEF BlockLines
<1>2. CASE kind = "call" /\ provider = "gemini"
  <2>1. BlockLines(kind, i) = <<Line("whole", i, 0)>>
    BY <1>2, Zenon DEF BlockLines
  <2> QED
    BY <2>1
<1>3. CASE kind = "call" /\ provider = "openai_chat"
  <2>1. BlockLines(kind, i) = <<Line("part", i, 1), Line("part", i, 2)>>
    BY <1>3, Zenon DEF BlockLines
  <2> QED
    BY <2>1
<1>4. CASE kind = "call" /\ provider = "anthropic"
  <2>1. BlockLines(kind, i) =
          <<Line("open", i, 0), Line("part", i, 1), Line("part", i, 2), Line("close", i, 0)>>
    BY <1>4, Zenon DEF BlockLines
  <2> QED
    BY <2>1
<1> QED
  BY <1>1, <1>2, <1>3, <1>4, StreamOf DEF Blocks

\* The next place, where the block goes on and where it ends.
LEMMA PlaceAfter ==
    ASSUME AnswerInv, PlaceInv, Streams, ~NothingLeft,
           wire' = NextLine, UNCHANGED <<answer, provider>>
    PROVE  /\ wire.line < Len(LinesNow) =>
                NextLine = [block |-> wire.block, line |-> wire.line + 1]
           /\ ~(wire.line < Len(LinesNow)) =>
                NextLine = [block |-> wire.block + 1, line |-> 1]
           /\ PlaceInv'
<1>0. Len(answer) \in Nat
  BY DEF AnswerInv
<1>1. wire.line \in Nat /\ wire.block \in Nat /\ wire.block \in 1..Len(answer)
  BY BlockRead
<1>2. ASSUME wire.line < Len(LinesNow)
      PROVE  NextLine = [block |-> wire.block, line |-> wire.line + 1]
  BY <1>2, BlockRead DEF NextLine
<1>3. ASSUME ~(wire.line < Len(LinesNow))
      PROVE  NextLine = [block |-> wire.block + 1, line |-> 1]
  BY <1>3 DEF NextLine
<1>4. ASSUME wire.line < Len(LinesNow)
      PROVE  PlaceInv'
  <2>1. wire'.block = wire.block /\ wire'.line = wire.line + 1
    BY <1>2, <1>4
  <2>2. LinesNow' = LinesNow
    BY <2>1 DEF LinesNow, BlockLines
  <2>3. wire.line + 1 <= Len(LinesNow)
    <3>1. Len(LinesNow) \in Nat
      BY BlockRead, BlockHasLines DEF LinesNow
    <3> QED
      BY <1>1, <1>4, <3>1
  <2>4. wire' \in [block : Nat \ {0}, line : Nat \ {0}]
    BY <1>1, <1>2, <1>4
  <2>5. ~NothingLeft'
    BY <1>0, <1>1, <2>1 DEF NothingLeft
  <2>6. wire'.block <= Len(answer') + 1
    BY <1>0, <1>1, <2>1
  <2> QED
    BY <2>1, <2>2, <2>3, <2>4, <2>5, <2>6 DEF PlaceInv
<1>5. ASSUME ~(wire.line < Len(LinesNow))
      PROVE  PlaceInv'
  <2>1. wire'.block = wire.block + 1 /\ wire'.line = 1
    BY <1>3, <1>5
  <2>2. wire' \in [block : Nat \ {0}, line : Nat \ {0}]
    BY <1>1, <1>3, <1>5
  <2>3. wire'.block <= Len(answer') + 1
    BY <1>0, <1>1, <2>1
  <2>4. ~NothingLeft' => wire'.line <= Len(LinesNow')
    <3>1. ASSUME ~NothingLeft'
          PROVE  answer[wire'.block] \in Blocks
      BY <1>0, <1>1, <2>1, <3>1 DEF NothingLeft, AnswerInv
    <3>2. LinesNow' = BlockLines(answer[wire'.block], wire'.block)
      BY DEF LinesNow, BlockLines
    <3> QED
      BY <2>1, <3>1, <3>2, BlockHasLines
  <2> QED
    BY <2>1, <2>2, <2>3, <2>4 DEF PlaceInv
<1> QED
  BY <1>2, <1>3, <1>4, <1>5, Zenon


\* Reading a text.
LEMMA TextIsRead ==
    ASSUME AnswerInv, StreamInv, pc = "body", ReadLine, answer[wire.block] = "text"
    PROVE  StreamInv'
<1> DEFINE b == wire.block
           c == [block |-> b + 1, line |-> 1]
<1>1. /\ Streams /\ ~NothingLeft /\ wire' = NextLine
      /\ UNCHANGED <<provider, tools, attempt, answer>>
      /\ PlaceInv
  BY DEF ReadLine, StreamInv
<1>2. /\ b \in 1..Len(answer) /\ b \in Nat
      /\ wire.line \in Nat /\ 1 <= wire.line /\ wire.line <= Len(LinesNow)
  BY <1>1, BlockRead
<1>3. LinesNow = <<Line("text", b, 0)>>
  BY <1>1, LinesRead
<1>4. Len(LinesNow) = 1 /\ LinesNow[1] = Line("text", b, 0)
  BY <1>3
<1>5. wire.line = 1
  BY <1>2, <1>4
<1>6. wire' = c /\ PlaceInv'
  BY <1>1, <1>4, <1>5, PlaceAfter
<1>7. LinesNow[wire.line] = Line("text", b, 0)
  BY <1>4, <1>5
<1>8. shown' = Append(shown, Text(b))
  BY <1>7 DEF ReadLine, Line
<1>9. read' = [read EXCEPT !.texts = Append(@, Text(b))]
  BY <1>1, <1>7, StreamOf DEF ReadLine, Line, AnthropicReads, ChatReads, GeminiReads, WithText
<1>10. /\ read'.texts = Append(read.texts, Text(b))
       /\ read'.calls = read.calls /\ read'.open = read.open
       /\ DOMAIN read' = {"texts", "calls", "open"}
  BY <1>9 DEF StreamInv
<1>11. /\ TextsOf(BlocksBefore("text", b + 1)) = Append(TextsOf(BlocksBefore("text", b)), Text(b))
       /\ BlocksBefore("call", b + 1) = BlocksBefore("call", b)
  BY <1>2, TextsAdvance, BlocksAdvance DEF AnswerInv
<1>12. /\ TextsOf(BlocksBefore("text", wire.block))' = TextsOf(BlocksBefore("text", b + 1))
       /\ CallsOf(BlocksBefore("call", wire.block))' = CallsOf(BlocksBefore("call", b + 1))
       /\ BlocksBefore("call", wire.block)' = BlocksBefore("call", b + 1)
  BY <1>1, <1>6, PlaceMoves
<1>13. wire'.block = b + 1 /\ wire'.line = 1
  BY <1>6
<1> HIDE DEF b, c
<1>14. provider = "anthropic" => AnthropicInv'
  BY <1>5, <1>10, <1>11, <1>12, <1>13 DEF StreamInv, AnthropicInv, b, Nowhere
<1>15. provider = "openai_chat" => ChatInv'
  <2>1. ASSUME provider = "openai_chat"
        PROVE  /\ read.calls = <<>> /\ DOMAIN read.open = BlocksBefore("call", b)
               /\ \A i \in DOMAIN read.open : read.open[i] = IF i < b THEN <<1, 2>> ELSE <<1>>
    BY <1>5, <2>1 DEF StreamInv, ChatInv, b
  <2>2. \A i \in BlocksBefore("call", b) : i < b /\ i < b + 1
    BY <1>2 DEF BlocksBefore, IndexesOf, b
  <2> QED
    BY <2>1, <2>2, <1>10, <1>11, <1>12, <1>13, Zenon DEF ChatInv
<1>16. provider = "gemini" => GeminiInv'
  BY <1>10, <1>11, <1>12 DEF StreamInv, GeminiInv, b
<1> QED
  BY <1>1, <1>6, <1>8, <1>10, <1>11, <1>12, <1>14, <1>15, <1>16 DEF StreamInv, b

\* The second part after the first.
LEMMA PartsAppended == Append(<<1>>, 2) = <<1, 2>> /\ Append(<<>>, 1) = <<1>>
<1> DEFINE s == Append(<<1>>, 2)
           t == Append(<<>>, 1)
<1>1. <<1>> \in Seq(Nat) /\ Len(<<1>>) = 1 /\ <<1>>[1] = 1 /\ <<>> \in Seq(Nat) /\ Len(<<>>) = 0
  OBVIOUS
<1>2. /\ s \in Seq(Nat) /\ Len(s) = 2 /\ s[2] = 2 /\ s[1] = 1
      /\ t \in Seq(Nat) /\ Len(t) = 1 /\ t[1] = 1
  BY <1>1
<1>3. /\ <<1, 2>> \in Seq(Nat) /\ Len(<<1, 2>>) = 2 /\ <<1, 2>>[1] = 1 /\ <<1, 2>>[2] = 2
  OBVIOUS
<1> HIDE DEF s, t
<1>4. s = <<1, 2>>
  BY <1>2, <1>3, SameItems
<1>5. t = <<1>>
  BY <1>1, <1>2, SameItems
<1> QED
  BY <1>4, <1>5 DEF s, t

\* Reading a line of a call.
LEMMA CallIsRead ==
    ASSUME AnswerInv, StreamInv, pc = "body", ReadLine, answer[wire.block] = "call"
    PROVE  StreamInv'
<1> DEFINE b == wire.block
           n == wire.line
<1>1. /\ Streams /\ ~NothingLeft /\ wire' = NextLine
      /\ UNCHANGED <<provider, tools, attempt, answer>>
      /\ PlaceInv
  BY DEF ReadLine, StreamInv
<1>2. /\ b \in 1..Len(answer) /\ b \in Nat
      /\ n \in Nat /\ 1 <= n /\ n <= Len(LinesNow)
  BY <1>1, BlockRead
<1>3. PlaceInv'
  BY <1>1, PlaceAfter
<1>4. /\ TextsOf(BlocksBefore("text", b + 1)) = TextsOf(BlocksBefore("text", b))
      /\ BlocksBefore("call", b + 1) = BlocksBefore("call", b) \cup {b}
      /\ CallsOf(BlocksBefore("call", b + 1)) = Append(CallsOf(BlocksBefore("call", b)), Whole(b))
  BY <1>2, TextsAdvance, BlocksAdvance, CallsAdvance DEF AnswerInv
<1>5. /\ n < Len(LinesNow) => wire' = [block |-> b, line |-> n + 1]
      /\ ~(n < Len(LinesNow)) => wire' = [block |-> b + 1, line |-> 1]
  BY <1>1, PlaceAfter
<1>6. wire'.block \in {b, b + 1}
  BY <1>5
<1>7. /\ TextsOf(BlocksBefore("text", wire.block))' = TextsOf(BlocksBefore("text", wire'.block))
      /\ CallsOf(BlocksBefore("call", wire.block))' = CallsOf(BlocksBefore("call", wire'.block))
      /\ BlocksBefore("call", wire.block)' = BlocksBefore("call", wire'.block)
  BY <1>1, PlaceMoves
<1>8. /\ DOMAIN read = {"texts", "calls", "open"}
      /\ read.texts = TextsOf(BlocksBefore("text", b)) /\ shown = read.texts
  BY DEF StreamInv
<1>9. \A i \in BlocksBefore("call", b) : i < b /\ i < b + 1 /\ i # b
  BY <1>2 DEF BlocksBefore, IndexesOf
<1>10. ~(b < b) /\ b < b + 1
  BY <1>2
<1>11. CASE provider = "gemini"
  <2>1. LinesNow = <<Line("whole", b, 0)>>
    BY <1>1, <1>11, LinesRead
  <2>2. Len(LinesNow) = 1 /\ LinesNow[1] = Line("whole", b, 0)
    BY <2>1
  <2>3. n = 1 /\ wire'.block = b + 1
    BY <1>2, <1>5, <2>2
  <2>7. LinesNow[n].is # "text" /\ LinesNow[n].block = b
    BY <2>2, <2>3 DEF Line
  <2>4. /\ read' = [read EXCEPT !.calls = Append(@, Whole(b))]
        /\ shown' = shown
    BY <1>11, <2>7, Zenon DEF ReadLine, GeminiReads
  <2>5. /\ DOMAIN read' = {"texts", "calls", "open"}
        /\ read'.texts = read.texts /\ read'.calls = Append(read.calls, Whole(b))
    BY <1>8, <2>4
  <2>6. GeminiInv'
    BY <1>4, <1>7, <1>11, <2>3, <2>5 DEF StreamInv, GeminiInv
  <2> QED
    BY <1>1, <1>3, <1>4, <1>7, <1>8, <1>11, <2>3, <2>4, <2>5, <2>6, Zenon DEF StreamInv
<1>12. CASE provider = "openai_chat"
  <2>1. LinesNow = <<Line("part", b, 1), Line("part", b, 2)>>
    BY <1>1, <1>12, LinesRead
  <2>2. Len(LinesNow) = 2 /\ LinesNow[1] = Line("part", b, 1) /\ LinesNow[2] = Line("part", b, 2)
    BY <2>1
  <2>3. /\ read.calls = <<>>
        /\ DOMAIN read.open = BlocksBefore("call", b) \cup (IF n = 1 THEN {} ELSE {b})
        /\ \A i \in DOMAIN read.open : read.open[i] = IF i < b THEN <<1, 2>> ELSE <<1>>
    BY <1>12 DEF StreamInv, ChatInv
  <2>4. CASE n = 1
    <3>1. wire'.block = b /\ wire'.line = 2
      BY <1>2, <1>5, <2>2, <2>4
    <3>2. LinesNow[n].is # "text" /\ LinesNow[n].block = b /\ LinesNow[n].part = 1
      BY <2>2, <2>4 DEF Line
    <3>3. b \notin DOMAIN read.open
      BY <1>9, <2>3, <2>4
    <3>4. /\ read' = [read EXCEPT !.open = With(@, b, <<1>>)]
          /\ shown' = shown
      BY <1>12, <3>2, <3>3, Zenon DEF ReadLine, ChatReads
    <3>5. /\ DOMAIN read' = {"texts", "calls", "open"}
          /\ read'.texts = read.texts /\ read'.calls = <<>>
          /\ read'.open = With(read.open, b, <<1>>)
      BY <1>8, <2>3, <3>4
    <3>6. /\ DOMAIN read'.open = BlocksBefore("call", b) \cup {b}
          /\ \A i \in DOMAIN read'.open : read'.open[i] = IF i < b THEN <<1, 2>> ELSE <<1>>
      BY <1>9, <1>10, <2>3, <2>4, <3>5, Zenon DEF With
    <3>7. ChatInv'
      <4>1. wire'.line # 1
        BY <3>1
      <4> QED
        BY <1>7, <3>1, <3>5, <3>6, <4>1, Zenon DEF ChatInv
    <3> QED
      BY <1>1, <1>3, <1>7, <1>8, <1>12, <3>1, <3>4, <3>5, <3>7, Zenon DEF StreamInv
  <2>5. CASE n = 2
    <3>1. wire'.block = b + 1 /\ wire'.line = 1
      BY <1>2, <1>5, <2>2, <2>5
    <3>2. LinesNow[n].is # "text" /\ LinesNow[n].block = b /\ LinesNow[n].part = 2
      BY <2>2, <2>5 DEF Line
    <3>3. b \in DOMAIN read.open /\ read.open[b] = <<1>>
      BY <1>10, <2>3, <2>5
    <3>4. /\ read' = [read EXCEPT !.open[b] = Append(@, 2)]
          /\ shown' = shown
      BY <1>12, <3>2, <3>3, Zenon DEF ReadLine, ChatReads
    <3>5. /\ DOMAIN read' = {"texts", "calls", "open"}
          /\ read'.texts = read.texts /\ read'.calls = <<>>
          /\ read'.open = [read.open EXCEPT ![b] = Append(@, 2)]
      BY <1>8, <2>3, <3>4
    <3>6. Append(<<1>>, 2) = <<1, 2>>
      BY PartsAppended
    <3>7. DOMAIN read'.open = BlocksBefore("call", b) \cup {b}
      BY <2>3, <2>5, <3>5
    <3>8. \A i \in DOMAIN read'.open : read'.open[i] = <<1, 2>>
      BY <1>9, <2>3, <3>3, <3>5, <3>6, <3>7, Zenon
    <3>9. \A i \in DOMAIN read'.open : i < b + 1
      BY <1>9, <1>10, <3>7, Zenon
    <3>10. ChatInv'
      <4>1. DOMAIN read'.open = BlocksBefore("call", wire.block)'
                                  \cup (IF wire'.line = 1 THEN {} ELSE {wire'.block})
        BY <1>4, <1>7, <3>1, <3>7
      <4>2. \A i \in DOMAIN read'.open : read'.open[i] = IF i < wire'.block THEN <<1, 2>> ELSE <<1>>
        BY <3>1, <3>8, <3>9, Zenon
      <4> QED
        BY <3>5, <4>1, <4>2, Zenon DEF ChatInv
    <3> QED
      BY <1>1, <1>3, <1>4, <1>7, <1>8, <1>12, <3>1, <3>4, <3>5, <3>10, Zenon DEF StreamInv
  <2> QED
    BY <1>2, <2>2, <2>4, <2>5
<1>13. CASE provider = "anthropic"
  <2>1. LinesNow = <<Line("open", b, 0), Line("part", b, 1), Line("part", b, 2), Line("close", b, 0)>>
    BY <1>1, <1>13, LinesRead
  <2>2. /\ Len(LinesNow) = 4
        /\ LinesNow[1] = Line("open", b, 0) /\ LinesNow[2] = Line("part", b, 1)
        /\ LinesNow[3] = Line("part", b, 2) /\ LinesNow[4] = Line("close", b, 0)
    BY <2>1
  <2>3. read.calls = CallsOf(BlocksBefore("call", b)) /\ (n = 1 => read.open = Nowhere)
    BY <1>13 DEF StreamInv, AnthropicInv
  <2>4. n # 1 =>
          /\ DOMAIN read.open = {b}
          /\ read.open[b] = PartsBy(n)
    BY <1>13 DEF StreamInv, AnthropicInv
  <2>5. ASSUME wire'.block = b, wire'.line # 1, shown' = shown,
               DOMAIN read' = {"texts", "calls", "open"},
               read'.texts = read.texts, read'.calls = read.calls,
               DOMAIN read'.open = {b},
               read'.open[b] = PartsBy(wire'.line)
        PROVE  StreamInv'
    <3>1. AnthropicInv'
      BY <1>7, <2>3, <2>5, Zenon DEF AnthropicInv
    <3> QED
      BY <1>1, <1>3, <1>7, <1>8, <1>13, <2>5, <3>1, Zenon DEF StreamInv
  <2>6. CASE n = 1
    <3>1. wire'.block = b /\ wire'.line = 2
      BY <1>2, <1>5, <2>2, <2>6
    <3>2. LinesNow[n].is = "open" /\ LinesNow[n].block = b
      BY <2>2, <2>6 DEF Line
    <3>3. /\ read' = [read EXCEPT !.open = With(@, b, <<>>)]
          /\ shown' = shown
      BY <1>13, <3>2 DEF ReadLine, AnthropicReads
    <3>4. /\ DOMAIN read' = {"texts", "calls", "open"}
          /\ read'.texts = read.texts /\ read'.calls = read.calls
          /\ read'.open = With(Nowhere, b, <<>>)
      BY <1>8, <2>3, <2>6, <3>3
    <3>5. DOMAIN read'.open = {b} /\ read'.open[b] = <<>>
      BY <3>4 DEF With, Nowhere
    <3> QED
      BY <2>5, <3>1, <3>3, <3>4, <3>5 DEF PartsBy
  <2>7. CASE n \in {2, 3}
    <3>1. wire'.block = b /\ wire'.line = n + 1 /\ n # 1
      BY <1>2, <1>5, <2>2, <2>7
    <3>2. LinesNow[n].is = "part" /\ LinesNow[n].block = b /\ LinesNow[n].part = n - 1
      BY <2>2, <2>7 DEF Line
    <3>3. /\ read' = [read EXCEPT !.open[b] = Append(@, n - 1)]
          /\ shown' = shown
      BY <1>13, <3>2 DEF ReadLine, AnthropicReads
    <3>4. /\ DOMAIN read' = {"texts", "calls", "open"}
          /\ read'.texts = read.texts /\ read'.calls = read.calls
          /\ read'.open = [read.open EXCEPT ![b] = Append(@, n - 1)]
      BY <1>8, <3>3
    <3>5. DOMAIN read'.open = {b} /\ read'.open[b] = Append(read.open[b], n - 1)
      BY <2>4, <3>1, <3>4
    <3>6. read'.open[b] = PartsBy(wire'.line)
      <4>1. CASE n = 2
        <5>1. read.open[b] = <<>>
          BY <2>4, <4>1 DEF PartsBy
        <5>2. wire'.line = 3 /\ n - 1 = 1
          BY <3>1, <4>1
        <5>3. read'.open[b] = <<1>>
          BY <3>5, <5>1, <5>2, PartsAppended
        <5> QED
          BY <5>2, <5>3 DEF PartsBy
      <4>2. CASE n = 3
        <5>1. read.open[b] = <<1>>
          BY <2>4, <4>2 DEF PartsBy
        <5>2. wire'.line = 4 /\ n - 1 = 2
          BY <3>1, <4>2
        <5>3. read'.open[b] = <<1, 2>>
          BY <3>5, <5>1, <5>2, PartsAppended
        <5> QED
          BY <5>2, <5>3 DEF PartsBy
      <4> QED
        BY <2>7, <4>1, <4>2
    <3>7. wire'.line # 1
      BY <2>7, <3>1
    <3> QED
      BY <2>5, <3>1, <3>3, <3>4, <3>5, <3>6, <3>7
  <2>8. CASE n = 4
    <3>1. wire'.block = b + 1 /\ wire'.line = 1
      BY <1>2, <1>5, <2>2, <2>8
    <3>2. LinesNow[n].is = "close" /\ LinesNow[n].block = b
      BY <2>2, <2>8 DEF Line
    <3>3. read.open[b] = <<1, 2>> /\ DOMAIN read.open = {b}
      BY <2>4, <2>8 DEF PartsBy
    <3>4. /\ read' = [read EXCEPT !.calls = Append(@, Whole(b)), !.open = Without(@, b)]
          /\ shown' = shown
      BY <1>13, <3>2, <3>3 DEF ReadLine, AnthropicReads, Whole
    <3>5. /\ DOMAIN read' = {"texts", "calls", "open"}
          /\ read'.texts = read.texts
          /\ read'.calls = CallsOf(BlocksBefore("call", b + 1))
          /\ read'.open = Nowhere
      BY <1>4, <1>8, <2>3, <3>3, <3>4 DEF Without, Nowhere
    <3>6. AnthropicInv'
      BY <1>7, <3>1, <3>5, Zenon DEF AnthropicInv, Nowhere
    <3> QED
      BY <1>1, <1>3, <1>4, <1>7, <1>8, <1>13, <3>1, <3>4, <3>5, <3>6, Zenon DEF StreamInv
  <2> QED
    BY <1>2, <2>2, <2>6, <2>7, <2>8
<1> QED
  BY <1>1, <1>11, <1>12, <1>13, StreamOf


-----------------------------------------------------------------------------
(* The end of an answer.                                                     *)

Upwards(deltas) ==
    \A i, j \in DOMAIN deltas : i < j =>
       deltas[i].try = deltas[j].try /\ deltas[i].block < deltas[j].block

\* The texts of a set of blocks are shown upwards.
LEMMA TextsUpwards ==
    ASSUME NEW S \in Indexes, attempt \in Nat
    PROVE  Upwards(TextsOf(S))
<1>1. DOMAIN TextsOf(S) = 1..Cardinality(S)
  BY TextsOfIndexes
<1> QED
  BY <1>1, TextsOfIndexes, ListedUpwards DEF Upwards

\* And so are they with the end of the answer.
LEMMA AnswerUpwards ==
    ASSUME AnswerInv, NEW S \in SUBSET IndexesOf("text")
    PROVE  /\ Upwards(Append(TextsOf(S), Done))
           /\ Append(TextsOf(S), Done) = TextsOf(S) \o <<Done>>
<1> DEFINE n == Cardinality(S)
           t == TextsOf(S)
           u == Append(t, Done)
<1>1. /\ attempt \in Nat /\ MaxBlocks \in Nat
      /\ S \in Indexes /\ \A i \in S : i <= Len(answer)
      /\ Len(answer) \in Nat /\ Len(answer) <= MaxBlocks
  BY ConstantsAssumption, BlocksAreIndexes DEF ConstantsAssumption, AnswerInv
<1>2. /\ t \in Seq(Deltas) /\ Len(t) = n /\ n \in Nat
      /\ \A k \in 1..n : t[k].block = InOrder(S)[k] /\ t[k].try = attempt
  BY <1>1, TextsOfIndexes
<1>3. Done \in Deltas /\ Done.try = attempt /\ Done.block = MaxBlocks + 1
  BY <1>1 DEF Done, Deltas
<1>4. \A k \in 1..n : t[k].block < MaxBlocks + 1
  <2>1. \A k \in 1..n : InOrder(S)[k] \in S
    BY <1>1, ListedInOrder
  <2>2. \A i \in S : i < MaxBlocks + 1
    BY <1>1 DEF Indexes
  <2> QED
    BY <1>2, <2>1, <2>2, Zenon
<1>5. Upwards(t)
  BY <1>1, TextsUpwards
<1> HIDE DEF t, n
<1>6. /\ u \in Seq(Deltas) /\ Len(u) = n + 1 /\ u[n + 1] = Done
      /\ \A k \in 1..n : u[k] = t[k]
      /\ u = t \o <<Done>>
  BY <1>2, <1>3
<1>7. Upwards(u)
  <2> SUFFICES ASSUME NEW i \in 1..(n + 1), NEW j \in 1..(n + 1), i < j
               PROVE  u[i].try = u[j].try /\ u[i].block < u[j].block
    <3>1. DOMAIN u = 1..(n + 1)
      BY <1>6
    <3> QED
      BY <3>1, Zenon DEF Upwards
  <2>1. i \in 1..n /\ (j \in 1..n \/ j = n + 1)
    BY <1>2
  <2>2. CASE j \in 1..n
    <3>1. DOMAIN t = 1..n
      BY <1>2
    <3>2. t[i].try = t[j].try /\ t[i].block < t[j].block
      BY <1>5, <2>1, <2>2, <3>1, Zenon DEF Upwards
    <3> QED
      BY <1>6, <2>1, <2>2, <3>2, Zenon
  <2>3. CASE j = n + 1
    BY <1>2, <1>3, <1>4, <1>6, <2>1, <2>3, Zenon
  <2> QED
    BY <2>1, <2>2, <2>3
<1> QED
  BY <1>6, <1>7 DEF t

\* A set of blocks that none of its kind is missing from before its last.
Firsts(S, kind) == S \subseteq IndexesOf(kind) /\ \A i \in S : \A j \in IndexesOf(kind) : j < i => j \in S

\* The list of the first blocks of a kind begins the list of all of them.
LEMMA FirstsBegin ==
    ASSUME answer \in Seq(Blocks), NEW kind, NEW S, Firsts(S, kind)
    PROVE  IsPrefix(InOrder(S), InOrder(IndexesOf(kind)))
<1> DEFINE T == IndexesOf(kind)
<1>1. T \in Indexes /\ S \in SUBSET T
  BY BlocksAreIndexes DEF Firsts
<1>2. \A i \in S : \A j \in T : j < i => j \in S
  BY DEF Firsts
<1> HIDE DEF T
<1>3. /\ S \in Indexes
      /\ Cardinality(S) \in Nat /\ Cardinality(T) \in Nat /\ Cardinality(S) <= Cardinality(T)
      /\ \A k \in 1..Cardinality(S) : InOrder(T)[k] = InOrder(S)[k]
  BY <1>1, <1>2, FirstsComeFirst
<1>4. ASSUME NEW R \in Indexes
      PROVE  InOrder(R) \in Seq(Nat) /\ Len(InOrder(R)) = Cardinality(R)
  <2>1. Cardinality(R) \in Nat /\ InOrder(R) \in [1..Cardinality(R) -> R] /\ R \subseteq Nat
    BY ListedInOrder DEF Indexes
  <2>2. InOrder(R) \in [1..Cardinality(R) -> Nat]
    BY <2>1
  <2> QED
    BY <2>1, <2>2, SeqsAreFunctions
<1>5. /\ InOrder(S) \in Seq(Nat) /\ Len(InOrder(S)) = Cardinality(S)
      /\ InOrder(T) \in Seq(Nat) /\ Len(InOrder(T)) = Cardinality(T)
  BY <1>1, <1>3, <1>4
<1> QED
  BY <1>3, <1>5, PrefixByItems DEF T

\* An answer that is made of the first texts and the first calls, of all of
\* them when the whole of it was read, is what the provider sent.
LEMMA AnswerOfFirsts ==
    ASSUME AnswerInv, UNCHANGED <<provider, tools, attempt, answer>>, pc' = "answered",
           NEW T, NEW C, Firsts(T, "text"), Firsts(C, "call"),
           read'.texts = TextsOf(T),
           DOMAIN read'.calls = 1..Cardinality(C),
           \A k \in 1..Cardinality(C) : read'.calls[k].block = InOrder(C)[k],
           \A k \in 1..Cardinality(C) :
             \/ read'.calls[k].parts = <<1, 2>>
             \/ ended' = "cut" /\ provider = "openai_chat" /\ k = Cardinality(C),
           Len(read'.calls) = Cardinality(C),
           ended' = "whole" => T = IndexesOf("text") /\ C = IndexesOf("call"),
           tools => shown' = Append(TextsOf(T), Done),
           ~tools => shown' = <<>> /\ C = {}
    PROVE  AnswerIsWhatWasSent'
<1>1. /\ answer \in Seq(Blocks) /\ attempt \in Nat
      /\ T \in SUBSET IndexesOf("text") /\ C \in SUBSET IndexesOf("call")
  BY DEF AnswerInv, Firsts
<1>2. T \in Indexes /\ C \in Indexes
  BY <1>1, BlocksAreIndexes
<1>3. /\ Upwards(Append(TextsOf(T), Done))
      /\ Append(TextsOf(T), Done) = TextsOf(T) \o <<Done>>
  BY <1>1, AnswerUpwards
<1>4. Upwards(shown')
  <2>1. CASE tools
    BY <1>3, <2>1
  <2>2. CASE ~tools
    BY <2>2 DEF Upwards
  <2> QED
    BY <2>1, <2>2
<1>5. [k \in DOMAIN read'.texts |-> read'.texts[k].block] = InOrder(T)
  <2>1. /\ DOMAIN TextsOf(T) = 1..Cardinality(T)
        /\ \A k \in 1..Cardinality(T) : TextsOf(T)[k].block = InOrder(T)[k]
    BY <1>1, <1>2, TextsOfIndexes
  <2>2. InOrder(T) \in [1..Cardinality(T) -> T]
    BY <1>2, ListedInOrder
  <2> QED
    BY <2>1, <2>2, Zenon
<1>6. [k \in DOMAIN read'.calls |-> read'.calls[k].block] = InOrder(C)
  <2>1. InOrder(C) \in [1..Cardinality(C) -> C]
    BY <1>2, ListedInOrder
  <2> QED
    BY <2>1, Zenon
<1>7. /\ IsPrefix(InOrder(T), InOrder(IndexesOf("text")))
      /\ IsPrefix(InOrder(C), InOrder(IndexesOf("call")))
  BY <1>1, FirstsBegin
<1>8. BlocksOf("text")' = InOrder(IndexesOf("text")) /\ BlocksOf("call")' = InOrder(IndexesOf("call"))
  BY DEF BlocksOf, IndexesOf
<1>9. Done' = Done
  BY DEF Done
<1>10. ~tools => InOrder(C) = <<>>
  BY NothingOfNone, Zenon
<1>11. tools => shown' = read'.texts \o <<Done'>>
  BY <1>3, <1>9
<1>12. \A k \in DOMAIN read'.calls :
         \/ read'.calls[k].parts = <<1, 2>>
         \/ ended' = "cut" /\ provider' = "openai_chat" /\ k = Len(read'.calls)
  BY Zenon
<1>13. \A i, j \in DOMAIN shown' : i < j =>
          shown'[i].try = shown'[j].try /\ shown'[i].block < shown'[j].block
  BY <1>4, Zenon DEF Upwards
<1> QED
  BY <1>5, <1>6, <1>7, <1>8, <1>10, <1>11, <1>12, <1>13, Zenon DEF AnswerIsWhatWasSent

\* Nothing but the order of what is shown matters before the answer.
LEMMA NotAnswered ==
    ASSUME Upwards(shown'), pc' # "answered"
    PROVE  AnswerIsWhatWasSent'
BY Zenon DEF Upwards, AnswerIsWhatWasSent

LEMMA OnlyOne ==
    ASSUME NEW n \in Nat, NEW m, 1 <= n, n <= m, m = 1
    PROVE  n = 1
OBVIOUS

\* The calls that the end of a stream makes of what was read.
LEMMA CallsAtEnd ==
    ASSUME AnswerInv, StreamInv, Streams
    PROVE  \E C : /\ Firsts(C, "call")
                  /\ NothingLeft => C = IndexesOf("call")
                  /\ DOMAIN CallsRead = 1..Cardinality(C) /\ Len(CallsRead) = Cardinality(C)
                  /\ \A k \in 1..Cardinality(C) :
                       /\ CallsRead[k].block = InOrder(C)[k]
                       /\ \/ CallsRead[k].parts = <<1, 2>>
                          \/ ~NothingLeft /\ provider = "openai_chat" /\ k = Cardinality(C)
<1> DEFINE b == wire.block
           B == BlocksBefore("call", b)
<1>1. /\ answer \in Seq(Blocks) /\ Len(answer) \in Nat
      /\ b \in Nat /\ PlaceInv
  BY DEF AnswerInv, StreamInv, PlaceInv
<1>2. /\ Firsts(B, "call") /\ B \in SUBSET IndexesOf("call")
      /\ B \in Indexes /\ IndexesOf("call") \in Indexes
      /\ NothingLeft => B = IndexesOf("call")
  <2>1. B \in SUBSET IndexesOf("call")
    BY DEF BlocksBefore
  <2>2. B \in Indexes /\ IndexesOf("call") \in Indexes
    BY <1>1, <2>1, BlocksAreIndexes
  <2>3. \A i \in B : \A j \in IndexesOf("call") : j < i => j \in B
    BY <1>1 DEF BlocksBefore, IndexesOf
  <2>4. NothingLeft => B = IndexesOf("call")
    BY <1>1, BlocksFromTo DEF NothingLeft
  <2> QED
    BY <2>1, <2>2, <2>3, <2>4 DEF Firsts
<1>3. CASE provider \in {"anthropic", "gemini"}
  <2>1. CallsRead = CallsOf(B)
    BY <1>3 DEF StreamInv, AnthropicInv, GeminiInv, CallsRead, AnthropicCalls
  <2>2. /\ CallsOf(B) \in Seq(Parts) /\ Len(CallsOf(B)) = Cardinality(B)
        /\ \A k \in 1..Cardinality(B) :
             CallsOf(B)[k].block = InOrder(B)[k] /\ CallsOf(B)[k].parts = <<1, 2>>
    BY <1>2, CallsOfIndexes
  <2>3. DOMAIN CallsOf(B) = 1..Cardinality(B)
    BY <2>2
  <2> HIDE DEF B
  <2> QED
    BY <1>2, <2>1, <2>2, <2>3
<1>4. CASE provider = "openai_chat"
  <2> DEFINE D == DOMAIN read.open
  <2>1. /\ D = B \cup (IF wire.line = 1 THEN {} ELSE {b})
        /\ \A i \in D : read.open[i] = IF i < b THEN <<1, 2>> ELSE <<1>>
    BY <1>4 DEF StreamInv, ChatInv
  <2>2. CallsRead = [k \in 1..Cardinality(D) |-> Call(InOrder(D)[k], read.open[InOrder(D)[k]])]
    BY <1>4 DEF CallsRead, ChatCalls
  <2>3. wire.line # 1 => ~NothingLeft /\ b \in IndexesOf("call")
    <3>1. ASSUME wire.line # 1
          PROVE  ~NothingLeft
      BY <1>1, <3>1 DEF PlaceInv
    <3>2. ASSUME wire.line # 1
          PROVE  answer[b] # "text"
      <4>1. /\ wire.line \in Nat /\ 1 <= wire.line /\ wire.line <= Len(LinesNow)
        BY <1>1, <3>1, <3>2, BlockRead
      <4>2. answer[b] = "text" => Len(LinesNow) = 1
        <5>1. answer[b] = "text" => LinesNow = <<Line("text", b, 0)>>
          BY LinesRead
        <5> QED
          BY <5>1
      <4>3. Len(LinesNow) # 1
        BY <3>2, <4>1, OnlyOne, Zenon
      <4> QED
        BY <4>2, <4>3
    <3>3. ASSUME wire.line # 1
          PROVE  b \in 1..Len(answer) /\ answer[b] \in Blocks
      BY <1>1, <3>1, <3>3, BlockRead
    <3> QED
      BY <3>1, <3>2, <3>3, <1>1 DEF Blocks, IndexesOf
  <2>4. D \in SUBSET IndexesOf("call")
    BY <1>2, <2>1, <2>3
  <2>5. D \in Indexes
    BY <1>1, <2>4, BlocksAreIndexes
  <2>6. \A i \in B : i < b
    BY DEF BlocksBefore
  <2>7. Firsts(D, "call")
    <3>1. ASSUME NEW i \in D, NEW j \in IndexesOf("call"), j < i
          PROVE  j \in D
      <4>1. i \in Nat /\ j \in Nat /\ i <= b
        <5>1. D \subseteq Nat /\ IndexesOf("call") \subseteq Nat
          BY <1>2, <2>5 DEF Indexes
        <5>2. i < b \/ i = b
          BY <2>1, <2>6
        <5> QED
          BY <1>1, <5>1, <5>2
      <4>2. j < b
        BY <1>1, <3>1, <4>1
      <4>3. j \in B
        BY <4>2 DEF BlocksBefore
      <4> QED
        BY <2>1, <4>3
    <3> QED
      BY <2>4, <3>1, Zenon DEF Firsts
  <2>8. NothingLeft => D = IndexesOf("call")
    BY <1>2, <2>1, <2>3
  <2> HIDE DEF D, B
  <2>9. /\ Cardinality(D) \in Nat
        /\ \A k \in 1..Cardinality(D) : InOrder(D)[k] \in D
        /\ \A k, l \in 1..Cardinality(D) : k < l => InOrder(D)[k] < InOrder(D)[l]
    BY <2>5, ListedInOrder, ListedUpwards
  <2>10. \A k \in 1..Cardinality(D) :
           /\ CallsRead[k].block = InOrder(D)[k]
           /\ CallsRead[k].parts = read.open[InOrder(D)[k]]
    BY <2>2 DEF Call
  <2>11. ASSUME NEW k \in 1..Cardinality(D), read.open[InOrder(D)[k]] # <<1, 2>>
         PROVE  ~NothingLeft /\ k = Cardinality(D)
    <3>1. InOrder(D)[k] \in D /\ ~(InOrder(D)[k] < b)
      BY <2>1, <2>9, <2>11
    <3>2. InOrder(D)[k] = b /\ wire.line # 1
      BY <2>1, <2>6, <3>1
    <3>3. \A i \in D : i <= b
      <4>1. D \subseteq Nat
        BY <2>5 DEF Indexes
      <4>2. \A i \in D : i < b \/ i = b
        BY <2>1, <2>6
      <4> QED
        BY <1>1, <4>1, <4>2
    <3>4. ASSUME k # Cardinality(D)
          PROVE  FALSE
      <4>1. k + 1 \in 1..Cardinality(D) /\ k < k + 1
        BY <2>9, <3>4
      <4>2. InOrder(D)[k + 1] \in D /\ b < InOrder(D)[k + 1]
        BY <2>9, <3>2, <4>1
      <4>3. InOrder(D)[k + 1] <= b /\ InOrder(D)[k + 1] \in Nat
        BY <2>5, <3>3, <4>2 DEF Indexes
      <4> QED
        BY <1>1, <4>2, <4>3
    <3> QED
      BY <2>3, <3>2, <3>4
  <2>12. DOMAIN CallsRead = 1..Cardinality(D) /\ Len(CallsRead) = Cardinality(D)
    BY <2>2, <2>9
  <2>13. \A k \in 1..Cardinality(D) :
           /\ CallsRead[k].block = InOrder(D)[k]
           /\ \/ CallsRead[k].parts = <<1, 2>>
              \/ ~NothingLeft /\ provider = "openai_chat" /\ k = Cardinality(D)
    BY <1>4, <2>10, <2>11, Zenon
  <2> QED
    BY <2>7, <2>8, <2>12, <2>13, Zenon
<1> QED
  BY <1>3, <1>4, StreamOf

\* What holds after a step that shows nothing and leaves no stream open.
LEMMA NothingShownKeeps ==
    ASSUME AnswerInv, UNCHANGED <<provider, tools, answer, shown>>, attempt' \in Nat,
           \/ pc' \in {"start", "sent", "waiting"} /\ shown = <<>>
           \/ pc' = "failed",
           pc' = "sent" => wire' = FirstLine /\ read' = NothingRead
    PROVE  AnswerInv'
<1>1. Upwards(shown')
  BY DEF AnswerInv, AnswerIsWhatWasSent, Upwards
<1>2. AnswerIsWhatWasSent'
  BY <1>1, NotAnswered
<1> QED
  BY <1>2 DEF AnswerInv

\* An attempt that fails.
LEMMA FailureKeeps ==
    ASSUME AnswerInv, NEW kind, NEW again, NEW asked, Fails(kind, again, asked),
           pc = "sent" \/ (pc = "body" /\ again = FALSE)
    PROVE  AnswerInv'
<1>1. UNCHANGED <<provider, tools, answer, shown, attempt>> /\ pc' \in {"waiting", "failed"}
  BY DEF Fails, attemptVars
<1>2. pc' = "waiting" => pc = "sent"
  BY DEF Fails, CanRetry
<1> QED
  BY <1>1, <1>2, NothingShownKeeps DEF AnswerInv

\* The first line of an answer is read when nothing of it has been read.
LEMMA HeadersKeep ==
    ASSUME AnswerInv, HeadersArrive
    PROVE  AnswerInv'
<1>1. /\ pc = "sent" /\ pc' = "body" /\ answer' \in Answers
      /\ UNCHANGED <<provider, tools, attempt, wire, read, shown>>
  BY DEF HeadersArrive
<1>2. /\ shown' = <<>> /\ wire' = FirstLine /\ read' = NothingRead
  BY <1>1 DEF AnswerInv
<1>3. answer' \in Seq(Blocks) /\ Len(answer') <= MaxBlocks /\ Len(answer') \in Nat
  <2>1. PICK n \in 0..MaxBlocks : answer' \in [1..n -> Blocks]
    BY <1>1 DEF Answers
  <2>2. MaxBlocks \in Nat
    BY ConstantsAssumption DEF ConstantsAssumption
  <2>3. n \in Nat /\ n <= MaxBlocks
    BY <2>2
  <2>4. answer' \in Seq(Blocks) /\ Len(answer') = n
    BY <2>1, <2>3, SeqsAreFunctions
  <2> QED
    BY <2>3, <2>4
<1>4. Upwards(shown')
  BY <1>2 DEF Upwards
<1>5. AnswerIsWhatWasSent'
  BY <1>1, <1>4, NotAnswered
<1>6. /\ BlocksBefore("text", wire.block)' = {}
      /\ BlocksBefore("call", wire.block)' = {}
  BY <1>2, <1>3 DEF BlocksBefore, IndexesOf, FirstLine
<1>7. /\ TextsOf(BlocksBefore("text", wire.block))' = <<>>
      /\ CallsOf(BlocksBefore("call", wire.block))' = <<>>
  <2>1. Cardinality({}) = 0
    BY FS_EmptySet
  <2>2. TextsOf(BlocksBefore("text", wire.block))' = <<>>
    <3>1. TextsOf(BlocksBefore("text", wire.block))' =
            [k \in 1..Cardinality({}) |-> [try |-> attempt', block |-> InOrder({})[k]]]
      BY <1>6, Zenon DEF TextsOf, Text
    <3> QED
      BY <2>1, <3>1
  <2>3. CallsOf(BlocksBefore("call", wire.block))' = <<>>
    <3>1. CallsOf(BlocksBefore("call", wire.block))' =
            [k \in 1..Cardinality({}) |-> Whole(InOrder({})[k])]
      BY <1>6, Zenon DEF CallsOf
    <3> QED
      BY <2>1, <3>1
  <2> QED
    BY <2>2, <2>3
<1>8. ASSUME Streams'
      PROVE  StreamInv'
  <2>1. wire'.block = 1 /\ wire'.line = 1 /\ wire' \in [block : Nat \ {0}, line : Nat \ {0}]
    BY <1>2 DEF FirstLine
  <2>2. /\ read'.texts = <<>> /\ read'.calls = <<>> /\ read'.open = Nowhere
        /\ DOMAIN read' = {"texts", "calls", "open"}
    BY <1>2 DEF NothingRead
  <2>3. PlaceInv'
    <3>1. ASSUME ~NothingLeft'
          PROVE  1 <= Len(LinesNow')
      <4>1. answer'[1] \in Blocks
        BY <1>3, <2>1, <3>1 DEF NothingLeft
      <4>2. LinesNow' = BlockLines(answer'[1], 1)
        BY <1>1, <2>1 DEF LinesNow, BlockLines
      <4>3. Streams
        BY <1>1, <1>8 DEF Streams
      <4> QED
        BY <4>1, <4>2, <4>3, BlockHasLines
    <3> QED
      BY <1>3, <2>1, <3>1 DEF PlaceInv
  <2>4. AnthropicInv'
    BY <1>7, <2>1, <2>2 DEF AnthropicInv, Nowhere
  <2>5. ChatInv'
    <3>1. DOMAIN read'.open = {}
      BY <2>2 DEF Nowhere
    <3> QED
      BY <1>6, <2>1, <2>2, <3>1 DEF ChatInv
  <2>6. GeminiInv'
    BY <1>7, <2>2 DEF GeminiInv
  <2> QED
    BY <1>2, <1>7, <2>2, <2>3, <2>4, <2>5, <2>6, Zenon DEF StreamInv
<1> QED
  BY <1>1, <1>2, <1>3, <1>5, <1>8 DEF AnswerInv

\* A line of a stream.
LEMMA LineKeeps ==
    ASSUME AnswerInv, ReadLine
    PROVE  AnswerInv'
<1>1. /\ pc = "body" /\ Streams /\ ~NothingLeft /\ StreamInv /\ PlaceInv
      /\ UNCHANGED <<provider, tools, pc, attempt, answer>>
  BY DEF ReadLine, AnswerInv, StreamInv
<1>2. answer[wire.block] \in Blocks
  BY <1>1, BlockRead
<1>3. StreamInv'
  BY <1>1, <1>2, TextIsRead, CallIsRead DEF Blocks
<1>4. AnswerIsWhatWasSent'
  <2> DEFINE S == BlocksBefore("text", wire'.block)
  <2>1. S \in Indexes /\ attempt \in Nat
    <3>1. S \in SUBSET IndexesOf("text")
      BY DEF BlocksBefore
    <3> QED
      BY <3>1, BlocksAreIndexes DEF AnswerInv
  <2>2. shown' = TextsOf(S)
    <3>1. TextsOf(BlocksBefore("text", wire.block))' = TextsOf(S)
      BY <1>1, PlaceMoves
    <3> QED
      BY <1>3, <3>1 DEF StreamInv
  <2>3. Upwards(shown')
    BY <2>1, <2>2, TextsUpwards
  <2> QED
    BY <1>1, <2>3, NotAnswered
<1> QED
  BY <1>1, <1>3, <1>4 DEF AnswerInv, Streams

\* The end of a stream.
LEMMA StreamEndKeeps ==
    ASSUME AnswerInv, StreamCloses \/ StreamIsCut
    PROVE  AnswerInv'
<1>1. PICK how \in {"whole", "cut"} :
        StreamEnds(how) /\ (how = "whole" => NothingLeft) /\ (how = "cut" => ~NothingLeft)
  BY DEF StreamCloses, StreamIsCut
<1>2. /\ pc = "body" /\ Streams /\ StreamInv /\ PlaceInv /\ tools
      /\ UNCHANGED <<provider, tools, attempt, answer>> /\ pc' = "answered" /\ ended' = how
      /\ read' = [read EXCEPT !.calls = CallsRead] /\ shown' = Append(shown, Done)
  BY <1>1, StreamOf DEF StreamEnds, AnswerInv, StreamInv
<1> DEFINE T == BlocksBefore("text", wire.block)
<1>3. PICK C : /\ Firsts(C, "call")
               /\ NothingLeft => C = IndexesOf("call")
               /\ DOMAIN CallsRead = 1..Cardinality(C) /\ Len(CallsRead) = Cardinality(C)
               /\ \A k \in 1..Cardinality(C) :
                    /\ CallsRead[k].block = InOrder(C)[k]
                    /\ \/ CallsRead[k].parts = <<1, 2>>
                       \/ ~NothingLeft /\ provider = "openai_chat" /\ k = Cardinality(C)
  BY <1>2, CallsAtEnd
<1>4. Firsts(T, "text") /\ (NothingLeft => T = IndexesOf("text"))
  <2>1. answer \in Seq(Blocks) /\ Len(answer) \in Nat /\ wire.block \in Nat
    BY <1>2 DEF AnswerInv, PlaceInv
  <2>2. \A i \in T : \A j \in IndexesOf("text") : j < i => j \in T
    BY <2>1 DEF BlocksBefore, IndexesOf
  <2>3. NothingLeft => T = IndexesOf("text")
    BY <2>1, BlocksFromTo DEF NothingLeft
  <2>4. T \subseteq IndexesOf("text")
    BY DEF BlocksBefore
  <2> QED
    BY <2>2, <2>3, <2>4 DEF Firsts
<1>5. read'.texts = TextsOf(T) /\ read'.calls = CallsRead /\ shown = TextsOf(T)
  BY <1>2 DEF StreamInv
<1> HIDE DEF T
<1>6. ended' = "whole" => NothingLeft
  BY <1>1, <1>2
<1>7. ~NothingLeft => ended' = "cut"
  BY <1>1, <1>2
<1>8. AnswerIsWhatWasSent'
  <2>1. shown' = Append(TextsOf(T), Done)
    BY <1>2, <1>5
  <2>2. \A k \in 1..Cardinality(C) :
          \/ read'.calls[k].parts = <<1, 2>>
          \/ ended' = "cut" /\ provider = "openai_chat" /\ k = Cardinality(C)
    BY <1>3, <1>5, <1>7, Zenon
  <2>3. /\ DOMAIN read'.calls = 1..Cardinality(C) /\ Len(read'.calls) = Cardinality(C)
        /\ \A k \in 1..Cardinality(C) : read'.calls[k].block = InOrder(C)[k]
    BY <1>3, <1>5, Zenon
  <2>4. ended' = "whole" => T = IndexesOf("text") /\ C = IndexesOf("call")
    BY <1>3, <1>4, <1>6, Zenon
  <2> QED
    BY <1>2, <1>3, <1>4, <1>5, <2>1, <2>2, <2>3, <2>4, AnswerOfFirsts
<1> QED
  BY <1>2, <1>8 DEF AnswerInv

\* An answer that comes at once.
LEMMA BodyKeeps ==
    ASSUME AnswerInv, BodyIsRead
    PROVE  AnswerInv'
<1> DEFINE T == IndexesOf("text")
           C == IndexesOf("call")
<1>1. /\ pc = "body" /\ ~Streams /\ MayKeep
      /\ UNCHANGED <<provider, tools, attempt, answer>> /\ pc' = "answered" /\ ended' = "whole"
  BY DEF BodyIsRead
<1>2. /\ attempt \in Nat /\ T \in Indexes /\ C \in Indexes /\ shown = <<>>
  BY <1>1, BlocksAreIndexes DEF AnswerInv
<1>3. /\ InOrder(T) \in [1..Cardinality(T) -> T] /\ InOrder(C) \in [1..Cardinality(C) -> C]
  BY <1>2, ListedInOrder
<1>4. /\ DOMAIN InOrder(T) = 1..Cardinality(T) /\ DOMAIN InOrder(C) = 1..Cardinality(C)
  BY <1>3
<1>5. /\ TextsOf(T) = [k \in DOMAIN InOrder(T) |-> Text(InOrder(T)[k])]
      /\ CallsOf(C) = [k \in DOMAIN InOrder(C) |-> Whole(InOrder(C)[k])]
  BY <1>4, Zenon DEF TextsOf, CallsOf
<1> HIDE DEF T, C
<1>6. /\ read' = [texts |-> TextsOf(T), calls |-> CallsOf(C), open |-> Nowhere]
      /\ shown' = IF ~tools THEN shown ELSE shown \o TextsOf(T) \o <<Done>>
  BY <1>5, Zenon DEF BodyIsRead, T, C
<1>7. read'.texts = TextsOf(T) /\ read'.calls = CallsOf(C)
  BY <1>6
<1>8. tools => shown' = Append(TextsOf(T), Done)
  <2>1. TextsOf(T) \in Seq(Deltas)
    BY <1>2, TextsOfIndexes
  <2>2. <<>> \o TextsOf(T) = TextsOf(T)
    BY <2>1
  <2>3. Append(TextsOf(T), Done) = TextsOf(T) \o <<Done>>
    BY AnswerUpwards DEF T
  <2> QED
    BY <1>2, <1>6, <2>2, <2>3
<1>9. ~tools => shown' = <<>> /\ C = {}
  BY <1>1, <1>2, <1>6 DEF MayKeep, C
<1>10. Firsts(T, "text") /\ Firsts(C, "call")
  BY DEF Firsts, T, C
<1>11. /\ CallsOf(C) \in Seq(Parts) /\ Len(CallsOf(C)) = Cardinality(C)
       /\ \A k \in 1..Cardinality(C) :
            CallsOf(C)[k].block = InOrder(C)[k] /\ CallsOf(C)[k].parts = <<1, 2>>
  BY <1>2, CallsOfIndexes
<1>12. DOMAIN CallsOf(C) = 1..Cardinality(C)
  BY <1>11
<1>13. AnswerIsWhatWasSent'
  BY <1>1, <1>7, <1>8, <1>9, <1>10, <1>11, <1>12, AnswerOfFirsts DEF T, C
<1> QED
  BY <1>1, <1>13 DEF AnswerInv

\* Each step of a call keeps what is known of its answer.
LEMMA StepKeepsAnswer ==
    ASSUME AnswerInv, [Next]_vars
    PROVE  AnswerInv'
<1>1. CASE Refuse
  BY <1>1, NothingShownKeeps DEF Refuse, attemptVars, AnswerInv
<1>2. CASE Send
  <2>1. /\ pc = "start" /\ pc' = "sent" /\ answer' = <<>>
        /\ wire' = FirstLine /\ read' = NothingRead
        /\ UNCHANGED <<provider, tools, attempt, shown>>
    BY <1>2 DEF Send
  <2>2. shown' = <<>> /\ MaxBlocks \in Nat
    BY <2>1, ConstantsAssumption DEF ConstantsAssumption, AnswerInv
  <2>3. answer' \in Seq(Blocks) /\ Len(answer') <= MaxBlocks
    BY <2>1, <2>2
  <2>4. Upwards(shown')
    BY <2>2 DEF Upwards
  <2>5. AnswerIsWhatWasSent'
    BY <2>1, <2>4, NotAnswered
  <2> QED
    BY <2>1, <2>2, <2>3, <2>5 DEF AnswerInv
<1>3. CASE TryAgain
  <2>1. pc = "waiting" /\ pc' = "start" /\ attempt' = attempt + 1
        /\ UNCHANGED <<provider, tools, answer, shown>>
    BY <1>3 DEF TryAgain, attemptVars
  <2>2. attempt' \in Nat /\ shown = <<>>
    BY <2>1 DEF AnswerInv
  <2> QED
    BY <2>1, <2>2, NothingShownKeeps
<1>4. CASE TimeOut \/ NetworkFails \/ Refused
  BY <1>4, FailureKeeps DEF TimeOut, NetworkFails, Refused
<1>5. CASE StreamBreaks \/ BodyHasCalls \/ BodyIsMalformed
  BY <1>5, FailureKeeps DEF StreamBreaks, BodyHasCalls, BodyIsMalformed
<1>6. CASE HeadersArrive
  BY <1>6, HeadersKeep
<1>7. CASE ReadLine
  BY <1>7, LineKeeps
<1>8. CASE StreamCloses \/ StreamIsCut
  BY <1>8, StreamEndKeeps
<1>9. CASE BodyIsRead
  BY <1>9, BodyKeeps
<1>10. CASE UNCHANGED vars
  <2>1. /\ UNCHANGED <<provider, tools, pc, attempt, answer, wire, ended, read, shown>>
    BY <1>10 DEF vars, attemptVars
  <2>2. AnswerIsWhatWasSent'
    BY <2>1 DEF AnswerInv, AnswerIsWhatWasSent, Done, BlocksOf, IndexesOf
  <2>3. StreamInv => StreamInv'
    <3>1. /\ TextsOf(BlocksBefore("text", wire.block))' = TextsOf(BlocksBefore("text", wire.block))
          /\ CallsOf(BlocksBefore("call", wire.block))' = CallsOf(BlocksBefore("call", wire.block))
          /\ BlocksBefore("call", wire.block)' = BlocksBefore("call", wire.block)
          /\ NothingLeft' <=> NothingLeft
      <4>1. wire'.block = wire.block
        BY <2>1
      <4> QED
        BY <2>1, PlaceMoves, <4>1 DEF NothingLeft
    <3>2. LinesNow' = LinesNow
      BY <2>1 DEF LinesNow, BlockLines
    <3>3. PlaceInv => PlaceInv'
      BY <2>1, <3>1, <3>2 DEF PlaceInv
    <3>4. AnthropicInv => AnthropicInv'
      BY <2>1, <3>1 DEF AnthropicInv
    <3>5. ChatInv => ChatInv'
      BY <2>1, <3>1 DEF ChatInv
    <3>6. GeminiInv => GeminiInv'
      BY <2>1, <3>1 DEF GeminiInv
    <3> QED
      BY <2>1, <3>1, <3>3, <3>4, <3>5, <3>6, Zenon DEF StreamInv
  <2> QED
    BY <2>1, <2>2, <2>3 DEF AnswerInv, Streams
<1> QED
  BY <1>1, <1>2, <1>3, <1>4, <1>5, <1>6, <1>7, <1>8, <1>9, <1>10 DEF Next, Program, Fate

\* The text and the calls handed to the caller are those the provider sent, of
\* one attempt, in order and once, however the body is read and wherever its
\* stream ends (invoke, invokeWithTools, readSseDataChunks).
THEOREM AnswersAlwaysAsSent == Spec => []AnswerIsWhatWasSent
<1>1. Init => AnswerInv
  <2> SUFFICES ASSUME Init
               PROVE  AnswerInv
    OBVIOUS
  <2>1. AnswerIsWhatWasSent
    BY DEF Init, AnswerIsWhatWasSent
  <2>2. MaxBlocks \in Nat
    BY ConstantsAssumption DEF ConstantsAssumption
  <2> QED
    BY <2>1, <2>2 DEF Init, AnswerInv
<1>2. AnswerInv /\ [Next]_vars => AnswerInv'
  BY StepKeepsAnswer
<1>3. AnswerInv => AnswerIsWhatWasSent
  BY DEF AnswerInv
<1> QED
  BY <1>1, <1>2, <1>3, PTL DEF Spec
=============================================================================
