----------------------------- MODULE ModelProvider -----------------------------
(* One call of a live model provider: the request is sent, and sent again     *)
(* after a failure that may pass, until an answer's headers arrive, its body  *)
(* is read as one JSON value or as a stream of lines, and the text and the    *)
(* tool calls in it are handed to the caller.  The provider may answer late,  *)
(* fail, break off, or close the stream before the answer is whole.           *)
EXTENDS Naturals, Sequences, FiniteSets, SequencesExt, TLC

CONSTANTS
    Providers,      \* the live providers that can be resolved
    MaxRetries,     \* AETHERION_MODEL_MAX_RETRIES
    BaseDelay,      \* AETHERION_MODEL_RETRY_BASE_MS
    MaxDelay,       \* AETHERION_MODEL_RETRY_MAX_MS
    RetryAfters,    \* delays a provider asks for with an HTTP error
    MaxBlocks       \* text and tool call blocks of an answer

ASSUME ConstantsAssumption ==
    /\ Providers \subseteq {"openai_responses", "openai_chat", "anthropic", "gemini"}
    /\ MaxRetries \in Nat /\ BaseDelay \in Nat /\ MaxDelay \in Nat /\ MaxBlocks \in Nat
    /\ RetryAfters \subseteq Nat

VARIABLES
    provider,       \* the provider that was resolved
    tools,          \* invokeWithTools, otherwise invoke
    credential,     \* the credential of the provider is in the environment
    pc,             \* where the call is
    attempt,        \* attempts before this one
    failures,       \* what went wrong with the attempts, and how long each was waited after
    answer,         \* the blocks the provider answers the attempt with
    wire,           \* the place in the answer of the line that is read next
    ended,          \* how the body ended
    read,           \* what was read of the body
    shown           \* the deltas handed to the caller

attemptVars == <<answer, wire, ended, read>>
vars == <<provider, tools, credential, pc, attempt, failures, attemptVars, shown>>

FirstLine == [block |-> 1, line |-> 1]

Settled == {"answered", "failed"}

Nowhere == [x \in {} |-> x]
With(f, x, y) == [z \in DOMAIN f \cup {x} |-> IF z = x THEN y ELSE f[z]]
Without(f, x) == [y \in DOMAIN f \ {x} |-> f[y]]

NothingRead == [texts |-> <<>>, calls |-> <<>>, open |-> Nowhere]

\* All but invoke and the Responses API read a stream.
Streams == tools /\ provider # "openai_responses"

-----------------------------------------------------------------------------
(* The request: postJsonOnce, postStreamOnce, withProviderRetry             *)

\* Without a credential nothing is sent.
Refuse ==
    /\ pc = "start"
    /\ ~credential
    /\ pc' = "failed"
    /\ failures' = Append(failures, [kind |-> "credential", again |-> FALSE, waited |-> 0])
    /\ UNCHANGED <<provider, tools, credential, attempt, attemptVars, shown>>

\* The request is sent and the timer set.
Send ==
    /\ pc = "start"
    /\ credential
    /\ pc' = "sent"
    /\ answer' = <<>> /\ wire' = FirstLine /\ ended' = "no" /\ read' = NothingRead
    /\ UNCHANGED <<provider, tools, credential, attempt, failures, shown>>

\* Variant of CanRetry: the last retry is not counted.
CanRetryOnceMore(again) == again /\ attempt <= MaxRetries

CanRetry(again) == again /\ attempt < MaxRetries

\* Variant of Delays: what the provider asks for is not capped.
DelaysAsAsked(asked) ==
    IF asked # {} THEN asked ELSE {ms \in 0..MaxDelay : ms <= BaseDelay * 2^attempt}

\* providerRetryDelayMs: what the provider asks for, or full jitter.
Delays(asked) ==
    IF asked # {} THEN {Min({a, MaxDelay}) : a \in asked}
    ELSE {ms \in 0..MaxDelay : ms <= BaseDelay * 2^attempt}

\* An attempt that fails: after a wait the next begins, or the call fails.
Fails(kind, again, asked) ==
    /\ IF CanRetry(again)
       THEN \E ms \in Delays(asked) :
              /\ failures' = Append(failures, [kind |-> kind, again |-> TRUE, waited |-> ms])
              /\ pc' = "waiting"
       ELSE /\ failures' = Append(failures, [kind |-> kind, again |-> again, waited |-> 0])
            /\ pc' = "failed"
    /\ UNCHANGED <<provider, tools, credential, attempt, attemptVars, shown>>

TryAgain ==
    /\ pc = "waiting"
    /\ pc' = "start"
    /\ attempt' = attempt + 1
    /\ UNCHANGED <<provider, tools, credential, failures, attemptVars, shown>>

\* Variant of TimeOut: nothing races the request.
TimeOutNever == FALSE

\* The timer fires and the request is aborted.
TimeOut == pc = "sent" /\ Fails("timeout", TRUE, {})

NetworkFails == pc = "sent" /\ Fails("network", TRUE, {})

\* retryableHttpStatus: 408, 409, 425, 429 and the statuses of the server.
Refused ==
    /\ pc = "sent"
    /\ \/ Fails("rejected", FALSE, {})
       \/ \E asked \in {{}} \cup {{a} : a \in RetryAfters} : Fails("busy", TRUE, asked)

-----------------------------------------------------------------------------
(* The answer: what the providers send of a block, and what is made of it   *)

Blocks == {"text", "call"}
Answers == UNION {[1..n -> Blocks] : n \in 0..MaxBlocks}

Line(is, block, part) == [is |-> is, block |-> block, part |-> part]

\* The lines of a block.  The arguments of a call come in two parts, from
\* Anthropic with a line when they are whole, from Gemini at once.
BlockLines(kind, i) ==
    IF kind = "text" THEN <<Line("text", i, 0)>>
    ELSE CASE provider = "anthropic" ->
                <<Line("open", i, 0), Line("part", i, 1), Line("part", i, 2), Line("close", i, 0)>>
           [] provider = "openai_chat" -> <<Line("part", i, 1), Line("part", i, 2)>>
           [] provider = "gemini" -> <<Line("whole", i, 0)>>

LinesNow == BlockLines(answer[wire.block], wire.block)
NothingLeft == wire.block > Len(answer)

NextLine ==
    IF wire.line < Len(LinesNow) THEN [wire EXCEPT !.line = @ + 1]
    ELSE [block |-> wire.block + 1, line |-> 1]

\* The headers arrive and the timer is cleared: nothing limits the body.
HeadersArrive ==
    /\ pc = "sent"
    /\ pc' = "body"
    /\ answer' \in Answers
    /\ UNCHANGED <<provider, tools, credential, attempt, failures, wire, ended, read, shown>>

Text(i) == [try |-> attempt, block |-> i]
Call(i, parts) == [block |-> i, parts |-> parts]
Whole(i) == Call(i, <<1, 2>>)

WithText(a, i) == [a EXCEPT !.texts = Append(@, Text(i))]

\* content_block_start, content_block_delta, content_block_stop
AnthropicReads(a, line) ==
    CASE line.is = "text" -> WithText(a, line.block)
      [] line.is = "open" -> [a EXCEPT !.open = With(@, line.block, <<>>)]
      [] line.is = "part" -> [a EXCEPT !.open[line.block] = Append(@, line.part)]
      [] line.is = "close" ->
           [a EXCEPT !.calls = Append(@, Call(line.block, a.open[line.block])),
                     !.open = Without(@, line.block)]

\* Parts of the arguments are put together by the index of their call.
ChatReads(a, line) ==
    IF line.is = "text" THEN WithText(a, line.block)
    ELSE IF line.block \in DOMAIN a.open
         THEN [a EXCEPT !.open[line.block] = Append(@, line.part)]
         ELSE [a EXCEPT !.open = With(@, line.block, <<line.part>>)]

GeminiReads(a, line) ==
    IF line.is = "text" THEN WithText(a, line.block)
    ELSE [a EXCEPT !.calls = Append(@, Whole(line.block))]

\* readSseDataChunks and the loop over its lines.
ReadLine ==
    /\ pc = "body"
    /\ Streams
    /\ ~NothingLeft
    /\ LET line == LinesNow[wire.line]
       IN /\ read' = CASE provider = "anthropic" -> AnthropicReads(read, line)
                       [] provider = "openai_chat" -> ChatReads(read, line)
                       [] provider = "gemini" -> GeminiReads(read, line)
          /\ shown' = IF line.is = "text" THEN Append(shown, Text(line.block)) ELSE shown
    /\ wire' = NextLine
    /\ UNCHANGED <<provider, tools, credential, pc, attempt, failures, answer, ended>>

\* The indexes from the least to the greatest.
Before(indexes, i) == {j \in indexes : j < i}
InOrder(indexes) ==
    [k \in 1..Cardinality(indexes) |->
       CHOOSE i \in indexes : Cardinality(Before(indexes, i)) = k - 1]

\* Variant of AnthropicCalls: blocks that were not closed are calls as well.
AnthropicCallsAll ==
    read.calls \o [k \in 1..Cardinality(DOMAIN read.open) |->
                     LET i == InOrder(DOMAIN read.open)[k] IN Call(i, read.open[i])]

\* Only a block that was closed is a call.
AnthropicCalls == read.calls

\* Whatever has come of a call is a call.
ChatCalls ==
    [k \in 1..Cardinality(DOMAIN read.open) |->
       LET i == InOrder(DOMAIN read.open)[k] IN Call(i, read.open[i])]

CallsRead ==
    CASE provider = "anthropic" -> AnthropicCalls
      [] provider = "openai_chat" -> ChatCalls
      [] provider = "gemini" -> read.calls

\* The delta that ends an answer comes after those of its blocks.
Done == [try |-> attempt, block |-> MaxBlocks + 1]

\* The stream is closed: that it is the end of the answer is not looked for.
StreamEnds(how) ==
    /\ pc = "body"
    /\ Streams
    /\ ended' = how
    /\ read' = [read EXCEPT !.calls = CallsRead]
    /\ shown' = Append(shown, Done)
    /\ pc' = "answered"
    /\ UNCHANGED <<provider, tools, credential, attempt, failures, answer, wire>>

StreamCloses == NothingLeft /\ StreamEnds("whole")
StreamIsCut == ~NothingLeft /\ StreamEnds("cut")

\* Variant of StreamBreaks: a broken stream counts as a failure of the network.
StreamBreaksRetried ==
    /\ pc = "body"
    /\ Streams
    /\ Fails("broken", TRUE, {})

\* Reading the stream throws.
StreamBreaks ==
    /\ pc = "body"
    /\ Streams
    /\ Fails("broken", FALSE, {})

IndexesOf(kind) == {i \in DOMAIN answer : answer[i] = kind}

\* Variant of MayKeep: a call does not keep an answer without tools from being used.
MayKeepAny == TRUE

\* assertNoProviderToolCalls
MayKeep == tools \/ IndexesOf("call") = {}

\* response.json() and the mapping of the value: its text is shown at once.
BodyIsRead ==
    /\ pc = "body"
    /\ ~Streams
    /\ MayKeep
    /\ LET texts == InOrder(IndexesOf("text"))
           calls == InOrder(IndexesOf("call"))
       IN /\ read' = [texts |-> [k \in DOMAIN texts |-> Text(texts[k])],
                      calls |-> [k \in DOMAIN calls |-> Whole(calls[k])],
                      open |-> Nowhere]
          /\ shown' = IF ~tools THEN shown
                      ELSE shown \o [k \in DOMAIN texts |-> Text(texts[k])] \o <<Done>>
    /\ ended' = "whole"
    /\ pc' = "answered"
    /\ UNCHANGED <<provider, tools, credential, attempt, failures, answer, wire>>

BodyHasCalls ==
    /\ pc = "body"
    /\ ~Streams
    /\ ~MayKeep
    /\ Fails("tool_call", FALSE, {})

\* The body is cut, or is not JSON.
BodyIsMalformed ==
    /\ pc = "body"
    /\ ~Streams
    /\ Fails("malformed", FALSE, {})

-----------------------------------------------------------------------------

\* resolveModelProvider, and the mode its caller asks for.
Init ==
    /\ provider \in Providers
    /\ tools \in BOOLEAN
    /\ credential \in BOOLEAN
    /\ pc = "start"
    /\ attempt = 0
    /\ failures = <<>>
    /\ answer = <<>> /\ wire = FirstLine /\ ended = "no" /\ read = NothingRead
    /\ shown = <<>>

\* What the program does by itself, its timers included.
Program == Refuse \/ Send \/ TryAgain \/ TimeOut

\* What waits for the network and the provider.
Fate ==
    \/ NetworkFails \/ Refused \/ HeadersArrive
    \/ ReadLine \/ StreamCloses \/ StreamIsCut \/ StreamBreaks
    \/ BodyIsRead \/ BodyHasCalls \/ BodyIsMalformed

Next == Program \/ Fate
Spec == Init /\ [][Next]_vars

\* The process runs and its timers fire.  Nothing makes a provider answer, or
\* a body go on whose headers have arrived.
FairSpec == Spec /\ WF_vars(Program)

-----------------------------------------------------------------------------

BlocksOf(kind) == InOrder(IndexesOf(kind))

\* What is shown is of one attempt and nothing is shown twice, the end of the
\* answer once and last.  An answer is the text that was shown, and what the
\* provider sent when its stream came to its end.  Of a stream that was cut it
\* is a first part, in which only the Chat API lets a call be incomplete.
\* (invoke, invokeWithTools, readSseDataChunks)
AnswerIsWhatWasSent ==
    /\ \A i, j \in DOMAIN shown : i < j =>
         shown[i].try = shown[j].try /\ shown[i].block < shown[j].block
    /\ pc = "answered" =>
         LET texts == [k \in DOMAIN read.texts |-> read.texts[k].block]
             calls == [k \in DOMAIN read.calls |-> read.calls[k].block]
         IN /\ tools => shown = read.texts \o <<Done>>
            /\ ~tools => shown = <<>> /\ calls = <<>>
            /\ IsPrefix(texts, BlocksOf("text")) /\ IsPrefix(calls, BlocksOf("call"))
            /\ ended = "whole" => texts = BlocksOf("text") /\ calls = BlocksOf("call")
            /\ \A k \in DOMAIN read.calls :
                 \/ read.calls[k].parts = <<1, 2>>
                 \/ ended = "cut" /\ provider = "openai_chat" /\ k = Len(read.calls)

\* A call fails at once for what will not pass, and otherwise only after the
\* last of the attempts, each after the wait the provider asked for or a
\* shorter one (withProviderRetry, providerRetryDelayMs).
RetriesAreJustified ==
    /\ Len(failures) <= MaxRetries + 1
    /\ \A i \in DOMAIN failures : i < Len(failures) => failures[i].again
    /\ \A i \in DOMAIN failures : failures[i].waited <= MaxDelay
    /\ pc = "failed" => ~Last(failures).again \/ Len(failures) = MaxRetries + 1
    /\ pc = "answered" => Len(failures) = attempt

\* A provider that never sends its headers does not keep the call: however
\* often that happens, the call ends or comes to a body, and it is only in a
\* body that it may stay for ever, since the timer is cleared before it is read
\* (postJsonOnce, postStreamOnce, withProviderRetry).
CallEnds == <>(pc \in Settled) \/ <>[](pc = "body")
=============================================================================
