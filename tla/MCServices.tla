------------------------------ MODULE MCServices ------------------------------
(***************************************************************************)
(* What a graph and those who run it wait for, side by side for the model   *)
(* checker: the items' time to live in a store (StoreTtl), its namespaces   *)
(* (StoreNamespaces) and searches (StoreSearch); the SDK's streams          *)
(* (SdkStream), the lines they are made of (SseLines) and requests that wait*)
(* for a run (SdkRequest); nodes that stop to ask a human (NodeInterrupts). *)
(* A behaviour is about one part; the others stay as they were made.        *)
(***************************************************************************)
EXTENDS StoreTtl, Sequences

CONSTANTS
    Nobody,
    Ids, NoId, Servers, MaxReconnects, MaxDrops,       \* of the stream: SdkStream
    OtherBytes, MaxBytes,                              \* of its lines: SseLines
    Payloads, NoPayload, ReconnectLimit, MaxBreaks,    \* SdkRequest
    Dialogues                                          \* NodeInterrupts' Setups

VARIABLES
    part,
    nData, nRows,
    memory, memoryVectors, sRows, vectors, refused,
    server, produced, wire, sending, lines, decoder, lastEventId, reconnectPath, attempts,
    drops, delivered, outcome,
    fed, buffer, trailingCr, out,
    headers, content, location, limit, breaks, state,
    setup, phase, disk, diskNull, kept, null, given, resume, status, heard,
    committed, result, shown, runs, budget

namespaces == <<nData, nRows>>
search == <<memory, memoryVectors, sRows, vectors, refused>>
stream == <<server, produced, wire, sending, lines, decoder, lastEventId, reconnectPath,
            attempts, drops, delivered, outcome>>
text == <<fed, buffer, trailingCr, out>>
request == <<headers, content, location, limit, breaks, state>>
dialogue == <<setup, phase, disk, diskNull, kept, null, given, resume, status, heard,
              committed, result, shown, runs, budget>>
all == <<part, vars, namespaces, search, stream, text, request, dialogue>>

-----------------------------------------------------------------------------
(* Stores.                                                                  *)

\* No ttl, half a minute, one and one and a half.
SomeTtls == {Forever, 30, 90}

HalfMinutes == {30}

\* Postgres, and SQLite with refreshes and without.
Databases == {[sqlite |-> FALSE, onRead |-> TRUE], [sqlite |-> TRUE, onRead |-> TRUE],
              [sqlite |-> TRUE, onRead |-> FALSE]}

\* Two labels, none of which continues another, in up to two levels.
Namespaces ==
    INSTANCE StoreNamespaces WITH
      Labels <- {<<"a">>, <<"b">>}, MaxDepth <- 2, Keys <- {"k"}, FoldsCase <- TRUE,
      Star <- <<"*">>, data <- nData, rows <- nRows

\* Two values with two texts each: their vectors are at the same paths.
Search2(n) == 2 * n

Semantic ==
    INSTANCE StoreSearch WITH
      Keys <- 1 .. 3, Indexes <- BOOLEAN, Numbers <- {4, 9, 10},
      Values <- {[score |-> 4, texts |-> <<4, 5>>], [score |-> 10, texts |-> <<3, 2>>]},
      Cascades <- FALSE, TextOrder <- FALSE, Expanded <- Search2, rows <- sRows

-----------------------------------------------------------------------------
(* The SDK.                                                                 *)

ThreeNumbered == <<1, 2, 3>>

\* Servers that give a Location keep what they have sent.
GoodServers == {[location |-> TRUE, keeps |-> TRUE], [location |-> FALSE, keeps |-> FALSE]}

Lines == INSTANCE SseLines WITH Other <- OtherBytes

Request ==
    INSTANCE SdkRequest WITH
      Empty <- NoPayload, drops <- breaks, MaxDrops <- MaxBreaks

\* reconnect_limit is a number, and a request may have no body.
ASSUME RequestAssumption == ReconnectLimit \in Nat /\ NoPayload \in Payloads

Streams == INSTANCE SdkStream

\* What the promise of a stream asks of the server: each part has an id of its own, and a
\* server that gives a Location keeps the parts.
ASSUME StreamAssumption ==
    /\ Len(Ids) \in Nat
    /\ \A i \in 1 .. Len(Ids) :
          Ids[i] # NoId /\ \A j \in 1 .. Len(Ids) : Ids[i] = Ids[j] => i = j
    /\ \A s \in Servers : s.location => s.keeps

-----------------------------------------------------------------------------
(* Nodes that ask.                                                          *)

Ask == <<"ask">>
AskTwice == <<"ask", "ask">>

\* Two nodes at once, answered by id, a failure and a crash; a database.
Two == [programs |-> [a |-> AskTwice, b |-> Ask \o <<"call">>],
        mapped |-> TRUE, sql |-> TRUE, crashes |-> 1, failures |-> 1]

\* A question that rests on the result of a call, no crash; the saver in memory.
Calling == [programs |-> [a |-> <<"call", "ask", "call", "ask">>, b |-> Ask],
            mapped |-> TRUE, sql |-> FALSE, crashes |-> 0, failures |-> 2]

\* One node, answers without an id, two crashes; a database.
Bare == [programs |-> [a |-> AskTwice \o Ask \o <<"call">>],
         mapped |-> FALSE, sql |-> TRUE, crashes |-> 2, failures |-> 0]

ThreeDialogues == {Two, Calling, Bare}

Asking == INSTANCE NodeInterruptsProofs WITH Setups <- Dialogues, None <- Nobody

\* What the theorems about dialogues ask.
ASSUME DialogueSetups == Asking!SetupsOK

Callers == INSTANCE DatabasePrograms

\* What the theorem about the callers of savers and stores asks of their methods.
ASSUME DatabaseMethods ==
    \A o \in Callers!SaverObjects({1, 2}, {1}) \cup Callers!StoreObjects({1, 2})
               \cup {Callers!Unused} : Callers!ObjectOK(o)

-----------------------------------------------------------------------------
ServicesInit ==
    /\ part \in {"ttl", "namespaces", "search", "stream", "lines", "request", "dialogue"}
    /\ Init /\ Namespaces!Init /\ Semantic!Init
    /\ Streams!Init /\ Lines!Init /\ Request!Init /\ Asking!Init
    /\ part # "ttl" => abrupt
    /\ abrupt => ~config.sqlite        \* one sweeper's code is the other's
    /\ part # "stream" => server.location
    /\ part # "request" => location /\ headers = NoPayload
    /\ part # "dialogue" => setup = Bare

ServicesNext ==
    /\ UNCHANGED part
    /\ \/ part = "ttl" /\ Next
          /\ UNCHANGED <<namespaces, search, stream, text, request, dialogue>>
       \/ part = "namespaces" /\ Namespaces!Next
          /\ UNCHANGED <<vars, search, stream, text, request, dialogue>>
       \/ part = "search" /\ Semantic!Next
          /\ UNCHANGED <<vars, namespaces, stream, text, request, dialogue>>
       \/ part = "stream" /\ Streams!Next
          /\ UNCHANGED <<vars, namespaces, search, text, request, dialogue>>
       \/ part = "lines" /\ Lines!Next
          /\ UNCHANGED <<vars, namespaces, search, stream, request, dialogue>>
       \/ part = "request" /\ Request!Next
          /\ UNCHANGED <<vars, namespaces, search, stream, text, dialogue>>
       \/ part = "dialogue" /\ Asking!Next
          /\ UNCHANGED <<vars, namespaces, search, stream, text, request>>

\* The parts' own fairness: nothing is asked of a part the behaviour is not about.
SweeperRuns ==
    WF_vars(part = "ttl" /\ Thread) /\ WF_vars(part = "ttl" /\ Joined)

StreamFlows ==
    /\ WF_stream(part = "stream" /\ Streams!Produce)
    /\ WF_stream(part = "stream" /\ Streams!Connect)
    /\ WF_stream(part = "stream" /\ Streams!CleanEnd)
    /\ WF_stream(part = "stream" /\ Streams!IdLine)
    /\ WF_stream(part = "stream" /\ Streams!DataLine)
    /\ WF_stream(part = "stream" /\ Streams!BlankLine)

HumanAnswers ==
    /\ SF_dialogue(part = "dialogue" /\ (Asking!AnswerById \/ Asking!AnswerBare))
    /\ WF_dialogue(part = "dialogue" /\ Asking!Human)
    /\ WF_dialogue(part = "dialogue" /\ \E t \in Asking!Tasks : Asking!Task(t))
    /\ WF_dialogue(part = "dialogue" /\ Asking!Save)
    /\ WF_dialogue(part = "dialogue" /\ Asking!Return)

ServicesSpec ==
    ServicesInit /\ [][ServicesNext]_all /\ SweeperRuns /\ StreamFlows /\ HumanAnswers

-----------------------------------------------------------------------------
(* The properties of the parts, which the modules state.                    *)

\* Searches and lists of both kinds of store find what the definitions say.
NamespacesAgree ==
    part = "namespaces" => Namespaces!SearchIsScoped /\ Namespaces!SqlListsMatching

\* Filters compare numbers, and the first page holds the best.
SearchesAgree ==
    part = "search" => Semantic!FirstPageIsBest /\ Semantic!FiltersCompareNumbers

\* Neither the chunks of the bytes nor the connections that break are seen by the
\* caller: lines are whole, and a request without a body is answered.
WireIsRead ==
    Lines!ChunksDoNotMatter /\ Lines!NoLineHeldBack /\ Request!JoinReconnects

ImplementsOrderedDelivery == Streams!ImplementsOrderedDelivery
AnswersFit == Asking!AnswersFit
ImplementsDialogue == Asking!ImplementsDialogue

\* Everything comes to its end: what has expired is swept and a stop returns, a
\* stream is read, a dialogue is over.
ServicesEnd ==
    /\ part = "ttl" => ExpiredAreSwept /\ StopEnds
    /\ part = "stream" => Streams!StreamEnds
    /\ part = "dialogue" => Asking!DialogueEnds
=============================================================================
