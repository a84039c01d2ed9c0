------------------------------ MODULE SdkStream ------------------------------
(***************************************************************************)
(* HttpClient.stream of the Python SDK (src/libs/sdk-py/langgraph_sdk/      *)
(* client.py; SyncHttpClient.stream is the same code without await): a run   *)
(* is streamed as server-sent events, the connection may break at any line,  *)
(* and the client reconnects to the Location it was given, telling the       *)
(* server the last event it handed to its caller. SSEDecoder is modelled     *)
(* line by line, SseLines models what comes before it.                      *)
(***************************************************************************)
EXTENDS Naturals, Sequences

CONSTANTS
    Ids,             \* Ids[i]: the id of the i-th part of the run, or NoId
    NoId,
    Servers,         \* the servers: does it give a Location, does it keep the parts
    MaxReconnects,   \* max_reconnect_attempts (5 in the code)
    MaxDrops         \* bound: connections that break

Parts == 1 .. Len(Ids)
NoPart == 0

VARIABLES
    server,      \* the server of this run
    produced,    \* parts the run has produced
    wire,        \* "none", "open": the connection
    sending,     \* the part the server sends next on it
    lines,       \* lines of that part the client has received
    decoder,     \* SSEDecoder: the part whose fields it holds, and _last_event_id
    lastEventId, \* of the last part dispatched, over all connections
    reconnectPath, \* a Location was given
    attempts,    \* reconnect_attempts
    drops,       \* connections that broke
    delivered,   \* parts yielded to the caller
    outcome      \* "none", "done", "raised", "refused"

run == <<server, produced>>
connection == <<wire, sending, lines>>
client == <<decoder, lastEventId, reconnectPath, attempts>>
vars == <<run, connection, client, drops, delivered, outcome>>

NewDecoder == [part |-> NoPart, id |-> NoId]

Init ==
    /\ server \in Servers
    /\ produced = 0
    /\ wire = "none" /\ sending = 1 /\ lines = 0
    /\ decoder = NewDecoder /\ lastEventId = NoId
    /\ reconnectPath = FALSE /\ attempts = 0
    /\ drops = 0 /\ delivered = <<>> /\ outcome = "none"

-----------------------------------------------------------------------------
(* The server (not in the repository)                                      *)

\* The run goes on whether anyone is connected or not.
Produce ==
    /\ wire = "open" \/ drops > 0
    /\ produced < Len(Ids)
    /\ produced' = produced + 1
    /\ UNCHANGED <<server, connection, client, drops, delivered, outcome>>

\* Where the server begins: with the run on the first connection; on a later one
\* after the event named, if it keeps what it has sent, and with what the run
\* produces from now on if it does not.
StartsAt(id) ==
    IF drops = 0 THEN 1
    ELSE IF ~server.keeps THEN produced + 1
    ELSE IF id = NoId THEN 1
    ELSE (CHOOSE i \in Parts : Ids[i] = id) + 1

-----------------------------------------------------------------------------
(* The client                                                              *)

\* A request: the first one, or a GET of the Location with Last-Event-ID.
Connect ==
    /\ wire = "none" /\ outcome = "none"
    /\ wire' = "open" /\ lines' = 0
    /\ sending' = StartsAt(lastEventId)
    /\ decoder' = NewDecoder
    /\ reconnectPath' = (reconnectPath \/ server.location)
    /\ UNCHANGED <<run, lastEventId, attempts, drops, delivered, outcome>>

\* A request that fails is not tried again.
ConnectFails ==
    /\ wire = "none" /\ outcome = "none" /\ drops > 0
    /\ outcome' = "refused"
    /\ UNCHANGED <<run, connection, client, drops, delivered>>

Sends(i) == wire = "open" /\ i = sending /\ i <= produced

\* The lines of a part, in order: its id, its event and data, the blank line.
IdLine ==
    /\ Sends(sending) /\ lines = 0
    /\ lines' = 1
    /\ decoder' = IF Ids[sending] = NoId THEN decoder ELSE [decoder EXCEPT !.id = Ids[sending]]
    /\ UNCHANGED <<run, wire, sending, lastEventId, reconnectPath, attempts, drops,
                   delivered, outcome>>

DataLine ==
    /\ Sends(sending) /\ lines = 1
    /\ lines' = 2
    /\ decoder' = [decoder EXCEPT !.part = sending]
    /\ UNCHANGED <<run, wire, sending, lastEventId, reconnectPath, attempts, drops,
                   delivered, outcome>>

DispatchAll ==          \* mutant: a part without event and data is yielded
    /\ lastEventId' = IF decoder.id # NoId THEN decoder.id ELSE lastEventId
    /\ delivered' = IF decoder # NewDecoder THEN Append(delivered, decoder.part)
                    ELSE delivered
    /\ decoder' = [decoder EXCEPT !.part = NoPart]

\* SSEDecoder.decode of an empty line, and what stream does with the part: one
\* without event and data is not yielded, the id is not reset.
Dispatch ==
    /\ lastEventId' = IF decoder.id # NoId THEN decoder.id ELSE lastEventId
    /\ delivered' = IF decoder.part # NoPart THEN Append(delivered, decoder.part)
                    ELSE delivered
    /\ decoder' = [decoder EXCEPT !.part = NoPart]

BlankLine ==
    /\ Sends(sending) /\ lines = 2
    /\ lines' = 0 /\ sending' = sending + 1
    /\ Dispatch
    /\ UNCHANGED <<run, wire, reconnectPath, attempts, drops, outcome>>

\* The server keeps the connection alive with a comment and a blank line.
Heartbeat ==
    /\ wire = "open" /\ lines = 0
    /\ Dispatch
    /\ UNCHANGED <<run, connection, reconnectPath, attempts, drops, outcome>>

DropAtLimit ==          \* mutant: off by one
    /\ wire = "open" /\ drops < MaxDrops
    /\ wire' = "none" /\ drops' = drops + 1
    /\ attempts' = IF reconnectPath THEN attempts + 1 ELSE attempts
    /\ outcome' = IF ~reconnectPath \/ attempts' >= MaxReconnects THEN "raised" ELSE "none"
    /\ UNCHANGED <<run, sending, lines, decoder, lastEventId, reconnectPath, delivered>>

\* httpx raises while the lines are read: without a Location the error goes to the
\* caller, as it does after too many reconnects.
Drop ==
    /\ wire = "open" /\ drops < MaxDrops
    /\ wire' = "none" /\ drops' = drops + 1
    /\ attempts' = IF reconnectPath THEN attempts + 1 ELSE attempts
    /\ outcome' = IF ~reconnectPath \/ attempts' > MaxReconnects THEN "raised" ELSE "none"
    /\ UNCHANGED <<run, sending, lines, decoder, lastEventId, reconnectPath, delivered>>

\* The server ends the response when the run is over, with or without the blank
\* line of the last part; what the decoder holds is dispatched.
CleanEnd ==
    /\ wire = "open" /\ produced = Len(Ids)
    /\ \/ sending > Len(Ids) /\ lines = 0
       \/ sending = Len(Ids) /\ lines = 2
    /\ wire' = "none" /\ outcome' = "done"
    /\ Dispatch
    /\ UNCHANGED <<run, sending, lines, reconnectPath, attempts, drops>>

Next == \/ Produce \/ Connect \/ ConnectFails \/ IdLine \/ DataLine \/ BlankLine
        \/ Heartbeat \/ Drop \/ CleanEnd

Spec == Init /\ [][Next]_vars

\* The run goes on, the client connects and reads, and the server ends the stream
\* of a run that is over.
Fairness ==
    /\ WF_vars(Produce) /\ WF_vars(Connect) /\ WF_vars(CleanEnd)
    /\ WF_vars(IdLine) /\ WF_vars(DataLine) /\ WF_vars(BlankLine)

FairSpec == Spec /\ Fairness

-----------------------------------------------------------------------------
(* Properties                                                              *)

Promise == INSTANCE OrderedDelivery
           WITH Length <- Len(Ids),
                outcome <- IF outcome = "refused" THEN "raised" ELSE outcome

\* Whatever breaks, the caller gets the parts of the run in order, none twice and
\* none left out, and the stream ends normally only after the last of them.
ImplementsOrderedDelivery == Promise!Spec

\* A run whose server gives a Location is streamed to its end, unless a request
\* fails or more connections break than the client may reconnect.
StreamEnds == <>(\/ outcome \in {"done", "refused"}
                 \/ drops > MaxReconnects
                 \/ ~server.location)
=============================================================================
