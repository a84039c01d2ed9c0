------------------------------ MODULE SdkRequest ------------------------------
(***************************************************************************)
(* HttpClient.request_reconnect of the Python SDK (src/libs/sdk-py/          *)
(* langgraph_sdk/client.py), behind runs.wait and runs.join: one request      *)
(* whose answer may take long, sent again to the Location when the           *)
(* connection breaks while the answer is read.                              *)
(***************************************************************************)
EXTENDS Naturals

CONSTANTS
    Payloads,         \* bodies of the first request
    Empty,            \* what a request without json has for a body
    ReconnectLimit,   \* reconnect_limit
    MaxDrops          \* bound: connections that break

VARIABLES
    headers,     \* the body request_headers describe (Content-Length)
    content,     \* the body of the request
    location,    \* the server gives a Location
    limit,       \* reconnect_limit of this call
    drops,       \* connections that broke
    state        \* "call", "sent", "answered", "raised", "refused"

vars == <<headers, content, location, limit, drops, state>>

Init ==
    /\ location \in BOOLEAN
    /\ headers \in Payloads /\ content = headers
    /\ limit = ReconnectLimit /\ drops = 0
    /\ state = "call"

\* The HTTP library sends no request whose body is not as long as its headers say.
Send ==
    /\ state = "call"
    /\ state' = IF headers = content THEN "sent" ELSE "refused"
    /\ UNCHANGED <<headers, content, location, limit, drops>>

Answer ==
    /\ state = "sent"
    /\ state' = "answered"
    /\ UNCHANGED <<headers, content, location, limit, drops>>

DropOneFewer ==         \* mutant: the last reconnect is not made
    /\ state = "sent" /\ drops < MaxDrops
    /\ drops' = drops + 1
    /\ IF limit <= 1 \/ ~location
       THEN state' = "raised" /\ UNCHANGED <<content, limit>>
       ELSE state' = "call" /\ content' = Empty /\ limit' = limit - 1
    /\ UNCHANGED <<headers, location>>

\* The connection breaks while the body of the answer is read: the Location is asked
\* with GET, without json, and with the headers of this call.
Drop ==
    /\ state = "sent" /\ drops < MaxDrops
    /\ drops' = drops + 1
    /\ IF limit = 0 \/ ~location
       THEN state' = "raised" /\ UNCHANGED <<content, limit>>
       ELSE state' = "call" /\ content' = Empty /\ limit' = limit - 1
    /\ UNCHANGED <<headers, location>>

Next == Send \/ Answer \/ Drop

Spec == Init /\ [][Next]_vars

-----------------------------------------------------------------------------

\* "Send a request that automatically reconnects to Location header": a request
\* without a body (runs.join) survives as many broken connections as its limit says.
\* (One with a body, runs.wait with an input, survives none: its first reconnect is
\* refused, because it carries the Content-Length of the body it does not have.)
JoinReconnects ==
    headers = Empty =>
        /\ state # "refused"
        /\ state = "raised" => ~location \/ drops > ReconnectLimit
=============================================================================
