---------------------------- MODULE KeyValueStore ----------------------------
(***************************************************************************)
(* What a key-value store promises to callers that use it concurrently: the *)
(* calls that have not been served are served in groups, at one instant     *)
(* each. The reads of a group see the data before it; of the values a group *)
(* writes to a key, one stays. A call whose caller gave up may still be     *)
(* served; a group that fails leaves the data as it was.                    *)
(***************************************************************************)
EXTENDS Naturals, FiniteSets

CONSTANTS
    Callers,               \* tasks and threads that use the store
    Keys,                  \* a namespace and a key in it
    MaxCalls               \* how many calls each caller makes

VARIABLES
    data,                  \* the value of each key: the call that wrote it
    calls,                 \* each call: its operation, its future, its result
    todo                   \* the calls not yet served

vars == <<data, calls, todo>>

Ids == UNION {{<<c, n>> : n \in 1 .. MaxCalls[c]} : c \in Callers}

Nothing == <<>>
NoOp == [kind |-> "none"]

\* The operations of a call: a value is the call that writes it, a delete
\* writes Nothing; a search returns every key it finds.
OpsOf(id) == [kind : {"get"}, key : Keys] \cup [kind : {"search"}]
                 \cup [kind : {"put"}, key : Keys, value : {id, Nothing}]

Values == Ids \cup {Nothing}

IsPut(op) == op.kind = "put"

ReadOf(d, op) ==
    CASE op.kind = "get"    -> d[op.key]
      [] op.kind = "search" -> d
      [] op.kind = "put"    -> Nothing

Idle(c) == \A n \in 1 .. MaxCalls[c] : calls[<<c, n>>].future # "pending"

Init ==
    /\ data = [k \in Keys |-> Nothing]
    /\ calls = [id \in Ids |-> [op |-> NoOp, future |-> "none", result |-> Nothing]]
    /\ todo = {}

Invoke(c) ==
    /\ Idle(c)
    /\ \E n \in 1 .. MaxCalls[c] :
          /\ \A m \in 1 .. MaxCalls[c] : (calls[<<c, m>>].future = "none") <=> (m >= n)
          /\ \E op \in OpsOf(<<c, n>>) :
                calls' = [calls EXCEPT ![<<c, n>>].op = op, ![<<c, n>>].future = "pending"]
          /\ todo' = todo \cup {<<c, n>>}
    /\ UNCHANGED data

GiveUp(id) ==
    /\ calls[id].future = "pending"
    /\ calls' = [calls EXCEPT ![id].future = "cancelled"]
    /\ UNCHANGED <<data, todo>>

Answered(S, f, result) ==
    [id \in Ids |-> IF id \in S /\ calls[id].future = "pending"
                    THEN [calls[id] EXCEPT !.future = f, !.result = result[id]]
                    ELSE calls[id]]

Written(S, k) == {calls[id].op.value : id \in {i \in S : IsPut(calls[i].op) /\ calls[i].op.key = k}}

Serve(S) ==
    /\ data' \in [Keys -> Values]
    /\ \A k \in Keys : IF Written(S, k) = {} THEN data'[k] = data[k]
                                            ELSE data'[k] \in Written(S, k)
    /\ calls' = Answered(S, "done", [id \in S |-> ReadOf(data, calls[id].op)])
    /\ todo' = todo \ S

Refuse(S) ==
    /\ calls' = Answered(S, "failed", [id \in S |-> Nothing])
    /\ todo' = todo \ S
    /\ UNCHANGED data

Next ==
    \/ \E c \in Callers : Invoke(c)
    \/ \E id \in Ids : GiveUp(id)
    \/ \E S \in (SUBSET todo) \ {{}} : Serve(S) \/ Refuse(S)

Spec == Init /\ [][Next]_vars
=============================================================================
