------------------------------ MODULE Supersteps ------------------------------
(***************************************************************************)
(* What a Pregel graph with a checkpointer promises, without versions,     *)
(* scheduling, threads or a store: the durable state of a conversation     *)
(* moves by whole supersteps only. "Computation proceeds in steps, while   *)
(* there are channel updates; channel updates from step N are only visible *)
(* in step N+1" (pregel/main.py, stream): a superstep runs every node a    *)
(* channel update made ready, each once, and applies the writes of one     *)
(* completed attempt of each; a new input drops the nodes that were ready. *)
(***************************************************************************)
EXTENDS PregelAlgo

CONSTANTS
    Routes,       \* [Nodes -> SUBSET SUBSET Channels]: what a node may write
    MaxTries      \* how often a node may be attempted at one checkpoint

VARIABLES
    head,         \* the id of the state
    val,          \* the value of every channel
    ready         \* the nodes an update made ready to run

vars == <<head, val, ready>>

Init ==
    /\ head = 0
    /\ val = [c \in Channels |-> {}]
    /\ ready = {}

-----------------------------------------------------------------------------

\* "tasks" consume what they read, then the tags received are applied.
Step(tasks, received) ==
    LET k == [val |-> val]
        settled == Settled(k, tasks, received)
        news == {c \in Channels : received[c] # {} /\ settled[c] # val[c]}
    IN  /\ ~Conflict(received)
        /\ val' = settled
        /\ ready' = {n \in Nodes :
                       \E c \in Triggers[n] \cap news : Available(settled, c)}

Tag(n, try) == [node |-> n, at |-> head, try |-> try]

\* Every ready node takes one of its routes, in one of its attempts (attempt 0:
\* what update_state wrote for it before it could finish).
Superstep ==
    /\ head' > head
    /\ ready # {}
    /\ \E route \in [ready -> UNION {Routes[n] : n \in ready}],
          try \in [ready -> 0 .. MaxTries] :
         /\ \A n \in ready : route[n] \in Routes[n]
         /\ Step(ready, [c \in Channels |->
                          {Tag(n, try[n]) : n \in {m \in ready : c \in route[m]}}])

TakeInput ==
    /\ head' > head
    /\ Step(ready, [c \in Channels |->
                      IF c = InputChannel THEN {Tag(Input, 1)} ELSE {}])

\* "Update the state of the graph with the given values, as if they came from
\* node as_node" (update_state): a superstep of that node alone.
UpdateAs(n) ==
    /\ head' > head
    /\ \E route \in Routes[n] :
         Step({n}, [c \in Channels |-> IF c \in route THEN {Tag(n, 0)} ELSE {}])

Next == Superstep \/ TakeInput \/ \E n \in Nodes : UpdateAs(n)

Spec == Init /\ [][Next]_vars
=============================================================================
