------------------------------- MODULE EdgeRuns -------------------------------
(***************************************************************************)
(* What the edges of a StateGraph say, without channels: a node runs when   *)
(* a node with an edge to it has run, when a branch or a Command leads to   *)
(* it, or when "ALL of the start nodes" of an edge that waits have          *)
(* "completed" (add_edge); a Send runs it as well. A deferred node is held   *)
(* back "until the run is about to end" (add_node). The graph that runs is  *)
(* the one that was compiled.                                               *)
(***************************************************************************)
EXTENDS FiniteSets, Sequences, Functions

CONSTANTS START, END

VARIABLES
    plan,         \* nodes, edges, waiting: the graph, once compiled
    running,      \* nodes to run by edges
    pushed,       \* nodes to run by Sends
    arrived,      \* per edge that waits, the starts that have completed
    held          \* deferred nodes that wait for the end

vars == <<plan, running, pushed, arrived, held>>

Deferred == {n \in DOMAIN plan.nodes : plan.nodes[n].defer}
Joins == {w \in plan.waiting : w[2] # END}

Init == plan = <<>> /\ running = {} /\ pushed = {} /\ arrived = <<>> /\ held = {}

\* A compiled graph runs what it was when it was compiled.
Start ==
    /\ plan = <<>> /\ plan' # <<>>
    /\ running' = {START} /\ pushed' = {} /\ held' = {}
    /\ arrived' = [w \in Joins' |-> {}]

Step ==
    /\ plan # <<>> /\ UNCHANGED plan
    /\ LET ran == running \cup pushed
           full == {w \in Joins : arrived[w] = Range(w[1])}
           taken == {w \in full : w[2] \in running}
           now == [w \in Joins |-> (IF w \in taken THEN {} ELSE arrived[w])
                                     \cup (ran \cap Range(w[1]))]
           byEdge == {e[2] : e \in {e \in plan.edges : e[1] \in ran}} \ {END}
           byJoin == {w[2] : w \in {w \in Joins : now[w] = Range(w[1])}}
       IN  /\ arrived' = now
           /\ \E went \in SUBSET DOMAIN plan.nodes :
                LET ready == byEdge \cup byJoin \cup went
                    all == held \cup (ready \cap Deferred)
                IN  IF ready \subseteq Deferred /\ pushed' = {}
                    THEN running' = all /\ held' = {}
                    ELSE running' = ready \ Deferred /\ held' = all
           /\ pushed' \subseteq DOMAIN plan.nodes

Next == Start \/ Step

Spec == Init /\ [][Next]_vars
=============================================================================
