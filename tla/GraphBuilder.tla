----------------------------- MODULE GraphBuilder -----------------------------
(***************************************************************************)
(* How a StateGraph is built and compiled, in                              *)
(* src/libs/langgraph/langgraph/graph/state.py: nodes, edges, edges that    *)
(* wait for several nodes, and branches are added in any order, rightly or  *)
(* wrongly; compile validates them and attaches each to channels that       *)
(* nodes write and others are triggered by. What is added later does not    *)
(* reach the compiled graph.                                                *)
(***************************************************************************)
EXTENDS Integers, Sequences, FiniteSets, SequencesExt

CONSTANTS
    Parts,        \* [names -> sequences]: the parts a '+' in a name separates
    Reserved,     \* names of nodes RESERVED holds
    BadNames,     \* names with a character that separates namespaces
    Setups        \* the calls a behaviour may make of the builder

\* calls: those that may be made, each once, in any order; then what nodes may do:
\* goto: names a Command may go to; push: nodes a Send may be for.

START == "__start__"
END == "__end__"
All == {"*"}            \* interrupt before or after every node
AnyNode == {"?"}        \* a branch without a path_map

VARIABLES
    setup,
    made,         \* the calls made of the builder
    builder,      \* the StateGraph
    error,        \* how the last call ended
    graph         \* the CompiledStateGraph

NoGraph == [compiled |-> FALSE]

EmptyBuilder ==
    [nodes |-> <<>>, edges |-> {}, waiting |-> {}, branches |-> <<>>]

-----------------------------------------------------------------------------
(* Calls of the builder. A call that raises may have done part of its work. *)

Put(f, k, v) == [x \in DOMAIN f \cup {k} |-> IF x = k THEN v ELSE f[x]]

Raise(why) == error' = why /\ UNCHANGED builder
Build(b) == error' = "none" /\ builder' = b

BadNode(b, name) ==
    \/ name \in DOMAIN b.nodes \cup {START, END}
    \/ name \in BadNames

WithNode(b, name, defer, ends) ==
    [b EXCEPT !.nodes = Put(@, name, [defer |-> defer, ends |-> ends])]

AddNode(c) ==
    IF BadNode(builder, c.name) THEN Raise("node")
    ELSE Build(WithNode(builder, c.name, c.defer, c.ends))

WithEdge(b, start, end) == [b EXCEPT !.edges = @ \cup {<<start, end>>}]

AddEdge(c) ==
    IF c.start = END \/ c.end = START THEN Raise("edge")
    ELSE Build(WithEdge(builder, c.start, c.end))

\* add_edge with a list: the nodes must be there already.
AddJoin(c) ==
    IF \/ ~(ToSet(c.starts) \subseteq DOMAIN builder.nodes)
       \/ c.end \notin DOMAIN builder.nodes \cup {END}
    THEN Raise("edge")
    ELSE Build([builder EXCEPT !.waiting = @ \cup {<<c.starts, c.end>>}])

Of(f, k) == IF k \in DOMAIN f THEN f[k] ELSE <<>>

AddBranch(c) ==
    IF c.name \in DOMAIN Of(builder.branches, c.source) THEN Raise("branch")
    ELSE Build([builder EXCEPT
           !.branches = Put(@, c.source, Put(Of(@, c.source), c.name, c.ends))])

\* Node by node, each with an edge from the one before, until one is refused: those
\* before it stay.
AddSequence(c) ==
    LET names == c.names
        Fresh(i) == ~BadNode(builder, names[i]) /\ \A j \in 1 .. i - 1 : names[j] # names[i]
        good == CHOOSE n \in 0 .. Len(names) :
                  /\ \A i \in 1 .. n : Fresh(i)
                  /\ n < Len(names) => ~Fresh(n + 1)
        Added(b, i) ==
            LET node == WithNode(b, names[i], FALSE, {})
            IN  IF i = 1 THEN node ELSE WithEdge(node, names[i - 1], names[i])
    IN  /\ builder' = FoldLeftDomain(Added, builder, SubSeq(names, 1, good))
        /\ error' = IF names = <<>> \/ good < Len(names) THEN "sequence" ELSE "none"

-----------------------------------------------------------------------------
(* validate                                                                 *)

AllEdges(b) ==
    b.edges \cup UNION {{<<start, w[2]>> : start \in ToSet(w[1])} : w \in b.waiting}

Ends(b) == UNION {b.nodes[n].ends : n \in DOMAIN b.nodes}

Sources(b) ==
    {e[1] : e \in AllEdges(b)} \cup DOMAIN b.branches
      \cup {n \in DOMAIN b.nodes : b.nodes[n].ends # {}}

BranchEnds(b) ==
    UNION {UNION {b.branches[s][c] : c \in DOMAIN b.branches[s]} : s \in DOMAIN b.branches}
      \ AnyNode

Targets(b) == {e[2] : e \in AllEdges(b)} \cup BranchEnds(b) \cup Ends(b)

\* The names checked here: none when after is "*", though before may have some.
Interrupts(c) ==
    IF c.after = All THEN {} ELSE (IF c.before = All THEN {} ELSE c.before) \cup c.after

ValidTargets(b, c) ==        \* mutant: sources are not looked up
    /\ START \in Sources(b)
    /\ Targets(b) \subseteq DOMAIN b.nodes \cup {END}
    /\ Interrupts(c) \subseteq DOMAIN b.nodes

Valid(b, c) ==
    /\ Sources(b) \subseteq DOMAIN b.nodes \cup {START}
    /\ START \in Sources(b)
    /\ Targets(b) \subseteq DOMAIN b.nodes \cup {END}
    /\ Interrupts(c) \subseteq DOMAIN b.nodes

-----------------------------------------------------------------------------
(* compile: a channel that triggers every node, one more for every edge     *)
(* that waits. A channel holds what it was told ("names" is all there is to *)
(* tell), is read when that is complete, "after" finish() if its node is    *)
(* deferred, and "forgets": an EphemeralValue at the next step.             *)

Input == <<"input">>
BranchTo(n) == <<"branch:to", n>>
Join(w) == <<"join", FlattenSeq([i \in 1 .. Len(w[1]) |-> Parts[w[1][i]]]), w[2]>>

Value == {"value"}

NodeChannel(node) == [names |-> Value, after |-> node.defer, forgets |-> ~node.defer]
JoinNeverDeferred(b, w) ==   \* mutant: always a NamedBarrierValue
    [names |-> ToSet(w[1]), after |-> FALSE, forgets |-> FALSE]

JoinChannel(b, w) ==
    [names |-> ToSet(w[1]), after |-> b.nodes[w[2]].defer, forgets |-> FALSE]

Joins(b) == {w \in b.waiting : w[2] # END}

\* Edges whose starts read the same when joined by '+' share a channel: the one that
\* is attached last makes it ("last" says which).
Attach(b, last) ==
    LET all == DOMAIN b.nodes \cup {START}
        branches == {BranchTo(n) : n \in DOMAIN b.nodes}
    IN  [compiled |-> TRUE,
         plan |-> b,
         channels |-> [k \in {Input} \cup branches \cup DOMAIN last |->
             IF k \in DOMAIN last THEN JoinChannel(b, last[k])
             ELSE IF k = Input THEN NodeChannel([defer |-> FALSE])
             ELSE NodeChannel(b.nodes[k[2]])],
         triggers |-> [n \in all |->
             IF n = START THEN {Input}
             ELSE {BranchTo(n)} \cup {k \in DOMAIN last : k[3] = n}],
         writes |-> [n \in all |->
             {<<BranchTo(e[2]), "value">> : e \in {e \in b.edges : e[1] = n /\ e[2] # END}}
               \cup {<<Join(w), n>> : w \in {w \in Joins(b) : n \in ToSet(w[1])}}]]

\* What attach_edge and attach_branch look up must be there.
Attaches(b) ==
    /\ {e[1] : e \in {e \in b.edges : e[2] # END}} \subseteq DOMAIN b.nodes \cup {START}
    /\ {e[2] : e \in b.edges} \subseteq DOMAIN b.nodes \cup {END}
    /\ DOMAIN b.branches \subseteq DOMAIN b.nodes \cup {START}

\* validate_graph
Accepted(b, c) ==
    /\ DOMAIN b.nodes \cap Reserved = {}
    /\ (c.before \cup c.after) \ All \subseteq DOMAIN b.nodes \cup {START}

Compile(c) ==
    /\ UNCHANGED builder
    /\ IF ~Valid(builder, c) THEN error' = "invalid" /\ UNCHANGED graph
       ELSE IF ~Attaches(builder) THEN error' = "lost" /\ UNCHANGED graph
       ELSE IF ~Accepted(builder, c) THEN error' = "refused" /\ UNCHANGED graph
       ELSE /\ error' = "none"
            /\ \E last \in [{Join(w) : w \in Joins(builder)} -> Joins(builder)] :
                 /\ \A k \in DOMAIN last : Join(last[k]) = k
                 /\ graph' = Attach(builder, last)

-----------------------------------------------------------------------------
BuilderInit ==
    /\ setup \in Setups
    /\ made = {}
    /\ builder = EmptyBuilder
    /\ error = "none"
    /\ graph = NoGraph

Call(c) ==
    \/ c.op = "compile" /\ Compile(c)
    \/ /\ UNCHANGED graph
       /\ \/ c.op = "node" /\ AddNode(c)
          \/ c.op = "edge" /\ AddEdge(c)
          \/ c.op = "join" /\ AddJoin(c)
          \/ c.op = "branch" /\ AddBranch(c)
          \/ c.op = "sequence" /\ AddSequence(c)

\* The graph is compiled once; setup.later calls follow.
Building ==
    \E c \in setup.calls \ made :
        /\ graph.compiled => c.op # "compile"
        /\ made' = made \cup {c}
        /\ Call(c)
        /\ UNCHANGED setup

\* A graph that passes validate compiles: the KeyErrors of attach_edge and
\* attach_branch (state.py:1297-1370) are out of reach, whatever order the calls came
\* in and whichever raised.
ValidGraphsCompile == error # "lost"
=============================================================================
