---------------------------- MODULE CompiledGraph ----------------------------
(***************************************************************************)
(* One invocation of a compiled StateGraph: the supersteps its channels     *)
(* make of the edges, the branches, the Commands and the Sends of its nodes  *)
(* (apply_writes and prepare_next_tasks of pregel/_algo.py, over            *)
(* EphemeralValue, LastValueAfterFinish, NamedBarrierValue and              *)
(* NamedBarrierValueAfterFinish of langgraph/channels/).                    *)
(***************************************************************************)
EXTENDS GraphBuilder

CONSTANT MaxSteps     \* the recursion limit

VARIABLES
    told,         \* per channel, what it has been told
    finished,     \* the channels that were told the run may end
    due,          \* nodes a channel triggers
    sends,        \* nodes the Sends of the last step are for
    step

run == <<told, finished, due, sends, step>>
vars == <<setup, made, builder, error, graph, run>>

-----------------------------------------------------------------------------
Available(k, t, f) ==
    t[k] = graph.channels[k].names /\ (graph.channels[k].after => k \in f)

TriggersOf(nodes) == UNION {graph.triggers[n] : n \in nodes}

\* The writers of a node that ran: its edges, and where its branches and its Commands
\* lead. A write to a channel that is not there is dropped with a warning.
Writes(n, to) == graph.writes[n] \cup {<<BranchTo(m), "value">> : m \in to}

Received(k, went) ==
    {w[2] : w \in {w \in UNION {Writes(n, went[n]) : n \in DOMAIN went} : w[1] = k}}

\* A barrier raises when it is told a name it does not wait for.
Refused(went) ==
    \E k \in DOMAIN graph.channels : ~(Received(k, went) \subseteq graph.channels[k].names)

EveryStep(updated) == TRUE      \* mutant: finish is told every step

\* Tentatively the last superstep: no node is triggered by an update.
LastStep(updated) == updated \cap TriggersOf(DOMAIN graph.triggers) = {}

NothingConsumed == {}           \* mutant: barriers stay full

\* What a node has read is let go: by a barrier that was full, by a value that was
\* finished. An ephemeral channel forgets by itself.
Consumed ==
    {k \in TriggersOf(due) : Available(k, told, finished) /\ ~graph.channels[k].forgets}

\* apply_writes: the due nodes consume what they read, writes are applied, channels
\* that got none forget, and if no node is triggered all are told of the finish.
Apply(went) ==
    LET K == DOMAIN graph.channels
        kept == [k \in K |-> IF k \in Consumed THEN {} ELSE told[k]]
        t == [k \in K |->
                LET got == Received(k, went)
                IN  IF got = {} /\ graph.channels[k].forgets THEN {} ELSE kept[k] \cup got]
        \* a new value is not finished; a barrier that is, stays so
        f == {k \in finished \ Consumed :
                ~(graph.channels[k].names = Value /\ Received(k, went) # {})}
        updated == {k \in K : /\ Received(k, went) # {}
                              /\ graph.channels[k].names = Value \/ t[k] # kept[k]
                              /\ Available(k, t, f)}
        ending == {k \in K : graph.channels[k].after /\ t[k] = graph.channels[k].names}
        woken == IF LastStep(updated) THEN ending \ f ELSE {}
    IN  /\ told' = t
        /\ finished' = f \cup woken
        /\ due' = {n \in DOMAIN graph.triggers : graph.triggers[n] \cap (updated \cup woken) # {}}

\* Where the branches and the Commands of a node may lead.
Options(n) ==
    LET branches == Of(graph.plan.branches, n)
        ends == UNION {IF branches[c] = AnyNode THEN setup.goto ELSE branches[c]
                         : c \in DOMAIN branches}
    IN  (ends \cup IF n = START THEN {} ELSE setup.goto) \ {END}

Invoke ==
    /\ graph.compiled /\ step = 0
    /\ step' = 1
    /\ told' = [k \in DOMAIN graph.channels |-> {}]
    /\ due' = {START}
    /\ UNCHANGED <<setup, made, builder, error, graph, finished, sends>>

Superstep ==
    /\ step \in 1 .. MaxSteps /\ due \cup sends # {}
    /\ \E went \in [due \cup sends -> SUBSET UNION {Options(n) : n \in due \cup sends}] :
         /\ \A n \in DOMAIN went : went[n] \subseteq Options(n)
         /\ \/ /\ ~Refused(went) /\ Apply(went) /\ step' = step + 1
               /\ sends' \in SUBSET (setup.push \cap DOMAIN graph.plan.nodes)
            \/ /\ Refused(went) /\ step' = MaxSteps + 1       \* InvalidUpdateError
               /\ UNCHANGED <<told, finished, due, sends>>
    /\ UNCHANGED <<setup, made, builder, error, graph>>

Init ==
    /\ BuilderInit
    /\ told = <<>> /\ finished = {} /\ due = {} /\ sends = {} /\ step = 0

Next ==
    \/ step = 0 /\ Building /\ UNCHANGED run
    \/ Invoke
    \/ Superstep

Spec == Init /\ [][Next]_vars

-----------------------------------------------------------------------------
\* What runs is what the edges of the graph that was compiled say (EdgeRuns).
JoinsOf == {w \in graph.plan.waiting : w[2] # END}

DeferredJoined(n) ==
    \E w \in JoinsOf : w[2] = n /\ told[Join(w)] = graph.channels[Join(w)].names

Edges ==
    INSTANCE EdgeRuns WITH
      plan <- IF step = 0 THEN <<>> ELSE graph.plan,
      running <- due,
      pushed <- sends,
      arrived <- IF step = 0 THEN <<>>
                 ELSE [w \in JoinsOf |-> told[Join(w)] \cap ToSet(w[1])],
      held <- IF step = 0 THEN {}
              ELSE {n \in DOMAIN graph.plan.nodes \ due :
                      /\ graph.plan.nodes[n].defer
                      /\ told[BranchTo(n)] # {} \/ DeferredJoined(n)}

ImplementsEdgeRuns == Edges!Spec
=============================================================================
