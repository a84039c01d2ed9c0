------------------------------ MODULE PregelAlgo ------------------------------
(***************************************************************************)
(* The pure algorithm of a superstep: which nodes a checkpoint triggers    *)
(* (prepare_next_tasks) and what a checkpoint becomes when the writes of   *)
(* its tasks are applied (apply_writes), in                                *)
(* src/libs/langgraph/langgraph/pregel/_algo.py, over the four kinds of    *)
(* channel a compiled StateGraph is made of (langgraph/channels/).         *)
(*                                                                         *)
(* A channel's value is the set of tags of the writes it holds: a tag      *)
(* names the node that wrote, the checkpoint its task ran at, and the      *)
(* attempt (retry or re-run) that produced the write.                      *)
(***************************************************************************)
EXTENDS Integers, FiniteSets, FiniteSetsExt

CONSTANTS
    Channels,
    Nodes,
    Kind,         \* [Channels -> {"last", "ephemeral", "binop", "barrier"}]
    Names,        \* [Channels -> SUBSET Nodes]: the names a barrier waits for
    Triggers,     \* [Nodes -> SUBSET Channels]: PregelNode.triggers
    InputChannel  \* START, the channel the input of the graph is written to

ASSUME GraphAssumption ==
    /\ Kind \in [Channels -> {"last", "ephemeral", "binop", "barrier"}]
    /\ Names \in [Channels -> SUBSET Nodes]
    /\ \A c \in Channels : Kind[c] = "barrier" => Names[c] # {}
    /\ Triggers \in [Nodes -> SUBSET Channels]
    /\ InputChannel \in Channels
    /\ IsFiniteSet(Channels)

Input == "input"      \* the name apply_writes knows the input writes by
AsNode == "update_state"   \* a task made by update_state: it has no channel trigger
ASSUME InputAssumption == {Input, AsNode} \cap Nodes = {}

Unwritten == [c \in Channels |-> 0]      \* no channel has a version

\* empty_checkpoint()
EmptyState ==
    [ver  |-> Unwritten,
     seen |-> [n \in Nodes |-> Unwritten],
     seenI |-> Unwritten,
     val  |-> [c \in Channels |-> {}]]

-----------------------------------------------------------------------------
(* Channels                                                                *)

Writers(tags) == {t.node : t \in tags}

\* BaseChannel.is_available
Available(val, c) ==
    IF Kind[c] = "barrier" THEN Writers(val[c]) = Names[c] ELSE val[c] # {}

\* BaseChannel.update with a non-empty sequence. An ephemeral channel keeps any
\* one of the values it is given (all of them are None on a branch channel).
Updated(c, held, received) ==
    CASE Kind[c] \in {"last", "ephemeral"} -> received
      [] Kind[c] = "binop"   -> held \cup received
      [] Kind[c] = "barrier" ->
           held \cup {t \in received : t.node \notin Writers(held)}

\* The updates LastValue.update refuses with InvalidUpdateError.
Conflict(received) ==
    \E c \in Channels : Kind[c] = "last" /\ Cardinality(received[c]) > 1

-----------------------------------------------------------------------------
(* apply_writes(checkpoint, channels, tasks, ...)                          *)

MaxVersion(ver) == Max({ver[c] : c \in Channels})

Read(tasks) == UNION {Triggers[n] : n \in tasks \cap Nodes}

\* channel.consume(): only a barrier that is full lets go of its value.
Consumed(k, tasks) ==
    {c \in Read(tasks) : Kind[c] = "barrier" /\ Available(k.val, c)}

\* The value of every channel once "tasks" have consumed what they read and the
\* writes received are applied ...
Written(k, tasks, received) ==
    [c \in Channels |->
        LET held == IF c \in Consumed(k, tasks) THEN {} ELSE k.val[c]
        IN  IF received[c] = {} THEN held ELSE Updated(c, held, received[c])]

\* ... and the channels that got no write are told of the new step when some
\* task ran (bump_step).
Settled(k, tasks, received) ==
    [c \in Channels |->
        IF received[c] = {} /\ tasks # {} /\ Kind[c] = "ephemeral" THEN {}
        ELSE Written(k, tasks, received)[c]]

\* The channels whose update() or consume() returned True on the way to "val".
Moved(k, tasks, received, val) ==
    Consumed(k, tasks)
    \cup {c \in Channels : \/ received[c] # {} /\ Kind[c] # "barrier"
                           \/ val[c] # k.val[c]}

Changed(k, tasks, received) == Moved(k, tasks, received, Settled(k, tasks, received))

SeenBy(k, tasks) ==
    [n \in Nodes |-> [c \in Channels |->
        IF n \in tasks /\ c \in Triggers[n] /\ k.ver[c] > 0
        THEN k.ver[c] ELSE k.seen[n][c]]]

NewState(k, tasks, received, val) ==
    [ver   |-> [c \in Channels |->
                  IF c \in Moved(k, tasks, received, val)
                  THEN MaxVersion(k.ver) + 1 ELSE k.ver[c]],
     seen  |-> SeenBy(k, tasks),
     seenI |-> k.seenI,
     val   |-> val]

Apply(k, tasks, received) == NewState(k, tasks, received, Settled(k, tasks, received))

\* What is left when a LastValue refuses its writes: the versions are seen, what
\* was read is consumed, and the channels that came first ("done") are updated.
HalfApply(k, tasks, received, done) ==
    LET part == [c \in Channels |-> IF c \in done THEN received[c] ELSE {}]
    IN  NewState(k, tasks, part, Written(k, tasks, part))

UpdatedNotBarriers(k, tasks, received) ==     \* mutant: barriers are left out
    {c \in Changed(k, tasks, received) :
        /\ received[c] # {} /\ Kind[c] # "barrier"
        /\ Available(Settled(k, tasks, received), c)}

\* What apply_writes returns: the written channels that hold a value now.
UpdatedChannels(k, tasks, received) ==
    {c \in Changed(k, tasks, received) :
        received[c] # {} /\ Available(Settled(k, tasks, received), c)}

-----------------------------------------------------------------------------
(* prepare_next_tasks                                                      *)

\* _triggers: some trigger holds a value newer than the node has seen.
Triggered(k, n) ==
    \E c \in Triggers[n] : Available(k.val, c) /\ k.ver[c] > k.seen[n][c]

FullScan(k) == {n \in Nodes : Triggered(k, n)}

\* The nodes worth looking at, given the channels the previous step updated.
Candidates(k, upd) ==
    CASE upd # {} -> {n \in Nodes : Triggers[n] \cap upd # {}}
      [] upd = {} /\ k.ver = Unwritten -> {}
      [] OTHER -> Nodes

PrepareNextTasks(k, upd) == {n \in Candidates(k, upd) : Triggered(k, n)}

ShouldInterruptIfAllNew(k, nodes, tasks) ==   \* mutant: all instead of any
    /\ \A c \in Channels : k.ver[c] > k.seenI[c]
    /\ tasks \cap nodes # {}

\* should_interrupt: a triggered node is in the list, and some channel changed
\* since the last interrupt was resumed from.
ShouldInterrupt(k, nodes, tasks) ==
    /\ \E c \in Channels : k.ver[c] > k.seenI[c]
    /\ tasks \cap nodes # {}
=============================================================================
