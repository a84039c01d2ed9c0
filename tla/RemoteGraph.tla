----------------------------- MODULE RemoteGraph -----------------------------
(***************************************************************************)
(* A graph that is run through RemoteGraph (langgraph/pregel/remote.py) next *)
(* to the same graph run in place: its stream and astream, called on their  *)
(* own or as a node of another graph, and what invoke makes of them. The     *)
(* server is external: it runs the graph and sends the events of the modes   *)
(* it was asked for.                                                        *)
(***************************************************************************)
EXTENDS Naturals, FiniteSets, Sequences, SequencesExt

CONSTANTS
    Asked,       \* calls: of stream with modes or of invoke, and the graph called from
    MaxEvents,   \* bound: events of a run before it ends
    MaxStates    \* bound: checkpoints of a thread

VARIABLES
    ask,         \* the call
    events,      \* how many events the run has had
    interrupts,  \* tasks of the run that have interrupted it
    ended,       \* how the run ended, or "running"
    got,         \* what each way to run the graph has handed out
    own,         \* the config RemoteGraph was made with
    threads,     \* at the server, the parent of every checkpoint
    held,        \* the config a program holds
    meant,       \* the checkpoint it is the config of
    sent         \* the last request about a state, and what was meant by it

Modes == {"values", "updates", "custom", "messages"}
Nowhere == <<"-">>              \* in a chunk, where no namespace is shown

\* A call: of stream, with one mode, a list or None (the empty list), or of invoke; with
\* the namespace of the node it is made from and the modes of that node's stream.
Calls ==
    [invoke : BOOLEAN, modes : Seq(Modes), single : BOOLEAN, subgraphs : BOOLEAN,
     caller : {<<>>, <<"n">>}, parent : SUBSET Modes]

Nested(a) == a.caller # <<>>
HasParent(a) == a.parent # {}

\* What is yielded of an event: with the namespace if subgraphs are asked for, with the
\* mode if a list of modes was given, and without an id (_output). "from" is not part of
\* it: where it happened.
Chunk(a, ns, e) ==
    [ns |-> IF a.subgraphs THEN ns ELSE Nowhere, label |-> IF a.single THEN <<>> ELSE <<e.mode>>,
     data |-> e.data, id |-> {}, from |-> e.ns]

\* A part for the stream of the graph the call is made from.
Up(a, e) == [ns |-> a.caller \o e.ns, mode |-> e.mode, data |-> e.data, from |-> e.ns]

-----------------------------------------------------------------------------
(* The graph run in place.                                                  *)

\* invoke looks for interrupts among the updates; a node's default mode is values.
LocalModes(a) ==
    IF a.invoke THEN <<"updates", "values">>
    ELSE IF a.modes # <<>> THEN a.modes
    ELSE IF Nested(a) THEN <<"values">> ELSE <<"updates">>

\* Both streams, those of the call and of the graph it is made from, take the modes they
\* have; but there is one writer of custom data, the innermost that wants any.
DuplexTakes(a, e) ==
    /\ e.mode \in a.parent
    /\ e.mode = "custom" => "custom" \notin Range(LocalModes(a))

\* A subgraph writes its custom data to the call's own writer when there is a stream above.
Takes(a, e) ==
    /\ e.mode \in Range(LocalModes(a))
    /\ e.ns = <<>> \/ a.subgraphs \/ (e.mode = "custom" /\ HasParent(a))

LocalChunk(a, e) ==
    Chunk([a EXCEPT !.single = @ /\ ~a.invoke], a.caller \o e.ns, e)

\* A run that does not finish ends in an exception, unless a root graph is interrupted.
LocalRaises(a, e) ==
    IF e.mode = "interrupt" THEN IF Nested(a) THEN "interrupt" ELSE "no"
    ELSE IF e.mode \in {"error", "command"} THEN e.mode ELSE "no"

LocalStream(a, r, e) ==
    [yields |-> IF Takes(a, e) THEN Append(r.yields, LocalChunk(a, e)) ELSE r.yields,
     parent |-> IF DuplexTakes(a, e) THEN Append(r.parent, Up(a, e)) ELSE r.parent,
     raised |-> LocalRaises(a, e)]

\* Subgraphs are given the call's own stream and not the duplex: what they emit does not
\* reach the stream above.
OutOfSight(a, c) == a.subgraphs /\ c.from # <<>> /\ c.mode \in {"values", "updates"}

LocalAstream(a, r, e) ==
    [yields |-> IF Takes(a, e) THEN Append(r.yields, LocalChunk(a, e)) ELSE r.yields,
     parent |-> IF DuplexTakes(a, e) /\ ~OutOfSight(a, Up(a, e))
                THEN Append(r.parent, Up(a, e)) ELSE r.parent,
     raised |-> LocalRaises(a, e)]

Values(chunks) == SelectSeq(chunks, LAMBDA c : c.label = <<"values">>)
Updates(chunks) == SelectSeq(chunks, LAMBDA c : c.label = <<"updates">>)
Nothing == [value |-> 0, interrupts |-> {}]

\* The latest values, and all that interrupted the run.
LocalInvoke(chunks) ==
    [value |-> IF Values(chunks) = <<>> THEN 0 ELSE Last(Values(chunks)).data.n,
     interrupts |-> UNION {c.data.interrupts : c \in Range(Updates(chunks))}]
LocalAinvoke(chunks) ==
    [value |-> IF Values(chunks) = <<>> THEN 0 ELSE Last(Values(chunks)).data.n,
     interrupts |-> UNION {c.data.interrupts : c \in Range(Updates(chunks))}]

-----------------------------------------------------------------------------
(* The graph run by the server.                                             *)

ToList(a) ==
    IF a.invoke THEN <<"values">> ELSE IF a.modes # <<>> THEN a.modes ELSE <<"updates">>

MoveToEnd(modes, old, new) ==
    IF old \in Range(modes) THEN Append(Remove(modes, old), new) ELSE modes

\* Mutant: interrupts are not asked for.
StreamModesAsGiven(a) ==
    MoveToEnd(ToList(a) \o SetToSeq(a.parent), "messages", "messages-tuple")

\* The modes the server is asked for: those of the call and of the stream of the graph it
\* is made from, and updates, of which interrupts are seen. Messages are asked for as tuples.
StreamModes(a) ==
    LET named == MoveToEnd(ToList(a) \o SetToSeq(a.parent), "messages", "messages-tuple")
    IN  IF "updates" \in Range(named) THEN named ELSE Append(named, "updates")

Requested(a) == Range(ToList(a))

\* The server streams of subgraphs what it does not only stream to the caller.
StreamSubgraphs(a) == a.subgraphs \/ HasParent(a)

\* What the server sends of an event. Interrupts of the run are no event of their own.
Sent(a, e) ==
    CASE e.mode \in {"error", "command"} -> <<e>>
      [] e.mode = "interrupt" -> <<>>
      [] OTHER ->
           IF e.ns # <<>> /\ ~StreamSubgraphs(a) THEN <<>>
           ELSE IF e.mode = "messages"
           THEN (IF "messages" \in Range(StreamModes(a))
                 THEN <<[e EXCEPT !.mode = "messages/partial"]>> ELSE <<>>)
                \o (IF "messages-tuple" \in Range(StreamModes(a)) THEN <<e>> ELSE <<>>)
           ELSE IF e.mode \in Range(StreamModes(a)) THEN <<e>> ELSE <<>>

\* With a list of modes and no subgraphs, the StreamPart as it came: the event's name with
\* its namespace, the data, and the event's id.
RemoteChunk(a, e) ==
    LET chunk == Chunk([a EXCEPT !.single = @ \/ a.invoke], e.ns, e)
    IN  IF a.subgraphs \/ chunk.label = <<>> THEN chunk
        ELSE [chunk EXCEPT !.label = <<e.mode>> \o e.ns, !.id = {e.data.n}]

RemoteStream(a, r, e) ==
    IF r.raised # "no" THEN r
    ELSE IF e.mode = "command" THEN [r EXCEPT !.raised = "command"]
    ELSE LET up == IF e.mode \in a.parent THEN [r EXCEPT !.parent = Append(@, Up(a, e))] ELSE r
         IN  CASE e.mode = "updates" /\ e.data.interrupts # {} /\ Nested(a) ->
                    [up EXCEPT !.raised = "interrupt"]
               [] e.mode = "error" -> [up EXCEPT !.raised = "error"]
               [] e.mode \in Requested(a) ->
                    [up EXCEPT !.yields = Append(@, RemoteChunk(a, e))]
               [] OTHER -> up

RemoteAstream(a, r, e) ==
    IF r.raised # "no" THEN r
    ELSE IF e.mode = "command" THEN [r EXCEPT !.raised = "command"]
    ELSE LET up == IF e.mode \in a.parent THEN [r EXCEPT !.parent = Append(@, Up(a, e))] ELSE r
         IN  CASE e.mode = "updates" /\ e.data.interrupts # {} /\ Nested(a) ->
                    [up EXCEPT !.raised = "interrupt"]
               [] e.mode = "error" -> [up EXCEPT !.raised = "error"]
               [] e.mode \in Requested(a) ->
                    [up EXCEPT !.yields = Append(@, RemoteChunk(a, e))]
               [] OTHER -> up

\* The last chunk, whatever it is.
RemoteInvoke(chunks) ==
    IF chunks = <<>> THEN Nothing
    ELSE [value |-> Last(chunks).data.n, interrupts |-> Last(chunks).data.interrupts]
RemoteAinvoke(chunks) ==
    IF chunks = <<>> THEN Nothing
    ELSE [value |-> Last(chunks).data.n, interrupts |-> Last(chunks).data.interrupts]

-----------------------------------------------------------------------------
(* A run, seen by all.                                                      *)

NoCall == [invoke |-> FALSE, modes |-> <<>>, single |-> TRUE, subgraphs |-> FALSE,
           caller |-> <<>>, parent |-> {}]
NothingYet == [yields |-> <<>>, parent |-> <<>>, raised |-> "no"]

StreamInit ==
    /\ ask = NoCall /\ ended = "not begun" /\ events = 0 /\ interrupts = {}
    /\ got = [local |-> NothingYet, alocal |-> NothingYet,
              remote |-> NothingYet, aremote |-> NothingYet]

Call ==
    /\ ended = "not begun" /\ ended' = "running"
    /\ ask' \in Asked
    /\ UNCHANGED <<events, interrupts, got>>

Event(ns, mode, n, who) == [ns |-> ns, mode |-> mode, data |-> [n |-> n, interrupts |-> who]]

\* What the graph emits in place, and at the server.
Emit(here, there) ==
    LET arrive == FlattenSeq([i \in DOMAIN there |-> Sent(ask, there[i])])
    IN  got' = [local |-> FoldLeft(LAMBDA r, e : LocalStream(ask, r, e), got.local, here),
                alocal |-> FoldLeft(LAMBDA r, e : LocalAstream(ask, r, e), got.alocal, here),
                remote |-> FoldLeft(LAMBDA r, e : RemoteStream(ask, r, e), got.remote, arrive),
                aremote |->
                  FoldLeft(LAMBDA r, e : RemoteAstream(ask, r, e), got.aremote, arrive)]

\* A node of the graph or of a subgraph writes, ends, or a superstep does: none ends once
\* a task has interrupted.
Goes ==
    /\ ended = "running" /\ events < MaxEvents
    /\ events' = events + 1
    /\ \E ns \in {<<>>, <<"s">>}, mode \in Modes :
         /\ interrupts = {} \/ ns # <<>> \/ mode # "values"
         /\ LET e == Event(ns, mode, events', {}) IN Emit(<<e>>, <<e>>)
    /\ UNCHANGED <<ask, interrupts, ended>>

\* output_writes of a task that interrupts, in a subgraph before the graph it is in.
Interrupt(t) ==
    /\ ended = "running" /\ events < MaxEvents /\ t \notin interrupts
    /\ events' = events + 1
    /\ interrupts' = interrupts \cup {t}
    /\ \E inner \in {<<>>, <<<<"s">>>>} :
         LET shown(ns) ==
                 <<Event(ns, "updates", events', {t}), Event(ns, "values", events', {t})>>
             es == FlattenSeq([i \in DOMAIN inner |-> shown(inner[i])]) \o shown(<<>>)
         IN  Emit(es, es)
    /\ UNCHANGED <<ask, ended>>

\* Who is done before an interrupted run ends is applied and shown once more, by a root.
EndsRun ==
    /\ ended = "running"
    /\ \/ ended' = "done" /\ interrupts = {} /\ UNCHANGED got
       \/ /\ ended' \in {"error", "command"}
          /\ LET e == Event(<<>>, ended', 0, {}) IN Emit(<<e>>, <<e>>)
       \/ /\ ended' \in {"interrupt", "applied"} /\ interrupts # {}
          /\ LET last == IF ended' = "applied"
                         THEN <<Event(<<>>, "values", events + 1, {})>> ELSE <<>>
                 end == <<Event(<<>>, "interrupt", 0, {})>>
             IN  Emit((IF Nested(ask) THEN <<>> ELSE last) \o end, last \o end)
    /\ UNCHANGED <<ask, events, interrupts>>

StreamNext == Call \/ Goes \/ (\E t \in {"t", "u"} : Interrupt(t)) \/ EndsRun

streamVars == <<ask, events, interrupts, ended, got>>

-----------------------------------------------------------------------------
(* "RemoteGraph behaves the same way as a Graph and can be used directly as *)
(* a node in another Graph."                                                *)

\* Chunks of subgraphs that were not asked for come with those of a stream above.
Wanted(chunks) == SelectSeq(chunks, LAMBDA c : c.from = <<>> \/ ask.subgraphs)

\* In a node, the namespaces begin at the graph and not at the caller.
InNode(chunks) ==
    [i \in DOMAIN chunks |->
        IF ask.subgraphs THEN [chunks[i] EXCEPT !.ns = ask.caller \o @] ELSE chunks[i]]

\* Of a StreamPart, what a chunk of the graph run in place has: two elements, not three.
NoIds(chunks) == [i \in DOMAIN chunks |-> [chunks[i] EXCEPT !.id = {}]]

\* In a node, the first interrupt ends the run for the caller.
SameUpToInterrupt(remote, local) ==
    IF Nested(ask) /\ interrupts # {} THEN IsPrefix(remote, local) ELSE remote = local

\* The caller is handed the same data in the same order, under the same modes and
\* namespaces; the ids that come with a list of modes are left aside.
YieldsAgree ==
    ask.modes # <<>> /\ ~ask.invoke =>
      SameUpToInterrupt(NoIds(InNode(Wanted(got.remote.yields))), Wanted(got.local.yields))

\* The stream above is given the same parts, but for custom data that the call wants too:
\* in place it goes to the inner stream only.
ParentsAgree ==
    LET Once(parts) ==
            SelectSeq(parts, LAMBDA c : ~(c.mode = "custom" /\ "custom" \in Range(ask.modes)))
    IN  SameUpToInterrupt(Once(got.remote.parent), got.local.parent)

\* Errors, commands for the graph above and interrupts end the run in the same way, but
\* for what comes after an interrupt in a node.
EndsAgree ==
    ended \notin {"not begun", "running"} =>
      got.remote.raised = IF Nested(ask) /\ interrupts # {} THEN "interrupt"
                          ELSE got.local.raised

\* invoke returns the same, from a graph that has not been interrupted or in one task
\* alone; of several interrupts it knows the last at most.
InvokesAgree ==
    ask.invoke /\ ~HasParent(ask) /\ ended \notin {"not begun", "running"}
      /\ got.local.raised = "no"
      => LET remote == RemoteInvoke(got.remote.yields)
             local == LocalInvoke(got.local.yields)
         IN  /\ remote.value = local.value
             /\ remote.interrupts \subseteq local.interrupts
             /\ Cardinality(interrupts) <= 1 /\ ended # "applied" => remote = local

\* astream does what stream does, and ainvoke what invoke does.
TwinsAgree ==
    LET Seen(parts) == SelectSeq(parts, LAMBDA c : ~OutOfSight(ask, c))
    IN  /\ got.aremote = got.remote
        /\ got.alocal = [got.local EXCEPT !.parent = Seen(@)]
        /\ ask.invoke => /\ RemoteAinvoke(got.aremote.yields) = RemoteInvoke(got.remote.yields)
                         /\ LocalAinvoke(got.alocal.yields) = LocalInvoke(got.local.yields)

-----------------------------------------------------------------------------
(* The state of a thread, asked for with the configs that come back.        *)

CheckpointKeys == {"thread_id", "checkpoint_ns", "checkpoint_id", "checkpoint_map"}

\* Mutant: what RemoteGraph holds outweighs what the call says.
MergedUnder(base, config) == base @@ config

\* merge_configs: of configurable, what the call says outweighs what RemoteGraph holds.
Merged(base, config) == config @@ base

GetCheckpoint(config) == Restrict(config, CheckpointKeys \cap DOMAIN config)

MapOf(c) == IF "checkpoint_map" \in DOMAIN c THEN c.checkpoint_map ELSE "{}"

GetConfig(c) ==
    [thread_id |-> c.thread_id, checkpoint_ns |-> c.checkpoint_ns,
     checkpoint_id |-> c.checkpoint_id, checkpoint_map |-> MapOf(c)]

\* The configs in a snapshot: of the state, of its parent if it has one, and of its tasks
\* that run subgraphs.
CreateStateSnapshot(state) ==
    LET Config(c) == [thread_id |-> c.thread_id, checkpoint_ns |-> c.checkpoint_ns,
                      checkpoint_id |-> c.checkpoint_id, checkpoint_map |-> MapOf(c)]
    IN  [config |-> Config(state.checkpoint),
         parent_config |-> {Config(c) : c \in state.parent},
         tasks |-> state.tasks]

\* What the thread's state is asked for with; there is always a checkpoint in it, if only
\* of the thread's name.
GetState(config) ==
    LET merged == Merged(own, config)
    IN  [asks |-> "state", thread |-> merged.thread_id, checkpoint |-> GetCheckpoint(merged)]
AgetState(config) ==
    LET merged == Merged(own, config)
    IN  [asks |-> "state", thread |-> merged.thread_id, checkpoint |-> GetCheckpoint(merged)]

\* No limit, and none of 0, are 10.
GetStateHistory(config, limit) ==
    LET merged == Merged(own, config)
    IN  [asks |-> "history", thread |-> merged.thread_id,
         checkpoint |-> GetCheckpoint(merged), limit |-> IF limit # 0 THEN limit ELSE 10]
AgetStateHistory(config, limit) ==
    LET merged == Merged(own, config)
    IN  [asks |-> "history", thread |-> merged.thread_id,
         checkpoint |-> GetCheckpoint(merged), limit |-> IF limit # 0 THEN limit ELSE 10]

UpdateState(config) ==
    LET merged == Merged(own, config)
    IN  [asks |-> "update", thread |-> merged.thread_id, checkpoint |-> GetCheckpoint(merged)]
AupdateState(config) ==
    LET merged == Merged(own, config)
    IN  [asks |-> "update", thread |-> merged.thread_id, checkpoint |-> GetCheckpoint(merged)]

\* What a run is sent: nothing of a checkpoint, so that it goes on from the thread's last.
Droplist == {"checkpoint_map", "checkpoint_id", "checkpoint_ns", "task_id"}
SanitizeConfig(config) == Restrict(config, DOMAIN config \ Droplist)
RunOn(config) ==
    LET sanitized == SanitizeConfig(Merged(own, config))
    IN  [asks |-> "run", thread |-> sanitized.thread_id,
         checkpoint |-> Restrict(sanitized, DOMAIN sanitized \ {"thread_id"})]

(* The server. A graph of the first thread has a subgraph.                  *)

Lines == {<<"t1", "">>, <<"t1", "n:1">>, <<"t2", "">>}

Saved(line, id) == [thread_id |-> line[1], checkpoint_ns |-> line[2], checkpoint_id |-> id]

StateOf(line, id) ==
    [checkpoint |-> Saved(line, id),
     parent |-> {Saved(line, i) : i \in {threads[line][id]} \ {0}},
     tasks |-> IF line = <<"t1", "">> THEN {[thread_id |-> "t1", checkpoint_ns |-> "n:1"]}
               ELSE {}]

\* The checkpoint a request or config is about; without an id, the newest there is.
About(c) ==
    [line |-> <<c.thread_id, IF "checkpoint_ns" \in DOMAIN c THEN c.checkpoint_ns ELSE "">>,
     id |-> IF "checkpoint_id" \in DOMAIN c THEN c.checkpoint_id ELSE 0]

IdAt(about) == IF about.id = 0 THEN Len(threads[about.line]) ELSE about.id

StateInit ==
    /\ own \in {<<>>, [thread_id |-> "t2"], [user |-> "u"]}
    /\ threads = [line \in Lines |-> <<0>>]
    /\ held \in {[thread_id |-> "t1"], [thread_id |-> "t2"]}
    /\ meant = About(held)
    /\ sent = {}

Send(sync, async) == sent' = {[sync |-> sync, async |-> async, meant |-> meant]}

\* A program goes on with one of the configs in the snapshot of a state.
Keep(state) ==
    LET snapshot == CreateStateSnapshot(state)
    IN  \/ held' = snapshot.config /\ meant' = About(state.checkpoint)
        \/ held' \in snapshot.parent_config /\ \E c \in state.parent : meant' = About(c)
        \/ \E c \in state.tasks : held' = c /\ meant' = About(c)

AskState ==
    /\ Send(GetState(held), AgetState(held))
    /\ LET about == About(GetState(held).checkpoint)
       IN  Keep(StateOf(about.line, IdAt(about)))
    /\ UNCHANGED <<own, threads>>

AskHistory ==
    /\ \E limit \in {0, 1} :
         /\ Send(GetStateHistory(held, limit), AgetStateHistory(held, limit))
         /\ LET request == GetStateHistory(held, limit)
                about == About(request.checkpoint)
            IN  \E id \in 1 .. IdAt(about) :
                  IdAt(about) - id < request.limit /\ Keep(StateOf(about.line, id))
    /\ UNCHANGED <<own, threads>>

\* The server saves a checkpoint on top of the one it is asked for.
Saves(about, line) ==
    /\ Len(threads[line]) < MaxStates
    /\ threads' = [threads EXCEPT ![line] = Append(@, IdAt(about))]

Update ==
    /\ Send(UpdateState(held), AupdateState(held))
    /\ LET about == About(UpdateState(held).checkpoint)
           new == Saved(about.line, Len(threads[about.line]) + 1)
       IN  /\ Saves(about, about.line)
           /\ held' = GetConfig(new) /\ meant' = About(new)
    /\ UNCHANGED own

Run ==
    /\ Send(RunOn(held), RunOn(held))
    /\ LET about == About([thread_id |-> RunOn(held).thread])
       IN  Saves(about, about.line)
    /\ UNCHANGED <<own, held, meant>>

StateNext == AskState \/ AskHistory \/ Update \/ Run

stateVars == <<own, threads, held, meant, sent>>

\* Every config that comes back from the server, of a state, its parent, a task or an
\* update, when it is asked with, names the checkpoint it came for: in its thread, though
\* RemoteGraph may hold another thread's name. A run names the thread and no checkpoint.
ConfigsComeBack ==
    \A r \in sent :
        /\ r.sync = r.async
        /\ r.sync.thread = r.meant.line[1]
        /\ IF r.sync.asks = "run" THEN DOMAIN r.sync.checkpoint \cap CheckpointKeys = {}
           ELSE About(r.sync.checkpoint) = r.meant

-----------------------------------------------------------------------------
\* A behaviour is about a run or about states.
Init == StreamInit /\ StateInit
Next ==
    \/ sent = {} /\ StreamNext /\ UNCHANGED stateVars
    \/ ended = "not begun" /\ StateNext /\ UNCHANGED streamVars

vars == <<streamVars, stateVars>>
Spec == Init /\ [][Next]_vars
=============================================================================
