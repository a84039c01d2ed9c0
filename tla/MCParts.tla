-------------------------------- MODULE MCParts --------------------------------
(***************************************************************************)
(* Parts of the library that do not depend on each other, side by side for  *)
(* the model checker: a store whose calls are batched in a background task  *)
(* (BatchedStore), the checkpoints of a thread in four savers (Savers), the  *)
(* prebuilt agent (ReactAgent), graphs that are built, compiled and run     *)
(* (CompiledGraph), checkpoints of older versions (CheckpointMigration), the *)
(* channels (ChannelKinds), the tables of a database (DatabaseSetup) and    *)
(* those who use it (DatabaseCalls). A behaviour is about one part; the     *)
(* others stay as they were made.                                           *)
(***************************************************************************)
EXTENDS BatchedStore, Integers, TLC

CONSTANTS
    c1, c2, k1, k2,
    OldGraphs, MaxOldSteps,                     \* of CheckpointMigration
    ChannelValues, JoinNames, MaxChannelSteps,  \* of ChannelKinds
    SavedChannels, SavedTasks, SaverSetups      \* of Savers

TwoAndOne == c1 :> 2 @@ c2 :> 1

VARIABLES
    part,
    setup, head, waiting, made, memory, sqlite, postgres, shallow, sLastId, commits, odd,
    aSetup, messages, due, answered, left, outcome, inputs, aFailed, aLastId, abandoned,
    resumed,
    gSetup, gMade, builder, error, graph, told, finished, gDue, sends, gStep,
    mSetup, versions, seen, values, pendingSends, mSteps, before,
    kind, cHeld, cFinished, cOutcome, cRead, wrote, cSteps,
    tables, applied, recorded, tPc, list, tAt, tHolder, isSetup, crashes,
    object, call, block, at, open, conns, holder, pending, aborted, committed, executed, end,
    returned, faults

checkpoints == <<setup, head, waiting, made, memory, sqlite, postgres, shallow, sLastId,
                 commits, odd>>
agent == <<aSetup, messages, due, answered, left, outcome, inputs, aFailed, aLastId,
           abandoned, resumed>>
graphs == <<gSetup, gMade, builder, error, graph, told, finished, gDue, sends, gStep>>
migration == <<mSetup, versions, seen, values, pendingSends, mSteps, before>>
channels == <<kind, cHeld, cFinished, cOutcome, cRead, wrote, cSteps>>
migrating ==
    <<tables, applied, recorded, tPc, list, tAt, tHolder, isSetup, crashes>>
calling ==
    <<object, call, block, at, open, conns, holder, pending, aborted, committed, executed, end,
      returned, faults>>
all == <<part, vars, checkpoints, agent, graphs, migration, channels, migrating,
         calling>>

-----------------------------------------------------------------------------
(* Savers.                                                                  *)

\* Four checkpoints whose channels change in every way; three with two commits of
\* a task.
Values4 ==
    [puts |-> 4, commits |-> 0, lists |-> {}, deletes |-> TRUE,
     changes |-> {"a" :> "plain", "a" :> "rich", "a" :> "empty", "b" :> "rich",
                  ("a" :> "rich") @@ ("b" :> "plain")}]

Commits2 ==
    [puts |-> 3, commits |-> 2, deletes |-> FALSE, changes |-> {"a" :> "rich"},
     lists |-> {<<"x">>, <<"x", "y">>, <<"error">>, <<"resume">>, <<"x", "resume">>}]

Saving ==
    INSTANCE Savers WITH
      Channels <- SavedChannels, Tasks <- SavedTasks, Setups <- SaverSetups,
      lastId <- sLastId

SmallSetups == {Values4, Commits2}

\* A commit is a list of writes.
ASSUME SaversAssumption ==
    \A s \in SaverSetups : s.lists \subseteq Seq(STRING)

-----------------------------------------------------------------------------
(* The prebuilt agent: both versions, every hook and every way to handle    *)
(* errors; an even limit leaves room for two calls of the model.            *)

Plain ==
    [version |-> "v2", pre |-> FALSE, post |-> FALSE, format |-> FALSE,
     handler |-> "default", wrapped |-> FALSE, direct |-> {}, limit |-> 4]

AgentSetups ==
    {Plain,
     [Plain EXCEPT !.version = "v1", !.handler = "all", !.wrapped = TRUE],
     [Plain EXCEPT !.handler = "none", !.direct = {"direct"}],
     [Plain EXCEPT !.version = "v1", !.direct = {"direct"}, !.limit = 2],
     [Plain EXCEPT !.post = TRUE, !.direct = {"direct"}, !.limit = 5],
     [Plain EXCEPT !.pre = TRUE, !.format = TRUE]}

Agent ==
    INSTANCE ReactAgent WITH
      Setups <- AgentSetups, MaxInputs <- 2, MaxFailures <- 1,
      Requests <- {<<>>, <<"plain", "direct">>, <<"unknown">>},
      setup <- aSetup, failures <- aFailed, lastId <- aLastId, results <- answered

-----------------------------------------------------------------------------
(* Graphs.                                                                  *)

Calls == INSTANCE GraphSetups

Graphs ==
    INSTANCE CompiledGraph WITH
      Setups <- Calls!AllSetups, Parts <- Calls!NameParts, Reserved <- {"__tasks__"},
      BadNames <- {"a:b"}, MaxSteps <- 6,
      setup <- gSetup, made <- gMade, due <- gDue, step <- gStep

-----------------------------------------------------------------------------
(* Checkpoints of a graph in its older layouts.                              *)

Layout(l) ==
    [nodes |-> {"a", "b", "c"}, entries |-> {"a", "c"}, layout |-> l,
     edges |-> {<<"a", "b">>, <<"a", "c">>, <<"b", "c">>},
     branches |-> {<<"a", "c">>, <<"c", "b">>, <<"b", "a">>}]

OldLayouts == {Layout("quadratic"), Layout("start"), Layout("to")}

Migration ==
    INSTANCE CheckpointMigration WITH
      Setups <- OldGraphs, setup <- mSetup, steps <- mSteps

\* What a graph that was compiled has: edges and branches between its nodes, whose names
\* are nobody else's.
ASSUME OldGraphsAssumption ==
    \A s \in OldGraphs :
      /\ s.layout \in {"quadratic", "start", "to"}
      /\ s.entries \subseteq s.nodes
      /\ s.edges \subseteq s.nodes \X s.nodes /\ s.branches \subseteq s.nodes \X s.nodes
      /\ {"__interrupt__", "?"} \cap s.nodes = {}

-----------------------------------------------------------------------------
(* Channels of every kind.                                                  *)

LastKind == [name |-> "last"]

ChannelSetups ==
    {[name |-> n] : n \in {"last", "any", "after", "barrier", "barrier_after"}}
      \cup {[name |-> n, guard |-> g] : n \in {"ephemeral", "untracked"}, g \in BOOLEAN}
      \cup {[name |-> "topic", accumulate |-> a] : a \in BOOLEAN}
      \cup {[name |-> "binop", default |-> d] : d \in BOOLEAN}

Channel ==
    INSTANCE ChannelKinds WITH
      Kinds <- ChannelSetups, Values <- ChannelValues, Names <- JoinNames,
      MaxSteps <- MaxChannelSteps,
      held <- cHeld, finished <- cFinished, outcome <- cOutcome, read <- cRead,
      steps <- cSteps

-----------------------------------------------------------------------------
(* Databases.                                                               *)

Tables ==
    INSTANCE DatabaseSetup WITH
      Callers <- {c1, c2}, Setups <- {},
      setup <- tables, pc <- tPc, at <- tAt, holder <- tHolder

\* SQLite's columns are only added once: no crash there.
TableSetups ==
    {Tables!PostgresSaver, Tables!AsyncPostgresSaver, Tables!PostgresStore,
     [Tables!PostgresStore EXCEPT !.shared = FALSE], Tables!AsyncPostgresStore,
     [Tables!AsyncPostgresStore EXCEPT !.shared = FALSE], Tables!SqliteStore,
     Tables!AsyncSqliteStore}

Migrations ==
    INSTANCE DatabaseSetup WITH
      Callers <- {c1, c2}, Setups <- TableSetups,
      setup <- tables, pc <- tPc, at <- tAt, holder <- tHolder

Programs == INSTANCE DatabasePrograms

Unused == Programs!Unused

\* Of two callers both are tasks, or one.
DatabaseObjects ==
    Programs!SaverObjects({c1, c2}, {c1}) \cup Programs!StoreObjects({c1, c2}) \cup {Unused}

Database ==
    INSTANCE DatabaseCallsProofs WITH
      Callers <- {c1, c2}, Objects <- DatabaseObjects,
      wrote <- executed, outcome <- returned

-----------------------------------------------------------------------------
PartsInit ==
    /\ part \in {"batches", "checkpoints", "agent", "graphs", "migration", "channels",
                 "tables", "calls"}
    /\ Init /\ Saving!Init /\ Agent!Init /\ Graphs!Init /\ Migration!Init /\ Channel!Init
    /\ part # "checkpoints" => setup = CHOOSE s \in SaverSetups : TRUE
    /\ part # "agent" => aSetup = Plain
    /\ part # "graphs" => gSetup = Calls!Joined
    /\ part # "migration" => mSetup = CHOOSE s \in OldGraphs : TRUE
    /\ part # "channels" => kind = LastKind
    /\ Migrations!Init /\ Database!Init
    /\ part # "tables" => tables = Tables!PostgresSaver
    /\ part = "calls" <=> object # Unused

\* What a step of a part leaves alone.
Others(p) ==
    /\ part = p /\ UNCHANGED part
    /\ p # "batches" => UNCHANGED vars
    /\ p # "checkpoints" => UNCHANGED checkpoints
    /\ p # "agent" => UNCHANGED agent
    /\ p # "graphs" => UNCHANGED graphs
    /\ p # "migration" => UNCHANGED migration
    /\ p # "channels" => UNCHANGED channels
    /\ p # "tables" => UNCHANGED migrating
    /\ p # "calls" => UNCHANGED calling

PartsNext ==
    \/ part = "batches" /\ Next /\ Others("batches")
    \/ part = "checkpoints" /\ Saving!Next /\ Others("checkpoints")
    \/ part = "agent" /\ Agent!Next /\ Others("agent")
    \/ part = "graphs" /\ Graphs!Next /\ Others("graphs")
    \/ part = "migration" /\ Migration!Next /\ Others("migration")
    \/ part = "channels" /\ Channel!Next /\ Others("channels")
    \/ part = "tables" /\ Migrations!Next /\ Others("tables")
    \/ part = "calls" /\ Database!Next /\ Others("calls")

PartsSpec == PartsInit /\ [][PartsNext]_all

-----------------------------------------------------------------------------
(* The properties of the parts, which the modules state; BatchedStore's is   *)
(* ImplementsKeyValueStore.                                                 *)

\* Every saver gives back what was put, the pending writes alike; the shallow saver
\* the newest.
SaversAgree ==
    part = "checkpoints" =>
      Saving!ReadsWhatWasPut /\ Saving!PendingWritesAgree /\ Saving!ShallowIsNewest

\* The agent answers each tool call once, and ends where it says it does.
AgentAnswers ==
    part = "agent" =>
      Agent!CallsAnsweredOnce /\ Agent!ReturnDirectEnds /\ Agent!EvenLimitsSuffice

\* A graph that is valid compiles, and runs as its edges say.
ValidGraphsCompile == part = "graphs" => Graphs!ValidGraphsCompile
ImplementsEdgeRuns == Graphs!ImplementsEdgeRuns

\* What was due in a checkpoint of an older version is due in the migrated one.
MigrationKeepsDue == part = "migration" => Migration!MigrationKeepsDue

\* A channel survives saving, triggers once, and keeps what overwrote it.
ChannelsKeep ==
    part = "channels" =>
      Channel!ReloadChangesNothing /\ Channel!ReadOnce /\ Channel!OverwriteDecides

\* Whoever else migrates, a recorded migration was run; a set-up gets ahead, and nobody
\* waits for ever for a lock, a connection or a loop.
DatabasesGoOn ==
    /\ part = "tables" =>
         Migrations!RecordedAreApplied /\ Migrations!RaisedIsDone /\ Migrations!SetupGoesOn
    /\ part = "calls" => Database!CallsGoOn

\* What a call saves is saved at once and when it returns, and a connection is used by
\* one at a time.
DatabaseIsShared ==
    part = "calls" =>
      Database!CallsAreWhole /\ Database!ReturnedIsSaved /\ Database!OneCursorAtATime
=============================================================================
