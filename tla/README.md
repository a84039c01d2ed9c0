# TLA+ specifications of RiskLens and of the LangGraph libraries it vendors

The repository holds two programs. **RiskLens** is an agent that plans with an
LLM and puts a human in front of risky tools (`src/examples`, `src/sandbox`).
**LangGraph** (`src/libs`) is the vendored library of agents as graphs: nodes run
in supersteps, state lives in channels, and checkpoints make a conversation
survive failures, interrupts and crashes; around it are stores, savers, a prebuilt
agent and the SDK of a server. This directory models their core, model-checks it
with TLC and proves part of it with TLAPS.

1. [Inventory](#1-inventory) · 2. [Modules](#2-modules-and-how-they-correspond-to-the-code)
· 3. [Runs](#3-runs-bounds-and-what-they-show) · 4. [Fairness](#4-fairness)
· 5. [Proofs](#5-what-is-proved) · 6. [Disagreements](#6-where-the-code-and-its-documentation-disagree)
· 7. [Not modelled](#7-what-is-not-modelled) · 8. [Plan](#8-plan)

## 1. Inventory

| component | state | operations | what is hard | what makes it correct |
|---|---|---|---|---|
| Agent session (`examples/hitl_agent_demo.py`, `logger.py`) | mode, HITL flag, command cache, `decision_history`, logs.json, workspace files | plan, score, approve, run a tool, record, log; clean_system | kills at any point, tools that raise, a log rewritten in place, a risk that falls when a command is cached, files that appear while a human decides | nobody but a human opens a risky tool; both records of a session agree; a task has one verdict |
| Code sandbox (`handle_code_execution`, `sandbox/`) | program in hand, script.py, child process, attempts | generate, check, write, spawn, time out, repair | programs that hang, a file left by an earlier program, the retry count | only accepted programs run, a bounded number of times; the tool ends |
| Superstep algorithm and channels (`pregel/_algo.py`, `channels/`) | channel versions, versions seen, values | apply_writes, prepare_next_tasks, should_interrupt | an optimisation that looks at few nodes; barriers consumed across steps; overwrites; what a channel forgets when it is saved | a due node is never missed; a step's writes show in the next; a channel read back is the channel saved |
| Pregel loop (`pregel/_loop.py`, `main.py`) | checkpoint, updated channels, tasks, status | invoke with an input / with None, tick, after_tick, put_checkpoint, exit; update_state | background saves, crashes between them, everything hanging on one save (durability exit), a step that raises halfway, interrupts recognised by versions | the saver only ever shows whole supersteps, and an invocation leaves the last of its own; every invocation ends |
| Task runner and retry (`_runner.py`, `_retry.py`, `_executor.py`) | futures, done callbacks, a counter and an event, attempts | tick, submit, call, commit, fail, panic, waiter, step timeout | callbacks that run in the threads of the tasks; a call made by an attempt that is retried; a timeout at any point | what the tick returns over is committed; it always returns |
| Interrupts, resume commands, functional API (`types.py`, `_call`) | RESUME and INTERRUPT among the pending writes, the scratchpad's counters | interrupt, call a task, Command(resume) by id or bare | a node runs again from its start: questions and results are matched by position; saves in any order and crashes | each answer reaches the question it was given to; a called task has one result |
| Graph building (`graph/state.py`) | nodes, edges, joins, branches, channels | add_*, validate, compile, attach | any order of calls, refused calls that leave something behind, joins that share a name | a valid graph compiles, and runs as its edges say |
| Migration (`_migrate_checkpoint`) | an older checkpoint | rename channels, versions and versions seen | nodes due in the old layout | they are due in the new one |
| Savers (`checkpoint*`) | tables or dictionaries | put, put_writes, get_tuple, delete_thread; setup | four layouts; several callers; setups killed halfway; one connection shared by threads and coroutines | they all give back what was put; a saved call is saved at once |
| Batched store, TTL, namespaces, search (`store/`) | queue of operations, rows, vectors, the sweeper thread | get, put, search, list, batch, sweep | duplicates, one failure among many callers, cancelled callers; a sweeper stopped and started; strings that encode namespaces | a sequential store; an item lives as long as it was touched; all stores find the same |
| Prebuilt agent and ToolNode (`prebuilt/`) | messages, due nodes, remaining steps | model, tools, hooks | tools that fail, resumes, a second input while calls are open, the step limit | every tool call is answered once, and the agent ends where it says |
| Python SDK (`sdk-py`) | a stream of server-sent events, a request under way | stream, wait, join; one request per method | connections that break at any line; chunks cut anywhere; every method written twice | each part once and in order; twins send the same |
| RemoteGraph (`pregel/remote.py`) | its config; what was handed out | stream, invoke, get_state, history, update_state | interrupts, errors and modes of two streams told from events; configs that go back to the server | the same as the graph run in place |
| Cache, JS SDK, CLI, serialisation, analytics scripts | | | see section 7 | |

How they interact: the loop asks the algorithm what is due, hands tasks to the
runner, which commits their writes to the loop, which submits saves to an executor
that calls the saver; a compiled `StateGraph` is the channels and triggers the
algorithm works on; the prebuilt agent is such a graph; interrupts go through the
pending writes; the store is called by nodes; the SDK talks to a server that runs all
of it and is not in the repository. `PROJECT.json` lists every component with its
sources and status, and under `hazards` each place where the code is hard to test,
with the properties aimed at it.

## 2. Modules and how they correspond to the code

### RiskLens

`HitlAgent` is one interactive process and the disk it leaves behind. `pc` is the
place in `agent()` / `handle_action` / `execute_action`; each action is a stretch
of code between two points where a human, the LLM, a tool or the operating system
can interfere: `PlanAction`, `Dispatch` (scoring), `AutoApprove` / `HumanApproves`
/ `HumanRefuses` (`human_approval`), `EnterTool`, `ToolReturns` / `ToolRaises`,
`RecordDecision`, and `CreateLog` … `LogWritten` (`log_event`, which opens, reads,
seeks and dumps: a kill in between leaves torn JSON). `Kill` and `Restart` end and
begin a process; memory starts over, the disk stays. Risks are exact, in tenths.
`FilesChange` is any other program: `clean_system` deletes by path, so a file that was
replaced while the prompt pends goes with the list, and one at a path of its own stays
(`CleanupKeepsToItsList`). `runs`, `call` and `listed` are auxiliary. `AuditTrail` says what the two records
promise, without risk, modes or files; `HitlAgent` implements it
(`ImplementsAuditTrail`).

`CodeSandbox` is the tool `generate_and_run_code`. A program is a model value with
the policy's verdict on it (`Safe`) and the way its process ends (`Ends`).

### The loop

`PregelAlgo` holds the pure functions of a superstep, over the channels a compiled
`StateGraph` is made of: `LastValue`, `EphemeralValue` (branches and START),
`BinaryOperatorAggregate` and `NamedBarrierValue` (joins). A state is
`[ver, seen, seenI, val]`: `channel_versions`, `versions_seen` per node and for the
interrupt, and the channel values. A value is the set of *tags* of the writes it
holds (node, checkpoint, attempt), which is what the properties tell apart: from
which run of which node a value comes. `Apply` is `apply_writes`, in the code's
order (versions seen, consume, update, bump); `PrepareNextTasks` has the shortcut
through `updated_channels`, `FullScan` does without it. The other kinds of channel,
`Overwrite` and the AfterFinish pair are in `ChannelKinds`: update, consume, finish,
save and load, for one channel.

`PregelLoop` is one thread (conversation): the thread in `Pregel.stream`
(`pc`: off, tick, run, wait, leave, exit) or in `update_state` (update), one thread
per task, the background executor, and the saver. An action of the loop is the whole
handler: `AfterTick` applies the writes, creates and submits the checkpoint and
decides about interrupt_after. `RefuseWrites` is the same handler when a `LastValue`
channel gets two values: `apply_writes` raises on its way through the channels, in
the order of a set, so any part of the other channels may have been updated
(`HalfApply`). The executor's work is explicit: `puts` are submitted checkpoint
saves (done one after the other, `SaveCheckpoint`), `wputs` submitted `put_writes`
(done in any order, `SaveWrites`). The saver keeps what `InMemorySaver` keeps:
checkpoints without values, `blobs` under `<<channel, version>>`, and pending
writes. A `Crash` loses the process and both queues; the saver survives. `Resume`
reads the newest checkpoint back from the blobs with its pending writes;
`InvokeWithInput` consumes what is due and applies the input. A save that waits
follows the set of a barrier channel (`Aliased`), as the shared Python set does.

The three durabilities differ where the code tests for them: `sync` waits for the
save after a superstep (`AwaitSave`), `async` does not, and `exit` submits nothing
until the thread leaves the block, by whatever way: `_suppress_interrupt` then saves
the checkpoint in hand and its pending writes (`LeaveBlock`, `WayOut`).
`update_state` is two calls of the saver made by the caller's own thread while no
invocation runs, `UpdateWrites` (put_writes under the node's task id) and `UpdatePut`
(apply_writes and put); its task has `INTERRUPT` for its only trigger, which
`PregelAlgo` calls `AsNode`.

`tries`, `taken` and `resumed` are ghosts; `taken` keeps, for each checkpoint, the
values and the due nodes it was created with (`Snapshot`), `resumed` the checkpoint an
invocation without an input began at.

`Supersteps` is the abstract specification: the state of a conversation is
`(head, val, ready)` and moves by whole supersteps, by an input or by an update as a
node. It has no versions, no scheduling shortcut, no threads, no store. `PregelLoop`
implements it under two mappings. In `ImplementsSupersteps`, `head`, `val` and `ready`
are read from the *saver*: what another process would find there at any moment, for
`sync` and `async`. In `CallerSeesSupersteps` they are the checkpoint in hand while an
invocation runs and the saver's otherwise: with `exit` many supersteps pass between two
saves, and the mapping says that what an invocation leaves in the saver is where it was.

| in the model | in the code |
|---|---|
| `cp`, `upd`, `tasks`, `stop` | `self.checkpoint` with `self.channels`, `self.updated_channels`, `self.tasks`, `self.stop` |
| `writes[n]` | `task.writes`; before the first tick `self.checkpoint_pending_writes` |
| `running[n]` | the attempt `run_with_retry` is in on the pool's thread |
| `saved`, `blobs`, `pwrites` | `InMemorySaver.storage`, `.blobs`, `.writes` |
| `lastId` | the uuid6 of the newest checkpoint: ids grow |
| `seenI` | `versions_seen[INTERRUPT]` |
| `Error`, `NoWrites` | the writes `ERROR` and `NO_WRITES` |

`PregelRunner` is one `PregelRunner.tick`: `todo`, the future of each task and of each
task called by it (`fut`), the done callbacks still to run (`callback`), `FuturesDict`
(`dict`, `watch`, `counter`, `event`, `done`), the pool's `queue`, the waiter and the
step timeout (`expired`). `call` follows `_call` through what it does one after the other
in the caller's thread: submit, list the future with its commit callback (`Enlist`), chain
it (`Chain`), while the called task may run and end between any two. A task is one thread; `Take` and the actions named `Goes(f)`
are its steps, `Tick` those of the thread in the tick.

### Nodes that ask

`NodeInterrupts` is one superstep of nodes whose programs ask (`interrupt`) and call
tasks. A node runs again from its start at every invocation; `given`, `null` and
`resume` are what the scratchpad counts through, `disk` and `kept` what the saver and
the loop hold of the pending writes, in memory or in an SQL database (`Merge`). `Dialogue` says what the human is promised, and
the nodes implement it when answers come by id, or without one to a single task that
does not fail.

### Graphs

`GraphBuilder` is the builder: every public call with its checks and what it leaves
behind when it raises, `validate`, and `compile` with the channels and triggers each
`attach_*` makes. `CompiledGraph` runs the graph by those channels; `EdgeRuns` says
what the edges, joins, branches, Commands, Sends and deferred nodes mean without any
channel, and is implemented. `GraphSetups` holds the calls TLC makes.
`CheckpointMigration` runs an older graph layout a few steps, migrates the checkpoint
and compares what is due.

### Savers and stores

`Savers` makes the same calls to `InMemorySaver`, `SqliteSaver`, `PostgresSaver` and
the shallow saver, each in its own layout of values, checkpoints and writes.
`DatabaseSetup` is `setup()` statement by statement; `DatabasePrograms` writes down what
each method does with lock, connection, pipeline and transaction, which methods each kind
of object offers to tasks and threads, and the shape they have (`ObjectOK`);
`DatabaseCalls` runs callers through them. `BatchedStore` is `AsyncBatchedBaseStore`: the queue, the
background task, `_dedupe_ops`, the transaction and the futures; `KeyValueStore` is the
sequential store it implements. `StoreTtl` has the rows' deadlines in both
databases, the reads that refresh them and the sweeper thread with its event. `StoreNamespaces` and `StoreSearch`
make the same calls to `InMemoryStore` and the SQL stores and compare what they find.
`StoreCalls` is the operation that each method of a store makes of its arguments, in the
four ways there are to call it: `BaseStore`'s methods, their asynchronous twins, those of
`AsyncBatchedBaseStore`, which are written anew, and its synchronous ones.

### The prebuilt agent and the SDK

`ReactAgent` is `create_react_agent` in both versions with its hooks, and `ToolNode`.
`SdkStream` is `HttpClient.stream` with `SSEDecoder` and the reconnects, which
implements `OrderedDelivery`; `SseLines` is `BytesLineDecoder`; `SdkRequest` is
`request_reconnect`; `SdkCalls` is the request that every method of both clients sends.

`RemoteGraph` runs one graph in four ways at once: in place with `Pregel.stream` and
`astream`, and through `RemoteGraph.stream` and `astream` on a server, which is external and
sends the events of the modes it was asked for. `got` is what each has handed out, to its
caller and to the stream of the graph the call is a node of (`DuplexStream`), and how it
ended; `invoke` is what both make of the chunks. The other half of the module asks the server
for a thread's state, its history, an update and a run, with the configs that come back.

### Modules for the model checker

`MCHitlAgent`, `MCPregel` and `MCReactAgent` hold only values of
constants. `MCPregel` has three graphs, which are what `StateGraph.compile` builds for
them: *Fan* (a node that routes to one or both of two others, and a reducer key), *Join*
(a barrier that fills over two supersteps, and a key that takes one value per step) and
*Choice* (a node that may go round for ever). Small components that do not depend on one
another are checked in one run, **side by side**: `MCWork` (sandbox, tick, calls, store, remote),
`MCParts` (batches, checkpoints, agent, graphs, migration, channels, tables, calls) and
`MCServices` (ttl, namespaces, search, stream, lines, request, dialogue). A variable
`part` is chosen in the initial state and never changes; only that part moves, the
others keep their first state, and each property and each fairness condition is stated
for the behaviours of its own part. So the run is the union of the components' runs, not
their product. Each EXTENDS the component whose property a theorem states too
(`CodeSandbox`, `BatchedStore`, `StoreTtl`) and instantiates the others.

## 3. Runs, bounds and what they show

Operators whose name appears with the comment `mutant:` are plausible bugs; each
property of a passing run is broken by the one `PROJECT.json` pairs with it.

| run | instance | properties |
|---|---|---|
| `hitl` | adaptive mode over every action, 2 files that come and go, 2 tasks, 2 sessions, 1 kill; fair | `AutoRunsAreEarned`, `AtMostLastRunUnlogged`, `TaskHasOneVerdict`, `ImplementsAuditTrail`, `CleanupKeepsToItsList`, `TaskEnds` |
| `pregel_fan` | Fan, async, 1 failure, 1 crash, 1 input, 1 resume | `SavedIsSnapshot`, `HistorySaved`, `PendingAreDue`, `ImplementsSupersteps`, `NoSuccessfulRerun` |
| `pregel_join` | Join, sync, interrupt after `b`, 1 failure, 1 crash, 1 input, 2 resumes | `NoTriggeredNodeMissed`, `SyncLoopDurable` |
| `pregel_inputs` | Choice, exit, interrupt before `b`, recursion limit 2, 2 inputs, 1 resume, 1 update_state, 2 attempts, 1 failure; fair | `CallerSeesSupersteps`, `InterruptStops`, `Returns` |
| `work` | sandbox with a program of each kind and 2 repairs; a tick in five settings; every method of both SDK clients with at most two optional arguments; every method of a store in four ways; a RemoteGraph's streams of two events from a root and from a node in seven modes, and three checkpoints of two threads; fair | `OnlySafeProgramsRun`, `RunsAreBounded`, `TickIsOrdered`, `RequestsAgree`, `RemoteIsLocal`, `WorkEnds` |
| `parts` | 2 callers and 2 keys of a batched store; 4 checkpoints in four savers; the agent in six settings; builder calls in any order; three old layouts; every kind of channel; set-ups and calls of every database object by 2 callers | `ImplementsKeyValueStore`, `SaversAgree`, `AgentAnswers`, `ValidGraphsCompile`, `ImplementsEdgeRuns`, `MigrationKeepsDue`, `ChannelsKeep`, `DatabasesGoOn`, `DatabaseIsShared` |
| `services` | one namespace of keys with times to live and a sweeper; two labels in two levels; three items of two texts; a stream of 3 parts; texts of up to 6 bytes; three dialogues; fair | `DeadlineIsLastTouch`, `SweptWhenDue`, `NamespacesAgree`, `SearchesAgree`, `WireIsRead`, `ImplementsOrderedDelivery`, `AnswersFit`, `ImplementsDialogue`, `ServicesEnd` |
| `pregel_partial_writes`, `hitl_every_decision_logged`, `interrupts_stale_answer`, `agent_sorry`, `call_resolved_early` | section 6 | one each, refuted |

**Why the bounds are enough.** `hitl`: the discount for a cached command needs a run of
it and shows in a second task; a second session shows that cache and history start over
while the log goes on. The Pregel runs: every queue can hold two checkpoints (a save of
superstep *k* still waiting when *k+1* is created), a crash can keep any prefix of them
and any subset of the pending writes, and the resume after it goes through what is left;
a second crash starts from a state of the saver the first can leave as well. Fan lets `b`
be triggered by two nodes at once or one after the other; two inputs are the least that
meets tasks left due by an earlier invocation, and an update can fall between any two
invocations. One failure is enough for a node that fails while a sibling completes, or
one that is retried. A recursion limit of 2 stops Choice in the middle of its round. The
tick: two tasks, one of them calling a third, are the least with a callback that runs
while another is committed; five settings, as the fast path, the retry of a caller, the
timeout and tasks that never end exclude one another. Stores and savers: two callers, two
keys, and as many calls as let one caller's second call share a batch with the other's
first; two commits of a task are the least of which one may find the other's rows. The
handler of an event looks at that event and at how the run has ended: two events, of
which one or both may be interrupts, are the least that can come in the wrong order. The
sweeper is started twice, the least at which a stopped thread can meet a new one; times to
live of half a minute, one, and one and a half are what whole minutes round down, keep and
round up, and the clock goes two of its half minutes, so that the least can pass. The
stream breaks four times, more than the bound on reconnects. The remaining bounds
(`MaxSteps`, `MaxOldSteps`, `MaxBytes`, `MaxDepth`) are large enough for every mutant of
those parts to be found.

**Premises.** What the passing runs leave out, because the property is then false
(section 6) or says something else:

* *Loop.* No passing run combines `async` with a barrier that fills over two supersteps,
  or `sync` with a second input on such a graph: the shared set of section 6 makes
  `SavedIsSnapshot` false there, and after a crash `NoTriggeredNodeMissed` as well.
  `pregel_inputs` has no crash: with `exit` a crash takes everything since the last
  invocation, which `CallerSeesSupersteps` excludes. `InterruptStops` has no such premise,
  and does not say that a human was shown the interrupt: an invocation that resumes where
  the one before died, hit its recursion limit, failed or stopped for interrupt_after goes
  past an interrupt that no run has stopped for (section 6). No passing run combines update_state with a crash: one between its put_writes and its put leaves the update's
  writes mixed with what that task had completed with, and `ImplementsSupersteps` fails.
  In the passing runs a failing node has written nothing (`FanPartials`);
  `pregel_partial_writes` gives that up.
* *Agent session.* The run is in adaptive mode; the other modes are covered by the proofs.
* *Runner.* `ProceedMeansCommitted` is about ticks without a step timeout (with one, a tick
  may be over while a task still runs, which is what `TimeoutIsRaised` is about) and three
  workers where a task calls another: with one, a caller waits for a task nobody can take.
  `WaitersSeeCommitted` is about a caller that has to wait for its result; one that finds
  the future resolved may be ahead of the commit (`CallCommittedFirst`, section 6). In
  asyncio callbacks are queued in order, and that does not happen.
* *Interrupts.* With failures or crashes, answers go by id; bare answers only to one task
  that does not fail, and `invoke(None)` only while nothing is asked. No crash where a
  question rests on a call's result. No retry policy. Durability sync or async. With an SQL
  saver the RESUME row of a node that ended may hold fewer answers than it was told
  (section 6); what is saved of it stands for those its own writes come of (`Standing`),
  which no invocation asks again.
* *Batched store.* One transaction at a time per store and no other process writing; a
  batch that fails is rolled back (`RollsBack`); a group of reads is one step; `abatch` is
  not called directly.
* *Times to live.* Both databases, SQLite with and without `refresh_on_read`; the clock
  counts seconds. Stops that time out and futures that are cancelled (`abrupt`) only beside
  Postgres, as the sweepers are the same; liveness only without them.
* *Namespaces, search.* No label continues another one; vectors are ranked by number.
* *Savers.* One thread, one namespace; delete_thread while nothing runs; no commit that
  mixes RESUME with other writes, none that is older than the newest checkpoint; random
  digits of versions never collide; nobody mutates a value in place.
* *Databases.* The SQLite stores' columns are added without a kill in between and by one
  process; a pool of the asynchronous store has a connection more than it has callers; no
  synchronous put on the event loop; SQLite fails only at a call's first statement; calls
  that were cancelled may be half done; lists are consumed at once. Two objects on one
  pipelined connection, and a PostgresStore's sweep beside a batch on it, are left out.
* *Agent.* "clear" only without return_direct tools; hooks trim nothing; resumes are
  bounded with the failures; when a tool raises, those still running are dropped; a new
  input while calls are open makes every later call of the model raise.
* *Graphs.* No Send beside deferred nodes; every builder call once; START is never a
  destination; calls after compile come before the invocation.
* *RemoteGraph.* What the two do not have in common is named by the properties (section 6):
  `Wanted`, `InNode`, `NoIds`, `Once`, `SameUpToInterrupt`, and `InvokesAgree` says of several
  interrupts only that none is made up. Events come in the same order in place and remotely.
* *SDK.* Every part of a stream has an id; a server that gives a Location keeps what it
  sent; a reconnect that fails is not tried again. `MaxReconnects` is 2 for the code's 5.

`CHECK_DEADLOCK FALSE` stands in every cfg: the agent has exited, the tool has returned,
or the calls the bounds allow are used up. Where everyone waiting on everyone is the
hazard, an invariant says it (`DatabasesGoOn`) or a liveness property
(`WorkEnds`, `ServicesEnd`).

## 4. Fairness

* `HitlAgent`: weak fairness of one agent step. The interpreter goes on, and the
  human, the LLM and the tools answer; entering a task, exiting and killing stay
  unfair. `TaskEnds` is about the bounded planning loop, not about slow humans.
* `CodeSandbox` (in `MCWork`): weak fairness of its next step. `subprocess.run` enforces
  its timeout, so a program that hangs needs no fairness of its own.
* `PregelLoop`: weak fairness of the stream thread (`Loop`), of the second half of an
  update_state (`UpdatePut`), of each task's thread, and of the two kinds of background
  saves. These are operating-system threads and a saver that answers. Invocations,
  failures and crashes are unfair. `Returns` needs no fairness of a task finishing rather
  than failing: failures are bounded, and a task that raises ends too.
* `PregelRunner`: weak fairness of the thread in the tick, of the pool taking the next
  task, of the waiter, of each task's thread (`Goes(f)`) and of the calls it has begun
  (`CallGoesOn`). In
  the setting `stuck` tasks may run for ever, and the tick need only end after a failure.
* `StoreTtl`: weak fairness of the sweeper's thread and of `join` returning.
* `SdkStream`: weak fairness of a server that sends and of a client that reads; connections
  break unfairly, a bounded number of times.
* `NodeInterrupts`: weak fairness of tasks, saves and the return of an invocation, and of
  the human; strong fairness of answering, since a question is withdrawn and asked again
  whenever its node is run again.

Fairness of a part is stated for behaviours of that part only, and none is stated for the
parts that have no liveness property.

## 5. What is proved

TLAPS checks each theorem for every value of the constants that meets the assumptions
named in the modules (types of the constants) and, where it says so, a *premise* that the
theorem states. The premises are those of section 3: without them TLC refutes the property.

| module | theorems | argument |
|---|---|---|
| `HitlAgentProofs` | `TypeCorrect`, `OversightHolds`, `OneVerdict`, `OnlyLastRunLost`, `AgentImplementsAuditTrail`, `CleanupKeepsToList` | all modes, planners, scores and bounds, any kills |
| `WorkProofs` | `SandboxSafe`, `SandboxBounded` | any programs, policy and retry count |
| | `TicksAreOrdered` | `PregelRunnerProofs`, for `WorkSpec` |
| `PregelLoopProofs` | `TypeCorrect`, `HistoryIsSaved`, `SyncIsDurable`, `SuccessfulNodesAreNotRerun` | one invariant, every durability, failures, refused steps, updates, crashes |
| | `SavedAreSnapshots`, `NoNodeIsMissed`, `PendingWritesAreDue` | premise `SavesAreOwn` |
| | `InterruptsStopRuns` | premise `SavesAreOwn` |
| | `SaverShowsSupersteps` | premise `WholeSteps` |
| | `CallerSeesWholeSteps` | premise `CallerSteps` |
| `PregelRunnerProofs` | `TickIsOrdered` | any tasks, callers, attempts, workers (`SetupsOK`) |
| `PartsProofs` | `BatchedStoreIsStore` | premise `RollsBack` |
| | `DatabaseIsNotMixed` | `DatabaseCallsProofs`, for `PartsSpec` |
| | `ChannelsAreKept` | premise `JoinNames # {}`: a join waits for somebody |
| | `MigratedAreDue` | any graph of the old layouts (`OldGraphsAssumption`) |
| | `SaversKeepWhatWasPut` | any channels, tasks and writes (`SaversAssumption`) |
| `DatabaseCallsProofs` | `CallersDoNotMix` | any callers, methods of the shape `ObjectsOK`, errors, cancelled tasks |
| `ServicesProofs` | `DeadlineIsKept`, `SweptAreDue` | any keys, times to live, clock steps; both databases (`TtlAssumption`) |
| | `StreamsDeliverInOrder` | any parts, servers and bounds (`StreamAssumption`) |
| | `TheWireIsRead` | any bytes, chunks and bounds (`RequestAssumption`: the limit is a number) |
| | `AnswersReachTheirQuestions`, `DialoguesAreKept` | `NodeInterruptsProofs`, for `ServicesSpec` |
| `NodeInterruptsProofs` | `AnswersReachQuestions`, `DialoguesAreRecorded` | premises `SetupsOK`, `NoneIsNoFunction` |

**Agent session.** `OversightHolds` (`AutoRunsAreEarned`) is not inductive alone:
`EarnedInv` adds that every run of the session has the mode's actor (`RunsAttributed`),
that the action in hand was scored (`ActionScored`), that a tool in progress is the last
run (`ToolIsLastRun`) and that a cached command was run in this session (`CacheWasRun`).
If the policy opens a command above the threshold, it was discounted for being cached, so
it ran before; that run was a human's or was earned by an earlier human's. `OneVerdict`
and `OnlyLastRunLost` follow the order in which one decision is recorded, run and logged:
between any two of these writes at most one run is ahead of the log. `CleanupKeepsToList`
is an action property: what is left to delete was on the list the human saw. With the
log invariant, every step of `HitlAgent` is one of `AuditTrail` or a stutter
(`AgentImplementsAuditTrail`).

**Sandbox.** `SandboxInv`: the script about to be spawned is the accepted program in hand,
and every run but the one being judged was counted. `SandboxBounded` adds that a call that
returns without success has used every attempt (`RunInv`).

**Loop: what is saved.** `LoopInv` gives four theorems. `PutsInv`: a waiting checkpoint is
newer than its parent, which is saved or waiting too; saves are done smallest id first, so
no parent is left behind. `HeadInv`: the checkpoint in hand is saved or waiting; when the
queue is empty (`AwaitSave`) it is saved. `CompletedInv`: a node whose completion is saved
or on its way has writes in memory and no thread. The steps that matter there: a resume
loads them, merging pending writes never turns a failure into a completion
(`PutWritesKeeps`), a new checkpoint has no writes yet (`WritesInv`), and with `exit` no
save waits while tasks run (`ExitInv`).

**Loop: what is read back.** `SavedIsSnapshot` compares a checkpoint rebuilt from the
blobs of many saves with the one that was taken. It is false in two ways that section 6
describes: a save that waits while its barrier goes on filling, and, with `exit`, a refused
step that is saved half applied. `SavesAreOwn` names the settings that meet neither: `exit`
over a graph without `LastValue` channels, the other durabilities over one without
barriers, or any graph with one input of which every save is waited for.
`SnapshotInv` makes the history of a thread a line: along it versions never go back, and a
channel that kept its version kept its value (`LineInv`); a save brings the value of every
channel whose version its parent has not (`BlobsInv`). `NoNodeIsMissed` shows that the
shortcut of `prepare_next_tasks` finds what a full scan finds, also after a resume from a
checkpoint that was read back, which is where it needs the snapshots; `PendingWritesAreDue`
needs both.

**Loop: the refinements.** `SaverShowsSupersteps` says `Spec => ImplementsSupersteps`.
`OwnSteps` adds to `SavesAreOwn` that a node which raises had written nothing (such writes
count as its result, section 6) and that there is no update_state (which may add to the
writes of a task that has finished); `WholeSteps` adds that every superstep is submitted
(`exit` skips those between two saves). The step that matters is a save: it must show the
whole of one superstep of the checkpoint before it. `StepsInv`: the saves that wait form a
chain on top of the newest checkpoint, one superstep or input a link (`ChainInv`); writes
that count are those of one completed attempt (`WholeInv`), and a node that has a result at
a checkpoint, saved or on its way, gets no other (`OnceInv`), though attempts are retried,
killed and loaded back in between. A result may well be sent twice: with `exit` a run that
leaves sends the writes it had loaded once more, so `OnceInv` says that any two agree. What
is left of the bounds covers the attempts to come (`TriesInv`), and values are older than
the checkpoint that holds them (`AgeInv`).

`CallerSeesWholeSteps` says `Spec => CallerSeesSupersteps`, for every durability: what the
program sees of the thread, the checkpoint in hand during an invocation and the newest one
between two, moves by whole supersteps too. `CallerSteps` is `OwnSteps` without crashes
(with `exit` a crash takes back what the caller has seen) and without `LastValue` channels
(a refused step is left half applied in memory). What it rests on besides is that a run
leaves behind what it had in hand: until the next invocation reads it back, that checkpoint
is the newest of those saved or on their way (`DeliveredInv`) and is still the one that was
taken (`ReturnInv`).

**Loop: interrupts before a node.** `should_interrupt` compares versions: it asks whether
any channel is newer than what the last resume saw, and resumes mark every channel as seen.
`InterruptsStopRuns`: even so no invocation goes on into a node of interrupt_before, with
interrupt_after, limits, failures and crashes as they come. `SeenInv`: what a resume has
seen is no newer than the channel. `StopInv`: until `tick` has decided, a channel is newer
than the last resume saw, or no node due is in the list, or the invocation resumed right
here; tasks run only in the last two cases. A superstep or an input that makes a node due
has written one of its triggers (`DueIsNewer`), so something is newer after it.

**Runner.** `counter` is the number of callbacks that have not ended, so the event means
that none is pending or that a failed task is in `done` (`EventInv`). From where the tick is
(`PlaceInv`), every task then has its callback behind it or the tick raises
(`OutcomeInv`). `CallInv`: an attempt has a call of its own, whose future is listed once, and
whose callback is over when a caller that waited reads the result. `SetupsOK` is what the theorem asks of a setting (finitely many tasks, callers
among them, at least one attempt); TLC evaluates it for the five settings of `MCWork`
(`RunnerSetups`). A step of `MCWork` is one of the runner's or leaves it alone
(`RunnerSteps`), so `TicksAreOrdered` carries the theorem over to the specification that
the run `work` checks, with its settings (`Ticks`) a constant.

**Batched store.** `DedupeListens` is proved about the loop of `_dedupe_ops`, by induction
over its turns: every operation listens to a slot of its kind, and every slot holds one of
the operations. `TransactionInv` says how far the rows of the transaction are from those
committed: the same, then without some that the batch deletes, then with one of the values
the batch writes to a key. So the commit is `Serve` of the whole batch, a rollback is
`Refuse`, and all the steps between are stutters.

**Callers of a database.** `CallersDoNotMix` says that `CallsAreWhole`, `ReturnedIsSaved`
and `OneCursorAtATime` hold of any number of threads and tasks, whatever the server refuses
and whichever tasks are cancelled. `ObjectsOK` is about the methods alone: with-blocks
are opened before the connection is used, the one that commits last and inside the lock (or
the connection, of a pool), and a method either makes all its statements in one
transaction that its block ends, or commits them itself on sqlite3, or has one statement
that commits itself, or only reads. TLC evaluates it for every object of the savers and
stores that the run has (`DatabaseMethods`). `CallsInv` follows a caller through its
method. `StackInv`: its open with-blocks are those its program opened, without the
innermost that were left, which is how an error unwinds too; `HoldInv`: the lock and the
connections it has are those of open blocks. So whoever executes or commits is guarded,
alone on its connection. `DataInv`: of the statements of a call that was not cancelled
none counts (none made, or rolled back), or all made so far wait on its connection with
the commit still to come, or all are saved and no other will be made. A transaction the
server aborted is that of a guarded caller who has yet to leave its block (`AbortInv`), so
nobody else loses or saves anything by it. The proof has one lemma for each action and
each part of the invariant (`OpenStack`, `CloseStack`, `WriteData`, `CommitData`, …).
`DatabaseSteps` carries the theorem over to the specification of the run `parts`, with
its objects.

**Channels.** `ChannelsAreKept` is about one channel of each kind, for any values and
joined names. `ReadOnce` and `OverwriteDecides` are about the step that was just made, so
each step establishes them; what they and `ReloadChangesNothing` rest on (`ChannelInv`)
is that only a channel of the kinds that wait for the end of the run is ever finished, that
the one of a single value is finished only with a value, and that a reducer with a default
always holds something. Then what `checkpoint` leaves out is what `from_checkpoint` makes
anew (`ChannelIsReloaded`), and the writes of a step are folded into a value that is there
(`ReducerHolds`), so that it does not matter which of them comes first. A join of no nodes, which `add_edge`
accepts, is ready before anything ran and is not covered.

**Old checkpoints.** `MigratedAreDue` needs to know what an old checkpoint can be (`OldInv`):
a channel that holds a value has the greatest version there is, since every step empties
what the last one wrote, and nobody who runs has seen that version. So in the old layout a
node was due if one of its triggers holds a value, and of the channels that hold values its
triggers are those `_migrate_checkpoint` turns into its channel (`TriggersBecome`). The
channel gets the greatest of their versions, which is newer than the greatest that the node
has seen of any of them (`DueByBranchTo`); without the first fact the two maxima could be of
different channels and say nothing.

**Savers.** `SaversKeepWhatWasPut`: `PartsSpec => []SaversAgree`, for any channels and tasks
and a thread that is forked, copied, deleted and loses the puts that waited, as it comes.
Savers of two layouts keep blobs by channel and version, so what `get_tuple` builds is what
was put only if a version of a channel says its value wherever either is kept
(`VersionsInv`, which needs that a new version is greater than any of a checkpoint known),
and if every blob that a checkpoint needs is there or comes with one that waits before it
(`StoredInv`). Pending writes are the same but for keys of mixed commits (`WritesInv`). The
shallow saver has one row: while the thread is not forked (`LinearInv`), the waiting
checkpoints follow it one after the other, each with the channels it names as new and all
others unchanged, so the blobs it kept are those of its row.

**Times to live.** `DeadlineIsKept` and `SweptAreDue`. `LeaseInv` says what the row's ttl
column has to do with what the item was put with: in SQLite they are equal, in Postgres the
column is rounded to whole minutes, so at most half a minute away (`RoundedIsNear`, or
equal when there is nothing to round). A put sets the deadline from the ttl itself, a read
from the column, so every deadline is that of the last touch within this slack. In SQLite,
where a batch in which one get asks for a refresh refreshes all it reads, a deadline may
also be later than that, never later than what a touch now would give.

**Streams.** `StreamsDeliverInOrder` says `ServicesSpec => ImplementsOrderedDelivery` for
any parts with ids of their own, any servers of which those that give a Location keep what
they sent (`StreamAssumption`), and any bounds on drops and reconnects. `GivenInv`: what the
caller was given is a prefix of the run, and the last event id is that of its last part.
`WireInv`: an open connection is at the part after those, and the decoder holds what that
part's lines have told so far, or, before its first line, an id that was dispatched.
`BetweenInv`: without a connection the client has a Location, so the server it goes back to
has the parts. `StartsAfterLast` is where they meet: the part after the last one given is
where a new connection starts. A dispatch is then `Deliver`, the end of the stream `Finish`
or, when the last part has no blank line after it, `Close`; all else stutters or fails.

**Lines and requests.** `TheWireIsRead` compares what `BytesLineDecoder` gives of the chunks
with what `bytes.splitlines` gives of the whole. `ScanGoesOn` (by induction over the bytes
that follow) says how reading goes on from a text: the first line that ends is completed by
what was begun, the others are as if nothing had come before, provided no CR LF was cut
apart. `JoinReadsOn` is that this is what the decoder's buffer does, and `LinesInv` that all
that was fed has been read in this way but a CR at its end, which is held: so the proviso
holds whenever a chunk is decoded. `RequestInv` is about the requests: tries left and
connections broken add up to the limit until one raises, and a request that never had a body
is not refused for its Content-Length.

**Nodes that ask.** `AnswersReachQuestions` and `DialoguesAreRecorded` say
`Spec => []AnswersFit` and `Spec => ImplementsDialogue` of `NodeInterrupts`. `SetupsOK` asks
of a setting what section 3 says: with crashes no question comes after a call in a program,
and answers without an id go to one task, which does not fail; programs, tasks, failures,
crashes and the order of saves are otherwise free. `NoneIsNoFunction` says that None is no
list or record. What a node was told rests on two lists, its answers and the results of its
calls: `Fits` says that each thing it has heard is the next of its list, and `AtQuestion`
that somebody who has heard that much is at the question of that number. `InOrder` is the
property of the answers: the j-th was given to somebody at the j-th question who had heard
what fits the same lists. Two who fit the same lists heard the same (`SameHeard`), so an
answer in order is the answer to the question as it is asked now (`AnswerFits`). The
invariant `DialogueInv` carries this through an invocation, its saves and its end: what is
saved is in order (`DiskInv`), the question the human is shown is the first without an
answer (`ShownInv`), the answers in memory are those saved and at most one more
(`AheadInv`), and a task that has ended leaves the saver what it was told (`EndedInv`).
`RecordInv` is about what a task that is saved as over was told: answers in the order of its
questions, also where an SQL saver keeps the older RESUME row beside it.
`BareInv` is about the answer without an id: while it is at hand it is for the open
question. A crash takes results that were not saved; no question rests on one, so what was
answered stays in order (`OpenNeedsNoResults`). It was checked by TLC, over more programs than
the run has, before it was proved. Then a save of a task is `Record`, one of a result is
`Keep`, and all else leaves the record alone. `AskingSteps` carries both theorems over to
`MCServices`, whose dialogues meet `SetupsOK` (`DialogueSetups`).

Numbers: `MaxOfIds`, `MinIsLeast` and `EveryNumber` (induction over a set) come from the
library's well-foundedness of `<` on the naturals.

**Only model-checked.** Liveness (`TaskEnds`, `Returns`, `WorkEnds`, `ServicesEnd`), which
needs ENABLED. `CallerSeesSupersteps` next to an update_state is not proved, though `pregel_inputs` checks it. Of the
components run side by side, those without a proof module:
`AgentAnswers`, `ValidGraphsCompile`, `ImplementsEdgeRuns`,
`DatabasesGoOn`, `NamespacesAgree`,
`SearchesAgree`, `RequestsAgree`, `RemoteIsLocal`. Several of these compute
with folds and recursion over data (decoders, migrations, programs), which the provers
cannot follow.

## 6. Where the code and its documentation disagree

Each of these is a run that TLC refutes, with a finding that quotes the line.

* `hitl_every_decision_logged`: "Every decision is logged" (`src/README.md:3`); a tool
  that raises ends the process before its decision is recorded.
* `pregel_partial_writes`: pending writes are those of nodes that "completed
  successfully"; a node whose branch function raises after its state was written is
  taken for done.
* `interrupts_stale_answer`: resume values match interrupts "based on their order in the
  node"; a bare answer stays with the checkpoint after it was taken, and answers the next
  question once more when the node has failed in between.
* `agent_sorry`: with an odd recursion limit the agent says it needs more steps, and the
  invocation raises all the same.
* `call_resolved_early`: the chained future of `_call` is to "ensure commit() callback is
  called before the returned future is resolved"; if the called task ends between the two
  callbacks that `_call` adds, the second runs at once in the caller's thread and the
  first is still under way in the worker's.

Met while modelling, reproduced on the models but without a run of their own:

* *Loop.* With `exit`, a step refused for two values of one key is saved half applied with
  its triggers marked as seen; a resume finds nothing due and returns as if the graph had
  ended. `NamedBarrierValue.checkpoint` and `Topic.checkpoint` hand out live sets and
  lists, so a slow save stores names of the next superstep, and after a crash the joined
  node is never triggered. Resuming goes past an interrupt nobody was shown where the run
  before died, reached its limit or stopped for interrupt_after.
  update_state as a joined node does not consume the barrier (`main.py:1787`). A refused
  bulk_update_state leaves its writes pending, and later invocations raise the same error.
  The *input* checkpoint is not waited for with `sync` (`main.py:2658`, `types.py:65`).
  `get_subgraphs(namespace=…)` shortens the namespace for later siblings
  (`main.py:947-969`).
* *Runner.* A failed task stops the tick before siblings that are done are committed; one
  worker and a task that calls another wait for each other; a caller that is retried calls
  again under the same id; a timeout leaves running tasks behind.
* *Interrupts.* Answering again after a failure goes to the next question; a retry policy
  shifts the counter; two tasks of which one has a RESUME accept a bare answer; a crash can
  lose a call's result while the question that rests on it was saved; a node with only
  RESUME writes is not done after a crash.
* *Savers.* SQL savers keep the older RESUME of a mixed commit, so a node that asked twice is
  saved as over with its first answer (`sqlite/__init__.py:455`) and the saver in memory with
  both; the shallow saver loses
  writes put ahead of an older checkpoint; `list(before=…)` without an id differs, and so
  does the order over namespaces; `adelete_thread` never calls setup; a synchronous put on
  the loop blocks it; an async SQLite call cancelled between execute and commit is
  committed by the next; the SQLite store's final COMMIT commits half a failed batch.
* *Set-up.* `SqliteStore.setup` cannot recover from a kill between ALTER TABLE and its
  INSERT; its docstring example (`sqlite/base.py:712-721`) fails on a default connection;
  `AsyncPostgresStore.setup` ignores `migration.condition`; its `abatch` takes a pool
  connection it does not use; cursors of shallow savers and Postgres stores take no lock in
  pipe mode.
* *Stores.* Half a batch when nothing rolls back; a batch of gets in SQLite refreshes all it
  reads once one of them asks, and nothing, whatever they ask, unless `refresh_on_read` is
  set (`sqlite/base.py:254`; "defaults to `True`" and "can be overridden per-operation",
  `store/base/__init__.py:552`); Postgres keeps ttl_minutes as INT (`postgres/base.py:82`)
  while a put takes its deadline from the float, so an item of 0.1 minutes that is read
  expires at once (the tests make the column a FLOAT, `test_store.py:54`); a stopped sweeper started again may leave the first running; SQL namespaces match
  siblings, letter case and `*` literally; lists read differently; searches differ in text
  order, in missing fields, in pages filled from a limited set, in stale vectors and in
  equal texts.
* *Agent.* A wrapped ToolNode with `handle_tool_errors=True` turns an interrupt into an
  error message; `llm_input_messages` stay from an earlier round; rejecting a
  return_direct call in the hook ends the run.
* *Graphs.* Two joins whose names joined by `+` coincide share a channel; calls that raise
  leave nodes and branches behind; interrupt names are not validated with `"*"`; the order
  of two schemas decides whether a conflict raises; the first `Overwrite` of an empty
  reducer is stored raw; deferred nodes run beside Sends. In a migration the pending
  writes of finished nodes are lost, and a plain value cannot become a deferred one.
* *RemoteGraph*, which "behaves the same way as a `Graph`" (`remote.py:115`). In a node that
  is streamed it hands chunks of subgraphs to a caller that did not ask for them
  (`:736`); with `subgraphs` its namespaces lack the caller's (`:781`); without a mode it
  streams updates where a nested graph streams values; the first interrupt ends the run in a
  node, and an error or a second interrupt after it is lost; `invoke` of a root graph knows
  the interrupts of the last chunk only. Custom data goes to the innermost stream alone in
  place, and to both remotely. With a list of modes and no subgraphs it yields the
  StreamPart itself, (event, data, id) (`:793`; so expects `test_remote_graph.py:569`),
  where `Pregel` yields (mode, data) (`main.py:3288`). In place, `astream` with `subgraphs` hides the subgraphs'
  values and updates from the stream above and `stream` does not (`main.py:2921`).
  `get_state` never sends the GET of its docstring; a run on an older checkpoint's config
  goes on from the newest (`:70`); a history's limit of 0 is 10.
* *Store methods.* `BaseStore.get` and `delete` turn a key into a string, those of the
  batched store do not.
* *SDK.* `wait` reconnects with its body; `runs.create` takes an empty thread_id for none;
  dotted labels are refused by some methods only; empty metadata cannot be sent. The
  synchronous `wait` raises nothing, whatever `raise_error` says (`client.py:5972`,
  `:6059`); `WaitsAgree` allows for it.
* *RiskLens.* Deleting a directory is "simulated" (`README.md:48`) but calls
  `shutil.rmtree` (`hitl_agent_demo.py:729`); `no_hitl` still asks in clean_system (`:766`,
  against `README.md:41`); the planner prompt demands the name `clean_system` (981–986)
  while the dispatcher compares with `"clean system"` (1231).

## 7. What is not modelled

* Values. Channel values, tool outputs and messages are opaque; reducers are taken to
  keep what they are given. Serialisation is left out.
* Of the loop: savers that raise, subgraphs, update_state as the input, as END, as a copy,
  in bulk or beside a running invocation, time travel, the node cache, streaming modes,
  and the asyncio twin of the loop and of the runner (`atick`).
* Of the builder: schemas and state keys, subgraphs, drawing. Of the functional API:
  `entrypoint` and its previous value.
* Of savers and stores: the filters of `list`, several namespaces of a thread, direct
  `abatch` calls, embedding models.
* Of the agent: injected arguments, Commands with goto or to a parent graph,
  ValidationNode. Of the SDK: headers, params and values of arguments; the JavaScript
  SDK. Of RemoteGraph: drawing, headers, the values of a config.
* Whole components: the node cache, the CLI (validates a configuration and writes Docker
  files), serialisation, the analytics scripts (read a log and plot it), the weather
  scripts and notebooks (samples).

## 8. Plan

Order of the work still worth doing, most important first.

1. Proofs: both refinements of the loop next to an update_state without a crash;
   `DatabaseSetup` (a recorded migration was run) for any list of migrations.
2. Models: update_state in its other forms, savers that raise, several namespaces of a
   thread, the asyncio runner, then the node cache and `entrypoint`.
3. The premises of section 3 that a fix of the code would lift: each has a formula that
   says what the fix must restore.
