------------------------------ MODULE PregelLoop ------------------------------
(***************************************************************************)
(* One conversation (thread) of a compiled graph: the synchronous Pregel   *)
(* loop of src/libs/langgraph/langgraph/pregel/{main,_loop,_runner}.py,    *)
(* the threads that run its tasks, the background executor that saves its  *)
(* checkpoints and pending writes, and the saver they go to (InMemorySaver *)
(* in src/libs/checkpoint), across invocations, task failures, retries,    *)
(* interrupts and crashes of the process. The saver survives a crash.      *)
(***************************************************************************)
EXTENDS PregelAlgo

CONSTANTS
    Routes,           \* [Nodes -> SUBSET SUBSET Channels]: what a completed
                      \* attempt of a node may have written
    Partials,         \* [Nodes -> SUBSET SUBSET Channels]: what a failing
                      \* attempt may have written before it raised
    Durability,       \* "sync", "async" or "exit"
    InterruptBefore,  \* SUBSET Nodes
    InterruptAfter,   \* SUBSET Nodes
    MaxAttempts,      \* RetryPolicy.max_attempts (1: no retry policy)
    RecursionLimit,   \* config["recursion_limit"]
    MaxInputs, MaxResumes,   \* bounds: invocations with an input, with None
    MaxUpdates,              \* bound: calls of update_state
    MaxFailures,             \* bound: attempts of a node that raise
    MaxCrashes               \* bound: crashes of the process

ASSUME LoopAssumption ==
    /\ Routes \in [Nodes -> SUBSET SUBSET Channels]
    /\ Partials \in [Nodes -> SUBSET SUBSET Channels]
    /\ Durability \in {"sync", "async", "exit"}
    /\ InterruptBefore \subseteq Nodes /\ InterruptAfter \subseteq Nodes
    /\ {MaxAttempts, RecursionLimit} \subseteq Nat \ {0}
    /\ {MaxInputs, MaxResumes, MaxUpdates, MaxFailures, MaxCrashes} \subseteq Nat

Error == "__error__"          \* markers among the writes of a task
NoWrites == "__no_writes__"
ASSUME MarkerAssumption == {Error, NoWrites} \cap Channels = {}

VARIABLES
    pc,        \* where the thread in Pregel.stream, or in update_state, is
    cp,        \* self.checkpoint, self.channels and the metadata step
    upd,       \* self.updated_channels
    tasks,     \* self.tasks
    writes,    \* task.writes of every task; before the first tick, the pending
               \* writes of the loaded checkpoint (checkpoint_pending_writes)
    running,   \* [Nodes -> Nat]: attempt a task's future is in, 0 when in none
    failed,    \* tasks whose future holds an exception
    stop,      \* self.stop
    puts,      \* checkpoint saves submitted and not done
    wputs,     \* put_writes calls submitted and not done
    saved,     \* InMemorySaver.storage: id -> checkpoint without its values
    blobs,     \* InMemorySaver.blobs: <<channel, version>> -> value
    pwrites,   \* InMemorySaver.writes: <<id, node>> -> writes
    lastId,    \* the newest checkpoint id given out (uuid6: ids grow)
    tries,     \* ghost: attempts of each node at checkpoint cp.id so far
    taken,     \* ghost: id -> channel values and due nodes at its creation
    resumed,   \* ghost: id this invocation resumed at, 0 when it has an input
    budget     \* what the bounds still allow

process == <<pc, cp, upd, tasks, writes, running, failed, stop>>
background == <<puts, wputs>>
store == <<saved, blobs, pwrites>>
ghosts == <<tries, taken, resumed>>
vars == <<process, background, store, lastId, ghosts, budget>>

-----------------------------------------------------------------------------
(* Tasks and writes                                                        *)

Write(chans, try) == {[chan |-> c, try |-> try] : c \in chans}

Chans(ws) == {w.chan : w \in ws}

\* commit: what put_writes is given for a task that returned or raised.
Committed(ws) == IF ws = {} THEN Write({NoWrites}, 1) ELSE ws

\* _match_writes drops the ERROR entries: such a task has nothing yet.
Matched(ws) == {w \in ws : w.chan # Error}

NoTasks == [n \in Nodes |-> {}]
Idle == [n \in Nodes |-> 0]

\* What each channel receives from "nodes", whose tasks ran at checkpoint "id".
Received(nodes, ws, id) ==
    [c \in Channels |->
        UNION {{[node |-> n, at |-> id, try |-> w.try] :
                   w \in {v \in ws[n] : v.chan = c}} : n \in nodes}]

FromInput(id) ==
    [c \in Channels |-> IF c = InputChannel
                        THEN {[node |-> Input, at |-> id, try |-> 1]} ELSE {}]

-----------------------------------------------------------------------------
(* The saver                                                               *)

With(f, x, v) == [y \in DOMAIN f \cup {x} |-> IF y = x THEN v ELSE f[y]]

\* _load_blobs: a channel without a blob for its version is empty.
LoadBlobs(ver) ==
    [c \in Channels |-> IF <<c, ver[c]>> \in DOMAIN blobs
                        THEN blobs[<<c, ver[c]>>] ELSE {}]

SavedState(id) ==
    [ver |-> saved[id].ver, seen |-> saved[id].seen, seenI |-> saved[id].seenI,
     val |-> LoadBlobs(saved[id].ver)]

\* get_tuple without a checkpoint id: the newest checkpoint, or an empty one.
NewestId == IF DOMAIN saved = {} THEN 0 ELSE Max(DOMAIN saved)
NewestState == IF DOMAIN saved = {} THEN EmptyState ELSE SavedState(NewestId)
NewestStep == IF DOMAIN saved = {} THEN -2 ELSE saved[NewestId].step

PendingWithErrors(id) ==           \* mutant: an error counts as a result
    [n \in Nodes |-> IF <<id, n>> \in DOMAIN pwrites
                     THEN pwrites[<<id, n>>] ELSE {}]

ForgetPendingWrites(id) == NoTasks   \* mutant: pending writes are not loaded

PendingWrites(id) ==
    [n \in Nodes |-> IF <<id, n>> \in DOMAIN pwrites
                     THEN Matched(pwrites[<<id, n>>]) ELSE {}]

\* InMemorySaver.put_writes: what is stored at a position already stays, longer
\* new lists add at the end, and ERROR has a position of its own.
Merges(old, new) ==
    LET kept == Matched(old)
        fresh == Matched(new)
        room == Cardinality(fresh) - Cardinality(kept)
        errors == IF fresh = new THEN old \ kept ELSE new \ fresh
    IN  {kept \cup added \cup errors :
            added \in {a \in SUBSET fresh :
                IF kept = {} THEN a = fresh
                ELSE Cardinality(a) = IF room > 0 THEN room ELSE 0}}

PutWrites(key, ws) ==
    \E merged \in IF key \in DOMAIN pwrites THEN Merges(pwrites[key], ws) ELSE {ws} :
        pwrites' = With(pwrites, key, merged)

\* InMemorySaver.put: the blobs of the channels that changed since the checkpoint
\* before, and the checkpoint without its values.
Put(p) ==
    LET keys == {<<c, p.state.ver[c]>> : c \in p.new}
    IN  /\ blobs' = [key \in DOMAIN blobs \cup keys |->
                        IF key \in keys THEN p.state.val[key[1]] ELSE blobs[key]]
        /\ saved' = With(saved, p.id,
               [parent |-> p.parent, step |-> p.step, src |-> p.src, upd |-> p.upd,
                ver |-> p.state.ver, seen |-> p.state.seen, seenI |-> p.state.seenI])

SaveBody(p) ==
    /\ Put(p)
    /\ UNCHANGED <<process, wputs, pwrites, lastId, ghosts, budget>>

SaveAnyOrder(p) ==      \* mutant: saves are not chained
    /\ p \in puts
    /\ puts' = puts \ {p}
    /\ SaveBody(p)

SaveNewestOnly(p) ==    \* mutant: a newer save replaces those still waiting
    /\ p \in puts
    /\ \A q \in puts : p.id >= q.id
    /\ puts' = {}
    /\ SaveBody(p)

\* _checkpointer_put_after_previous: a save waits for the one submitted before
\* it, so they are done in the order of their ids.
SaveCheckpoint(p) ==
    /\ p \in puts
    /\ \A q \in puts : p.id <= q.id
    /\ puts' = puts \ {p}
    /\ SaveBody(p)

SaveWrites(w) ==
    /\ w \in wputs
    /\ wputs' = wputs \ {w}
    /\ PutWrites(<<w.id, w.node>>, w.writes)
    /\ UNCHANGED <<process, puts, saved, blobs, lastId, ghosts, budget>>

-----------------------------------------------------------------------------
(* _put_checkpoint                                                         *)

Barriers(k) == {c \in Channels : Kind[c] = "barrier" /\ k.ver[c] > 0}

\* NamedBarrierValue.checkpoint() hands out the set the channel goes on adding
\* names to, and the saver serialises it when its thread gets to it: a save that
\* still waits follows the channel, until the channel is consumed (a new set).
Aliased(p, k, consumed) ==
    LET live == p.alias \ consumed
    IN  [p EXCEPT !.alias = live,
                  !.state.val = [c \in Channels |->
                      IF c \in live THEN k.val[c] ELSE p.state.val[c]]]

\* What get_state shows of a checkpoint, pending writes apart.
Snapshot(k) == [val |-> k.val, due |-> FullScan(k)]

\* get_new_channel_versions
NewVersions(old, ver) == {c \in Channels : ver[c] > old[c]}

\* What the saver is given to save: the values of the channels that changed
\* since "old", the state of the checkpoint with id "parent".
Submission(ck, parent, old, u) ==
    [id |-> ck.id, parent |-> parent, step |-> ck.step, src |-> ck.src, upd |-> u,
     state |-> ck.state, new |-> NewVersions(old.ver, ck.state.ver),
     alias |-> Barriers(ck.state)]

\* The checkpoint that follows the one with the given id and step, whose state
\* was "old": created and, unless durability is "exit", submitted to be saved
\* after the saves before it.
PutCheckpoint(id, step, old, k, consumed, src, u) ==
    LET new == [id |-> lastId + 1, step |-> step + 1, src |-> src, state |-> k]
    IN  /\ cp' = new
        /\ upd' = u
        /\ lastId' = lastId + 1
        /\ puts' = {Aliased(p, k, consumed) : p \in puts}
                   \cup IF Durability = "exit" THEN {} ELSE {Submission(new, id, old, u)}
        /\ taken' = With(taken, lastId + 1, Snapshot(k))
        /\ tries' = Idle

-----------------------------------------------------------------------------
(* __enter__ and _first                                                    *)

\* self.stop = self.step + recursion_limit + 1, where self.step follows "step".
Begin(step) ==
    /\ pc = "off"
    /\ pc' = "tick"
    /\ tasks' = {} /\ running' = Idle /\ failed' = {}
    /\ stop' = step + 1 + RecursionLimit + 1

\* invoke(input): the tasks the newest checkpoint was about to run are dropped,
\* and the input checkpoint is created and submitted. Pending writes stay behind:
\* the ids of the tasks to come differ.
InvokeWithInput ==
    /\ budget.inputs > 0
    /\ Begin(NewestStep)
    /\ LET dropped == FullScan(NewestState)
           received == FromInput(NewestId)
       IN  PutCheckpoint(NewestId, NewestStep, NewestState,
                         Apply(NewestState, dropped, received),
                         Consumed(NewestState, dropped), "input",
                         UpdatedChannels(NewestState, dropped, received))
    /\ writes' = NoTasks
    /\ budget' = [budget EXCEPT !.inputs = @ - 1]
    /\ resumed' = 0
    /\ UNCHANGED <<wputs, store>>

\* invoke(None): proceed from the newest checkpoint, past its interrupt.
Resume ==
    /\ budget.resumes > 0
    /\ DOMAIN saved # {}
    /\ Begin(NewestStep)
    /\ cp' = [id |-> NewestId, step |-> NewestStep, src |-> saved[NewestId].src,
              state |-> [NewestState EXCEPT !.seenI = NewestState.ver]]
    /\ upd' = saved[NewestId].upd
    /\ writes' = PendingWrites(NewestId)
    /\ tries' = IF cp.id = NewestId THEN tries ELSE Idle
    /\ budget' = [budget EXCEPT !.resumes = @ - 1]
    /\ resumed' = NewestId
    /\ UNCHANGED <<background, store, lastId, taken>>

-----------------------------------------------------------------------------
(* tick                                                                    *)

Due == PrepareNextTasks(cp.state, upd)

\* Where the thread leaves the "with" block: _suppress_interrupt has something
\* to do with durability "exit" only.
WayOut == IF Durability = "exit" THEN "leave" ELSE "exit"

\* Common to the ways out of tick and of the runner.
Leave(ts) ==
    /\ pc' = WayOut
    /\ tasks' = ts
    /\ UNCHANGED <<cp, upd, writes, running, failed, stop, background, store,
                   lastId, ghosts, budget>>

OutOfSteps ==
    /\ pc = "tick" /\ cp.step + 1 > stop
    /\ Leave({})

Done ==
    /\ pc = "tick" /\ cp.step + 1 <= stop
    /\ Due = {}
    /\ Leave({})

StopBefore ==
    /\ pc = "tick" /\ cp.step + 1 <= stop
    /\ ShouldInterrupt(cp.state, InterruptBefore, Due)
    /\ Leave({})

Tick ==
    /\ pc = "tick" /\ cp.step + 1 <= stop
    /\ Due # {}
    /\ ~ShouldInterrupt(cp.state, InterruptBefore, Due)
    /\ pc' = "run"
    /\ tasks' = Due
    /\ UNCHANGED <<cp, upd, writes, running, failed, stop, background, store,
                   lastId, ghosts, budget>>

-----------------------------------------------------------------------------
(* PregelRunner.tick and the threads of the tasks                          *)

\* run_with_retry: an attempt begins with task.writes.clear().
Attempt(n, k) ==
    /\ running' = [running EXCEPT ![n] = k]
    /\ writes' = [writes EXCEPT ![n] = {}]
    /\ tries' = [tries EXCEPT ![n] = @ + 1]
    /\ UNCHANGED <<pc, cp, upd, tasks, failed, stop, background, store,
                   lastId, taken, resumed>>

\* A thread of the pool takes up a task that has no writes.
StartTask(n) ==
    /\ pc = "run"
    /\ n \in tasks /\ writes[n] = {} /\ running[n] = 0
    /\ Attempt(n, 1)
    /\ UNCHANGED budget

RetryOnceMore(n) ==     \* mutant: off by one in the attempts allowed
    /\ running[n] \in 1 .. MaxAttempts
    /\ budget.failures > 0
    /\ Attempt(n, running[n] + 1)
    /\ budget' = [budget EXCEPT !.failures = @ - 1]

\* An attempt raises and the retry policy allows another .
RetryTask(n) ==
    /\ running[n] \in 1 .. MaxAttempts - 1
    /\ budget.failures > 0
    /\ Attempt(n, running[n] + 1)
    /\ budget' = [budget EXCEPT !.failures = @ - 1]

CommitToSaved(n, ws) ==  \* mutant: put_writes with the id of the last saved checkpoint
    /\ writes' = [writes EXCEPT ![n] = ws]
    /\ running' = [running EXCEPT ![n] = 0]
    /\ \/ /\ Durability # "exit"
          /\ wputs' = wputs \cup {[id |-> NewestId, node |-> n, writes |-> ws]}
       \/ (Durability = "exit" \/ pc = "exit") /\ UNCHANGED wputs
    /\ UNCHANGED <<pc, cp, upd, tasks, stop, puts, store, lastId, ghosts>>

\* PregelRunner.commit, the done callback of the future. Once the thread in
\* stream has left the block, the executor it would submit put_writes to may
\* have shut down: the callback runs after the waiters of the future are woken.
Commit(n, ws) ==
    /\ writes' = [writes EXCEPT ![n] = ws]
    /\ running' = [running EXCEPT ![n] = 0]
    /\ \/ /\ Durability # "exit"
          /\ wputs' = wputs \cup {[id |-> cp.id, node |-> n, writes |-> ws]}
       \/ (Durability = "exit" \/ pc = "exit") /\ UNCHANGED wputs
    /\ UNCHANGED <<pc, cp, upd, tasks, stop, puts, store, lastId, ghosts>>

FinishTask(n) ==
    /\ running[n] > 0
    /\ \E route \in Routes[n] : Commit(n, Committed(writes[n] \cup Write(route, tries[n])))
    /\ UNCHANGED <<failed, budget>>

FailTask(n) ==
    /\ running[n] > 0
    /\ budget.failures > 0
    /\ \E part \in Partials[n] : Commit(n, writes[n] \cup Write(part \cup {Error}, tries[n]))
    /\ failed' = failed \cup {n}
    /\ budget' = [budget EXCEPT !.failures = @ - 1]

\* _panic_or_proceed: the failure is raised; tasks not started are cancelled.
Panic ==
    /\ pc = "run" /\ failed # {}
    /\ Leave(tasks)

-----------------------------------------------------------------------------
(* after_tick                                                              *)

AllWritten ==
    /\ pc = "run" /\ failed = {} /\ running = Idle
    /\ \A n \in tasks : writes[n] # {}

\* Two writers of a LastValue channel: apply_writes raises InvalidUpdateError on
\* its way through the channels, and leaves the checkpoint in memory half done.
RefuseWrites ==
    /\ AllWritten
    /\ LET received == Received(tasks, writes, cp.id)
           refused == {c \in Channels : Kind[c] = "last" /\ Cardinality(received[c]) > 1}
       IN  /\ Conflict(received)
           /\ \E done \in SUBSET {c \in Channels \ refused : received[c] # {}} :
                 LET k == HalfApply(cp.state, tasks, received, done)
                 IN  /\ cp' = [cp EXCEPT !.state = k]
                     /\ puts' = {Aliased(p, k, Consumed(cp.state, tasks)) : p \in puts}
    /\ pc' = WayOut
    /\ UNCHANGED <<upd, tasks, writes, running, failed, stop, wputs, store, lastId,
                   ghosts, budget>>

AfterTick ==
    /\ AllWritten
    /\ LET received == Received(tasks, writes, cp.id)
           k == Apply(cp.state, tasks, received)
       IN  /\ ~Conflict(received)
           /\ PutCheckpoint(cp.id, cp.step, cp.state, k, Consumed(cp.state, tasks),
                  "loop", UpdatedChannels(cp.state, tasks, received))
           /\ pc' = CASE ShouldInterrupt(k, InterruptAfter, tasks) -> WayOut
                      [] OTHER -> IF Durability = "sync" THEN "wait" ELSE "tick"
    /\ writes' = NoTasks
    /\ tasks' = {}
    /\ UNCHANGED <<running, failed, stop, wputs, store, resumed, budget>>

DoNotAwaitSave ==       \* mutant: the future is not waited for
    /\ pc = "wait"
    /\ pc' = "tick"
    /\ UNCHANGED <<cp, upd, tasks, writes, running, failed, stop, background,
                   store, lastId, ghosts, budget>>

\* loop._put_checkpoint_fut.result(), with durability "sync" only.
AwaitSave ==
    /\ pc = "wait" /\ puts = {}
    /\ pc' = "tick"
    /\ UNCHANGED <<cp, upd, tasks, writes, running, failed, stop, background,
                   store, lastId, ghosts, budget>>

-----------------------------------------------------------------------------
(* __exit__, and the end of the process                                    *)

\* _put_pending_writes
PendingSaves ==
    {[id |-> cp.id, node |-> n, writes |-> writes[n]] :
        n \in {m \in Nodes : writes[m] # {}}}

LeaveOnSuccess ==       \* mutant: the checkpoint is saved only if no task failed
    /\ pc = "leave"
    /\ pc' = "exit"
    /\ puts' = puts \cup IF cp.id = NewestId \/ failed # {} THEN {}
                         ELSE {Submission(cp, NewestId, NewestState, upd)}
    /\ wputs' = wputs \cup PendingSaves
    /\ UNCHANGED <<cp, upd, tasks, writes, running, failed, stop, store, lastId,
                   ghosts, budget>>

\* _suppress_interrupt with durability "exit": the checkpoint in hand is saved,
\* unless it is the one this invocation found, and with it the pending writes.
LeaveBlock ==
    /\ pc = "leave"
    /\ pc' = "exit"
    /\ puts' = puts \cup IF cp.id = NewestId THEN {}
                         ELSE {Submission(cp, NewestId, NewestState, upd)}
    /\ wputs' = wputs \cup PendingSaves
    /\ UNCHANGED <<cp, upd, tasks, writes, running, failed, stop, store, lastId,
                   ghosts, budget>>

Gone ==
    /\ pc' = "off"
    /\ tasks' = {} /\ writes' = NoTasks /\ running' = Idle /\ failed' = {}
    /\ UNCHANGED <<cp, upd, stop, store, lastId, ghosts>>

ReturnOnSuccess ==      \* mutant: a failed task keeps the executor waiting
    /\ pc = "exit"
    /\ running = Idle /\ puts = {} /\ wputs = {} /\ failed = {}
    /\ Gone
    /\ UNCHANGED <<background, budget>>

\* BackgroundExecutor.__exit__ waits for every future and then returns.
Return ==
    /\ pc = "exit"
    /\ running = Idle /\ puts = {} /\ wputs = {}
    /\ Gone
    /\ UNCHANGED <<background, budget>>

Crash ==
    /\ pc # "off"
    /\ budget.crashes > 0
    /\ Gone
    /\ puts' = {} /\ wputs' = {}
    /\ budget' = [budget EXCEPT !.crashes = @ - 1]

-----------------------------------------------------------------------------
(* update_state(values, as_node), while no invocation runs                 *)

\* The writers of "n" are run on the values, and the writes are saved: as those of
\* the task when n is due at the newest checkpoint, under an id no task will ever
\* have when it is not.
UpdateWrites(n) ==
    /\ pc = "off" /\ budget.updates > 0
    /\ pc' = "update"
    /\ tasks' = {n}
    /\ \E route \in Routes[n] :
         /\ writes' = [NoTasks EXCEPT ![n] = Write(route, 0)]
         /\ IF route # {} /\ DOMAIN saved # {} /\ n \in FullScan(NewestState)
            THEN PutWrites(<<NewestId, n>>, Write(route, 0))
            ELSE UNCHANGED pwrites
    /\ budget' = [budget EXCEPT !.updates = @ - 1]
    /\ UNCHANGED <<cp, upd, running, failed, stop, background, saved, blobs, lastId,
                   ghosts>>

\* They are applied, and a checkpoint that names no updated channels is saved.
UpdatePut ==
    /\ pc = "update"
    /\ pc' = "off"
    /\ \E n \in tasks :
         LET k == Apply(NewestState, {AsNode}, Received({n}, writes, NewestId))
             step == IF DOMAIN saved = {} THEN 0 ELSE NewestStep + 1
         IN  /\ Put(Submission([id |-> lastId + 1, step |-> step, src |-> "update",
                                state |-> k], NewestId, NewestState, {}))
             /\ taken' = With(taken, lastId + 1, Snapshot(k))
    /\ lastId' = lastId + 1
    /\ tasks' = {} /\ writes' = NoTasks
    /\ UNCHANGED <<cp, upd, running, failed, stop, background, pwrites, tries, resumed,
                   budget>>

-----------------------------------------------------------------------------

Init ==
    /\ pc = "off"
    /\ cp = [id |-> 0, step |-> -2, src |-> "none", state |-> EmptyState]
    /\ upd = {} /\ tasks = {} /\ writes = NoTasks
    /\ running = Idle /\ failed = {} /\ stop = 0
    /\ puts = {} /\ wputs = {}
    /\ saved = <<>> /\ blobs = <<>> /\ pwrites = <<>>
    /\ lastId = 0
    /\ tries = Idle /\ taken = <<>> /\ resumed = 0
    /\ budget = [inputs |-> MaxInputs, resumes |-> MaxResumes, updates |-> MaxUpdates,
                 failures |-> MaxFailures, crashes |-> MaxCrashes]

Loop == OutOfSteps \/ Done \/ StopBefore \/ Tick \/ Panic \/ RefuseWrites
        \/ AfterTick \/ AwaitSave \/ LeaveBlock \/ Return

Task(n) == StartTask(n) \/ RetryTask(n) \/ FinishTask(n) \/ FailTask(n)

Next ==
    \/ InvokeWithInput \/ Resume
    \/ Loop
    \/ \E n \in Nodes : UpdateWrites(n)
    \/ UpdatePut
    \/ \E n \in Nodes : Task(n)
    \/ \E p \in puts : SaveCheckpoint(p)
    \/ \E w \in wputs : SaveWrites(w)
    \/ Crash

Spec == Init /\ [][Next]_vars

\* The threads of the process and of the pool keep running, tasks return, and
\* the saver answers. (UpdatePut, which pc = "update" always enables, is named by
\* its effect on pc.)
Fairness ==
    /\ WF_vars(Loop)
    /\ WF_pc(pc = "update" /\ pc' = "off")
    /\ \A n \in Nodes : WF_vars(Task(n))
    /\ WF_vars(\E p \in puts : SaveCheckpoint(p))
    /\ WF_vars(\E w \in wputs : SaveWrites(w))

FairSpec == Spec /\ Fairness

-----------------------------------------------------------------------------
(* Properties                                                              *)

\* Every variable keeps the shape the loop and the saver give it.
TypeOK ==
    /\ pc \in {"off", "tick", "run", "wait", "leave", "exit", "update"}
    /\ upd \subseteq Channels /\ tasks \subseteq Nodes /\ failed \subseteq Nodes
    /\ running \in [Nodes -> 0 .. MaxAttempts]
    /\ cp.id \in 0 .. lastId
    /\ DOMAIN saved \subseteq 1 .. lastId

\* What the thread's newest saved checkpoint means moves by whole supersteps:
\* versions, the scheduling optimisation, saves in the background, pending
\* writes, crashes and resumes never show a reader of the saver anything else.
Durable == INSTANCE Supersteps WITH
    head <- NewestId, val <- NewestState.val, ready <- FullScan(NewestState),
    MaxTries <- MaxFailures + MaxResumes + 1

ImplementsSupersteps == Durable!Spec

\* The same as the caller of an invocation sees it, who reads the checkpoint in
\* hand while it runs and the saver's before and after: with durability "exit",
\* many supersteps go by between two saves, and none may be lost on the way out.
InHand == pc \notin {"off", "update"}

Live == INSTANCE Supersteps WITH
    head <- IF InHand THEN cp.id ELSE NewestId,
    val <- IF InHand THEN cp.state.val ELSE NewestState.val,
    ready <- FullScan(IF InHand THEN cp.state ELSE NewestState),
    MaxTries <- MaxFailures + MaxResumes + 1

CallerSeesSupersteps == Live!Spec

\* checkpoint/README.md: "we don't re-run the successful nodes". No task starts
\* while the saver holds, or is about to receive, the writes it completed with
\* at this checkpoint.
CompletedAt(n) ==
    \/ <<cp.id, n>> \in DOMAIN pwrites /\ Error \notin Chans(pwrites[<<cp.id, n>>])
    \/ \E w \in wputs : w.id = cp.id /\ w.node = n /\ Error \notin Chans(w.writes)

NoSuccessfulRerun ==
    [][\A n \in Nodes : (running[n] = 0 /\ running'[n] = 1) => ~CompletedAt(n)]_vars

\* The optimisation of prepare_next_tasks (only nodes subscribed to a channel
\* the last step updated are looked at) never misses a node a full scan of the
\* triggers would run, whether the list comes from memory or from the saver.
NoTriggeredNodeMissed == pc = "tick" => Due = FullScan(cp.state)

\* A saved checkpoint reconstructs, from blobs written by different saves, to the
\* values the channels had when it was created, with the same nodes due
\* ("Checkpoint is a snapshot of the graph state at a given point in time",
\* checkpoint/README.md).
SavedIsSnapshot == \A id \in DOMAIN saved : Snapshot(SavedState(id)) = taken[id]

\* checkpoint/README.md: pending writes are kept "so that whenever we resume graph
\* execution from that superstep we don't re-run the successful nodes". Those of
\* the newest checkpoint are of nodes a resume finds due there, and so takes over.
PendingAreDue ==
    \A n \in Nodes : <<NewestId, n>> \in DOMAIN pwrites => n \in FullScan(NewestState)

\* Saves are chained: a checkpoint in the saver has its whole history there.
HistorySaved ==
    \A id \in DOMAIN saved : saved[id].parent \in DOMAIN saved \cup {0}

\* Durability "sync": tasks run only once the checkpoint a superstep left is in
\* the saver, so that a crash never takes a finished superstep with it. (The input
\* checkpoint is not waited for.)
SyncLoopDurable ==
    (Durability = "sync" /\ pc = "run" /\ cp.src = "loop")
        => cp.id \in DOMAIN saved

\* interrupt_before: "Nodes to interrupt before" (Pregel.stream). No invocation goes
\* on into a node in the list: one with an input stops in front of it, and so does
\* one that has made a step. It runs only in an invocation that resumed at the
\* checkpoint it is due at, where the invocation before had returned, or died.
InterruptStops ==
    [][\A n \in InterruptBefore :
        (running[n] = 0 /\ running'[n] = 1) => cp.id = resumed]_vars

\* checkpoint/README.md: writes are kept "from any other nodes that completed
\* successfully". A task that is taken for done has completed.
DoneMeansCompleted ==
    pc = "run" => \A n \in tasks \ failed :
        (running[n] = 0 /\ writes[n] # {})
            => \E route \in Routes[n] : Chans(writes[n]) = Chans(Committed(Write(route, 1)))

\* Every invocation returns, or its process dies.
Returns == pc # "off" ~> pc = "off"
=============================================================================
