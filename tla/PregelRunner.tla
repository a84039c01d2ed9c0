---------------------------- MODULE PregelRunner ----------------------------
(***************************************************************************)
(* One call of PregelRunner.tick (src/libs/langgraph/langgraph/pregel/      *)
(* _runner.py): the thread that schedules the tasks of a superstep and waits *)
(* for them, the pool of the BackgroundExecutor they run in, the done       *)
(* callbacks of their futures, tasks called by tasks, the waiter that wakes *)
(* the thread when there is output to stream, and the step timeout.         *)
(***************************************************************************)
EXTENDS Naturals, FiniteSets, Sequences

CONSTANT Setups       \* what tick may be called with

\* tasks: those of the superstep that have no writes yet; callers: those that call
\* another task; workers: threads of the pool (config["max_concurrency"]); waiter:
\* output is streamed while tasks run (get_waiter is given); timeout: step_timeout is
\* set; attempts: RetryPolicy.max_attempts of the callers; failures: bound on the
\* attempts and called tasks that raise; output: bound on the items tasks write to
\* the stream while running; stuck: a task may run for ever.

\* What tick is called with: finitely many tasks, some of which call others, and at
\* least one attempt. (The name "waiter" is the model's, not a task's.)
SetupsOK ==
    \A s \in Setups :
      /\ IsFiniteSet(s.tasks) /\ "waiter" \notin s.tasks
      /\ s.callers \subseteq s.tasks
      /\ s.attempts \in Nat \ {0}

VARIABLES
    setup,     \* the member of Setups this call is made with
    pc,        \* where tick is
    todo,      \* tasks it has not submitted yet
    dict,      \* the keys of FuturesDict
    watch,     \* the futures concurrent.futures.wait was called with
    counter, event, done,   \* FuturesDict.counter, .event, .done
    fut,       \* [Futures -> state of the future]
    callback,  \* [Futures -> what is left of on_done]
    queue,     \* work items the pool has not taken up
    attempt,   \* [Callers -> attempt run_with_retry is in]
    call,      \* [Callers -> what the attempt has done about its call]
    stream,    \* the stream's queue has items
    expired,   \* step_timeout has passed
    outcome,   \* how tick ended
    budget     \* what the bounds still allow

control == <<setup, pc, todo, dict, watch, outcome>>
shared == <<counter, event, done>>
threads == <<fut, callback, queue, attempt, call>>
vars == <<control, shared, threads, stream, expired, budget>>

Callers == setup.callers
MaxAttempts == setup.attempts

Waiter == <<"waiter", 0>>
Called(t, k) == <<t, k>>           \* the task that attempt k of t calls
Top == {<<t, 0>> : t \in setup.tasks}
Kids == Callers \X (1 .. MaxAttempts)
Futures == Top \cup Kids \cup {Waiter}

Ended(f) == fut[f] \in {"ok", "error", "interrupt", "cancelled"}
Inline == {f \in Top : fut[f] = "inline"}
Busy == {f \in Futures : fut[f] = "running"}
Kin(f) == f \in Kids              \* its exceptions go to its caller (SKIP_RERAISE_SET)

Init ==
    /\ setup \in Setups
    /\ pc = "enter" /\ todo = Top
    /\ dict = {} /\ watch = {} /\ counter = 0 /\ event = FALSE /\ done = {}
    /\ fut = [f \in Futures |-> "none"]
    /\ callback = [f \in Futures |-> "none"]
    /\ queue = <<>>
    /\ attempt = [t \in Callers |-> 1] /\ call = [t \in Callers |-> "no"]
    /\ stream \in BOOLEAN
    /\ expired = FALSE /\ outcome = "none"
    /\ budget = [failures |-> setup.failures, output |-> setup.output]

-----------------------------------------------------------------------------
(* FuturesDict                                                             *)

\* submit of the BackgroundExecutor.
Submit(f) ==
    /\ fut' = [fut EXCEPT ![f] = "queued"]
    /\ queue' = Append(queue, f)

\* FuturesDict.__setitem__: on_done is added to the future.
SetItem(f) ==
    /\ dict' = dict \cup {f}
    /\ event' = FALSE /\ counter' = counter + 1
    /\ callback' = [callback EXCEPT ![f] = "commit"]

\* _should_stop_others
StopOthers(fs) == \E f \in fs : fut[f] = "error" /\ ~Kin(f)

\* on_done, first half: commit saves the writes, or the error, and streams them.
Commit(f) ==
    /\ callback[f] = "commit" /\ Ended(f)
    /\ callback' = [callback EXCEPT ![f] = "count"]
    /\ stream' = TRUE
    /\ UNCHANGED <<control, shared, fut, queue, attempt, call, expired, budget>>

CountBefore(f) ==       \* mutant: the counter is looked at before it is decremented
    /\ callback[f] = "count"
    /\ callback' = [callback EXCEPT ![f] = "over"]
    /\ done' = done \cup {f}
    /\ counter' = counter - 1
    /\ event' = (event \/ counter = 0 \/ StopOthers(done \cup {f}))
    /\ UNCHANGED <<control, fut, queue, attempt, call, stream, expired, budget>>

\* on_done, second half, under the lock.
Count(f) ==
    /\ callback[f] = "count"
    /\ callback' = [callback EXCEPT ![f] = "over"]
    /\ done' = done \cup {f}
    /\ counter' = counter - 1
    /\ event' = (event \/ counter = 1 \/ StopOthers(done \cup {f}))
    /\ UNCHANGED <<control, fut, queue, attempt, call, stream, expired, budget>>

-----------------------------------------------------------------------------
(* The threads of the pool, and the tasks                                  *)

\* The pool takes work up in the order it was submitted; cancelled futures are
\* dropped.
Take ==
    /\ queue # <<>>
    /\ queue' = Tail(queue)
    /\ LET f == Head(queue)
       IN  \/ /\ fut[f] = "queued" /\ Cardinality(Busy) < setup.workers
              /\ fut' = [fut EXCEPT ![f] = "running"]
           \/ fut[f] = "cancelled" /\ UNCHANGED fut
    /\ UNCHANGED <<control, shared, callback, attempt, call, stream, expired, budget>>

Running(f) == fut[f] \in {"running", "inline"}

\* The caller is inside _call, or waits for the result.
Held(f) ==
    /\ f[1] \in Callers /\ f[2] = 0
    /\ call[f[1]] \in {"submitted", "listed", "committing", "waiting"}

Output(f) ==
    /\ f \in Top \cup Kids /\ Running(f) /\ budget.output > 0
    /\ stream' = TRUE
    /\ budget' = [budget EXCEPT !.output = @ - 1]
    /\ UNCHANGED <<control, shared, threads, expired>>

\* _call: the attempt's call gets an index of its own, so no task is there for it
\* yet; one is submitted.
Call(t) ==
    /\ Running(<<t, 0>>) /\ call[t] = "no"
    /\ call' = [call EXCEPT ![t] = "submitted"]
    /\ Submit(Called(t, attempt[t]))
    /\ UNCHANGED <<control, shared, callback, attempt, stream, expired, budget>>

\* Its future becomes a key of FuturesDict. If it has ended, on_done runs in the
\* caller's own thread.
Enlist(t) ==
    /\ call[t] = "submitted"
    /\ LET f == Called(t, attempt[t])
       IN  /\ call' = [call EXCEPT ![t] = IF Ended(f) THEN "committing" ELSE "listed"]
           /\ SetItem(f)
    /\ UNCHANGED <<setup, pc, todo, watch, outcome, done, fut, queue, attempt, stream,
                   expired, budget>>

\* chain_future adds a callback of its own. If the future has ended by now, the
\* callback runs at once and the future that _call returns is resolved.
Chain(t) ==
    /\ LET f == Called(t, attempt[t])
       IN  /\ \/ call[t] = "listed"
              \/ call[t] = "committing" /\ callback[f] = "over"
           /\ call' = [call EXCEPT ![t] = IF Ended(f) THEN "resolved" ELSE "chained"]
    /\ UNCHANGED <<control, shared, fut, callback, queue, attempt, stream, expired, budget>>

\* The attempt calls .result(), and holds its thread until there is one. (If the
\* future is resolved it has the result at once.)
Await(t) ==
    /\ Running(<<t, 0>>) /\ call[t] = "chained"
    /\ call' = [call EXCEPT ![t] = "waiting"]
    /\ UNCHANGED <<control, shared, fut, callback, queue, attempt, stream, expired, budget>>

ResultEarly(t) ==       \* mutant: the caller gets the future of the task itself
    /\ call[t] = "waiting"
    /\ Ended(Called(t, attempt[t]))
    /\ call' = [call EXCEPT ![t] = "answered"]
    /\ UNCHANGED <<control, shared, fut, callback, queue, attempt, stream, expired, budget>>

\* The callback chain_future added runs after on_done, in the thread that ended the
\* task, and the caller is woken.
Result(t) ==
    /\ call[t] = "waiting"
    /\ callback[Called(t, attempt[t])] = "over"
    /\ call' = [call EXCEPT ![t] = "answered"]
    /\ UNCHANGED <<control, shared, fut, callback, queue, attempt, stream, expired, budget>>

\* An attempt of a caller raises and is tried again; what it called runs on.
Retry(t) ==
    /\ Running(<<t, 0>>) /\ ~Held(<<t, 0>>)
    /\ attempt[t] < MaxAttempts /\ budget.failures > 0
    /\ attempt' = [attempt EXCEPT ![t] = @ + 1]
    /\ call' = [call EXCEPT ![t] = "no"]
    /\ budget' = [budget EXCEPT !.failures = @ - 1]
    /\ UNCHANGED <<control, shared, fut, callback, queue, stream, expired>>

Settles(f, how) ==
    /\ fut' = [fut EXCEPT ![f] = how]
    /\ UNCHANGED <<control, shared, callback, queue, attempt, call, stream, expired>>

\* A task returns (a caller may or may not have looked at the result), raises, or
\* is interrupted.
Finish(f) ==
    /\ f \in Top \cup Kids /\ fut[f] = "running" /\ ~Held(f)
    /\ \/ Settles(f, "ok") /\ UNCHANGED budget
       \/ Settles(f, "interrupt") /\ UNCHANGED budget
       \/ /\ budget.failures > 0
          /\ Settles(f, "error")
          /\ budget' = [budget EXCEPT !.failures = @ - 1]

\* stream.wait, in a thread of the pool.
WaiterEnds ==
    /\ fut[Waiter] = "running" /\ stream
    /\ Settles(Waiter, "ok") /\ UNCHANGED budget

-----------------------------------------------------------------------------
(* tick                                                                    *)

\* get_waiter: a waiter that is still live is used again.
GetWaiter ==
    IF fut[Waiter] \in {"queued", "running"}
    THEN UNCHANGED <<fut, queue>>
    ELSE /\ fut' = [fut EXCEPT ![Waiter] = "queued"]
         /\ queue' = Append(queue, Waiter)

Alone == Cardinality(Top) = 1 /\ ~setup.timeout /\ ~setup.waiter

\* The first yield, and the choice of the fast path.
Enter ==
    /\ pc = "enter"
    /\ stream' = FALSE
    /\ \/ /\ Alone
          /\ pc' = "inline" /\ todo' = {}
          /\ fut' = [f \in Futures |-> IF f \in Top THEN "inline" ELSE fut[f]]
          /\ UNCHANGED <<dict, queue>>
       \/ /\ ~Alone
          /\ pc' = "schedule" /\ UNCHANGED todo
          /\ \/ ~setup.waiter /\ UNCHANGED <<dict, fut, queue>>
             \/ setup.waiter /\ dict' = {Waiter} /\ GetWaiter
    /\ UNCHANGED <<setup, watch, outcome, shared, callback, attempt, call, expired, budget>>

\* A failure of the fast path is put among the futures done.
RaiseLater(f, how) == IF how = "ok" \/ dict = {} THEN {} ELSE {f}

\* The fast path ends: the task is committed in the thread itself. Without tasks
\* it called, tick is over; with some, its failure is raised when they are done.
InlineEnds(f) ==
    /\ pc = "inline" /\ f \in Inline /\ ~Held(f)
    /\ \E how \in {"ok", "error", "interrupt"} :
         /\ how = "error" => budget.failures > 0
         /\ budget' = [budget EXCEPT !.failures = @ - IF how = "error" THEN 1 ELSE 0]
         /\ fut' = [fut EXCEPT ![f] = how]
         /\ done' = done \cup RaiseLater(f, how)
         /\ outcome' = IF dict = {} THEN (IF how = "ok" THEN "ok" ELSE "raised") ELSE "none"
    /\ pc' = IF dict = {} THEN "over" ELSE "loop"
    /\ callback' = [callback EXCEPT ![f] = "over"]
    /\ stream' = TRUE
    /\ UNCHANGED <<setup, todo, dict, watch, counter, event, queue, attempt, call, expired>>

\* (Nothing tells a task that ended before it is listed from one that ended after.)
Schedule(f) ==
    /\ pc = "schedule" /\ f \in todo
    /\ todo' = todo \ {f}
    /\ Submit(f) /\ SetItem(f)
    /\ UNCHANGED <<setup, pc, watch, outcome, done, attempt, call, stream, expired, budget>>

\* while len(futures) > ...: wait is called with the futures there are now.
Wait ==
    /\ \/ pc = "schedule" /\ todo = {}
       \/ pc = "loop"
    /\ IF Cardinality(dict) > IF setup.waiter THEN 1 ELSE 0
       THEN pc' = "wait" /\ watch' = dict
       ELSE pc' = "event" /\ UNCHANGED watch
    /\ UNCHANGED <<setup, todo, dict, outcome, shared, threads, stream, expired, budget>>

\* Some are done: they are taken out, a waiter among them is replaced while others
\* are in flight, and the output is streamed unless a task failed.
Woken ==
    /\ pc = "wait"
    /\ LET over == {f \in watch : Ended(f)}
           again == Waiter \in over /\ watch # over
       IN  /\ over # {}
           /\ dict' = (dict \ over) \cup IF again THEN {Waiter} ELSE {}
           /\ IF again THEN GetWaiter ELSE UNCHANGED <<fut, queue>>
           /\ IF StopOthers(over)
              THEN pc' = "event" /\ UNCHANGED stream
              ELSE pc' = "loop" /\ stream' = FALSE
    /\ UNCHANGED <<setup, todo, watch, outcome, shared, callback, attempt, call, expired, budget>>

TimedOut ==
    /\ pc = "wait" /\ expired
    /\ \A f \in watch : ~Ended(f)
    /\ pc' = "event"
    /\ UNCHANGED <<setup, todo, dict, watch, outcome, shared, threads, stream, expired, budget>>

SkipEvent ==            \* mutant: the done callbacks are not waited for
    /\ pc = "event"
    /\ pc' = "panic" /\ stream' = FALSE
    /\ UNCHANGED <<setup, todo, dict, watch, outcome, shared, threads, expired, budget>>

\* futures.event.wait, with what is left of the timeout, and the last yield.
EventWait ==
    /\ pc = "event" /\ (event \/ expired)
    /\ pc' = "panic" /\ stream' = FALSE
    /\ UNCHANGED <<setup, todo, dict, watch, outcome, shared, threads, expired, budget>>

PanicSet == done \cup (dict \ {Waiter})
Raising == {f \in PanicSet : \/ fut[f] = "interrupt"
                             \/ fut[f] = "error" /\ ~Kin(f)}

Flight == {f \in PanicSet : ~Ended(f)}
Throwing == {f \in PanicSet : fut[f] \in {"error", "interrupt"}}

Judge(verdict) ==
    /\ pc = "panic"
    /\ pc' = "over"
    /\ outcome' = verdict
    /\ fut' = [f \in Futures |->
                 IF f \in Flight /\ fut[f] = "queued" THEN "cancelled" ELSE fut[f]]
    /\ UNCHANGED <<setup, todo, dict, watch, shared, callback, queue, attempt, call, stream,
                   expired, budget>>

PanicIfNothingDone ==   \* mutant: what is done is taken for the whole step
    Judge(IF Raising # {} THEN "raised"
          ELSE IF Flight # {} /\ PanicSet = Flight THEN "timeout" ELSE "ok")

\* _panic_or_proceed: the futures done are looked at in any order. One with an
\* exception, raised or not, cancels those in flight; only if there is none are
\* futures in flight a timeout.
Panic ==
    Judge(IF Raising # {} THEN "raised"
          ELSE IF Flight # {} /\ Throwing = {} THEN "timeout" ELSE "ok")

Expire ==
    /\ setup.timeout /\ ~expired /\ pc \in {"wait", "event"}
    /\ expired' = TRUE
    /\ UNCHANGED <<control, shared, threads, stream, budget>>

AllTasks == UNION {s.tasks : s \in Setups}
MostAttempts == CHOOSE n \in {s.attempts : s \in Setups} : \A s \in Setups : s.attempts <= n

Tick == Enter \/ Wait \/ Woken \/ TimedOut \/ EventWait \/ Panic
        \/ \E f \in Top : Schedule(f) \/ InlineEnds(f)

Thread(f) == Commit(f) \/ Count(f) \/ Output(f) \/ Finish(f)

Caller(t) == Call(t) \/ Enlist(t) \/ Chain(t) \/ Await(t) \/ Result(t) \/ Retry(t)

Next == \/ Tick \/ Take \/ WaiterEnds \/ Expire
        \/ \E f \in Top \cup Kids : Thread(f)
        \/ \E t \in Callers : Caller(t)

Spec == Init /\ [][Next]_vars

\* A task runs, its callback commits, then counts: never two of these at a time.
Goes(f) ==
    /\ f \in Futures
    /\ (~setup.stuck /\ Finish(f)) \/ Commit(f) \/ Count(f)

\* What a caller does without fail once it has called.
CallGoesOn(t) == t \in Callers /\ (Enlist(t) \/ Chain(t) \/ Result(t))

\* The thread in tick, the pool and the callbacks keep running, a call comes to its
\* end and a caller gets its result; a task comes to an end unless the setup lets it
\* run for ever.
Fairness ==
    /\ WF_vars(Tick) /\ WF_vars(Take) /\ WF_vars(WaiterEnds)
    /\ \A t \in AllTasks : WF_vars(CallGoesOn(t))
    /\ \A f \in AllTasks \X (0 .. MostAttempts) : WF_vars(Goes(f))

FairSpec == Spec /\ Fairness

-----------------------------------------------------------------------------
(* Properties                                                              *)

Committed(f) == callback[f] \in {"count", "over"}

\* Every variable keeps the shape the runner gives it; the counter is the number of
\* futures whose done callback has not run to its end.
TypeOK ==
    /\ pc \in {"enter", "inline", "schedule", "loop", "wait", "event", "panic", "over"}
    /\ dict \cup done \subseteq Futures
    /\ counter = Cardinality({f \in Futures : callback[f] \in {"commit", "count"}})
    /\ outcome \in {"none", "ok", "raised", "timeout"}

\* When tick lets the superstep end, every task has succeeded and its writes have
\* been committed: the callback of a future runs after its waiters are woken, which
\* is what the event is for. (With a step timeout the event may not be waited for.)
ProceedMeansCommitted ==
    outcome = "ok" /\ ~setup.timeout => \A f \in Top : fut[f] = "ok" /\ Committed(f)

\* A caller that had to wait for the result of a task goes on with it only after the
\* result was committed: chain_future's callback was added to a future that already
\* had on_done.
WaitersSeeCommitted ==
    \A t \in Callers : call[t] = "answered" => Committed(Called(t, attempt[t]))

\* "return a chained future to ensure commit() callback is called before the returned
\* future is resolved, to ensure stream order etc" (_runner.py:615), whether the caller
\* waited for it or not.
CallCommittedFirst ==
    \A t \in Callers :
      call[t] \in {"answered", "resolved"} => Committed(Called(t, attempt[t]))

\* A step that runs out of time does not go on as if it were done, when no task
\* has called another (whose failure would hide the timeout).
TimeoutIsRaised ==
    outcome = "ok" /\ Callers = {} => \A f \in Top : Ended(f)

\* A task has failed when all have been submitted and none submits another.
LateFailure ==
    /\ pc \in {"loop", "wait"} /\ Callers = {}
    /\ \E f \in Top : fut[f] = "error" /\ callback[f] = "commit"

\* tick comes to an end, whatever fails, is interrupted or never looks at what it
\* called, if tasks come to theirs; and even if they do not, when one fails late
\* ("Check if any task failed, if so, cancel all other tasks", _should_stop_others).
TickEnds == (~setup.stuck \/ LateFailure) ~> pc = "over"
=============================================================================
