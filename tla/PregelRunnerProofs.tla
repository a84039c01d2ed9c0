------------------------- MODULE PregelRunnerProofs -------------------------
(***************************************************************************)
(* Proofs about PregelRunner: its type invariant, and that a tick lets the  *)
(* superstep end only when every task has succeeded and is committed, that  *)
(* a caller that waits for a result gets it committed, and that a step out  *)
(* of time does not pass for done; for any tasks, callers, attempts, workers.  *)
(***************************************************************************)
EXTENDS PregelRunner, FiniteSetTheorems, TLAPS

-----------------------------------------------------------------------------
(* The inductive invariant.                                                 *)

Tasks == Top \cup Kids
Pending == {f \in Futures : callback[f] \in {"commit", "count"}}

States ==
    {"none", "queued", "running", "inline", "ok", "error", "interrupt", "cancelled"}

Shapes ==
    /\ setup \in Setups
    /\ pc \in {"enter", "inline", "schedule", "loop", "wait", "event", "panic", "over"}
    /\ outcome \in {"none", "ok", "raised", "timeout"}
    /\ todo \subseteq Top /\ dict \subseteq Futures /\ done \subseteq Tasks
    /\ fut \in [Futures -> States]
    /\ callback \in [Futures -> {"none", "commit", "count", "over"}]
    /\ callback[Waiter] = "none"
    /\ queue \in Seq(Futures)
    /\ attempt \in [Callers -> 1 .. MaxAttempts]
    /\ call \in [Callers -> {"no", "submitted", "listed", "committing", "chained", "resolved",
                            "waiting", "answered"}]

\* The counter counts the callbacks that have not run to their end, and the event
\* says that there are none, or that a task has failed.
EventInv ==
    /\ IsFiniteSet(Pending) /\ counter = Cardinality(Pending)
    /\ event => Pending = {} \/ StopOthers(done)
    /\ expired => setup.timeout

\* What was not submitted has no callback; what a callback counted has ended, and
\* is among what is done unless it went well on the fast path.
CallbackInv ==
    /\ \A f \in todo : fut[f] = "none" /\ callback[f] = "none"
    /\ \A f \in Tasks : callback[f] \in {"count", "over"} => Ended(f)
    /\ \A f \in Tasks : callback[f] = "over" => f \in done \/ fut[f] = "ok" \/ pc = "over"
    /\ \A f \in Tasks : callback[f] # "none" => f \in dict \/ Ended(f)
    /\ \A f \in Tasks : fut[f] = "cancelled" => pc = "over"

\* What each attempt of a caller calls is its own, in FuturesDict once the call has
\* got that far, and committed when a caller that waited goes on.
CallInv ==
    \A t \in Callers :
      /\ \A k \in 1 .. MaxAttempts :
           k > attempt[t] \/ (k = attempt[t] /\ call[t] = "no") =>
             callback[Called(t, k)] = "none" /\ fut[Called(t, k)] = "none"
      /\ call[t] = "submitted" => callback[Called(t, attempt[t])] = "none"
      /\ call[t] = "answered" => callback[Called(t, attempt[t])] = "over"

\* Where tick is: nothing has begun, the one task runs in its own thread, or all
\* tasks that are not left to schedule have a callback.
PlaceInv ==
    /\ pc = "enter" => todo = Top /\ dict = {} /\ done = {}
                       /\ \A f \in Tasks : fut[f] = "none" /\ callback[f] = "none"
                       /\ \A t \in Callers : call[t] = "no"
    /\ pc = "inline" => \A f \in Top : fut[f] = "inline" /\ callback[f] = "none" /\ Top = {f}
    /\ pc \notin {"enter", "inline"} => \A f \in Top \ todo : callback[f] # "none"
    /\ pc \notin {"enter", "schedule"} => todo = {}
    /\ pc # "inline" => Inline = {}

\* How tick ends.
OutcomeInv ==
    /\ pc # "over" => outcome = "none"
    /\ pc = "panic" /\ ~setup.timeout =>
         StopOthers(done) \/ \A f \in Top : callback[f] = "over"
    /\ outcome = "ok" /\ ~setup.timeout => \A f \in Top : fut[f] = "ok" /\ callback[f] = "over"
    /\ outcome = "ok" /\ Callers = {} => \A f \in Top : Ended(f)

RunnerInv == Shapes /\ EventInv /\ CallbackInv /\ CallInv /\ PlaceInv /\ OutcomeInv

-----------------------------------------------------------------------------
(* Lemmas about the sets of futures and their callbacks.                    *)

LEMMA TheSets ==
  ASSUME SetupsOK, setup \in Setups
  PROVE  /\ IsFiniteSet(Top) /\ MaxAttempts \in Nat \ {0}
         /\ Futures = Tasks \cup {Waiter} /\ Waiter \notin Tasks /\ Top \cap Kids = {}
         /\ \A t \in Callers : /\ <<t, 0>> \in Top
                               /\ \A k \in 1 .. MaxAttempts : Called(t, k) \in Kids
         /\ \A f \in Kids : f[1] \in Callers /\ f[2] \in 1 .. MaxAttempts
                            /\ f = Called(f[1], f[2])
<1>1. /\ IsFiniteSet(setup.tasks) /\ "waiter" \notin setup.tasks
      /\ setup.callers \subseteq setup.tasks /\ setup.attempts \in Nat \ {0}
  BY DEF SetupsOK
<1>2. IsFiniteSet(Top)
  <2> DEFINE g == [t \in setup.tasks |-> <<t, 0>>]
  <2>1. g \in Surjection(setup.tasks, Top)
    BY DEF Top, Surjection
  <2> QED BY <1>1, <2>1, FS_Surjection
<1>3. Waiter \notin Tasks
  BY <1>1 DEF Waiter, Tasks, Top, Kids, Callers
<1>4. Top \cap Kids = {}
  BY <1>1 DEF Top, Kids, MaxAttempts
<1>5. \A t \in Callers : /\ <<t, 0>> \in Top
                         /\ \A k \in 1 .. MaxAttempts : Called(t, k) \in Kids
  BY <1>1 DEF Top, Kids, Callers, Called
<1>6. \A f \in Kids : f[1] \in Callers /\ f[2] \in 1 .. MaxAttempts /\ f = Called(f[1],
   f[2])
  BY DEF Kids, Called
<1> QED BY <1>1, <1>2, <1>3, <1>4, <1>5, <1>6 DEF Futures, Tasks, MaxAttempts

LEMMA SameSets ==
  ASSUME setup' = setup
  PROVE  /\ Top' = Top /\ Kids' = Kids /\ Tasks' = Tasks /\ Futures' = Futures
         /\ Callers' = Callers /\ MaxAttempts' = MaxAttempts
  BY DEF Top, Kids, Tasks, Futures, Callers, MaxAttempts

\* What no step changes.
Fixed ==
    /\ setup' = setup
    /\ Top' = Top /\ Kids' = Kids /\ Tasks' = Tasks /\ Futures' = Futures
    /\ Callers' = Callers /\ MaxAttempts' = MaxAttempts
    /\ Futures = Tasks \cup {Waiter} /\ Waiter \notin Tasks
    /\ Top \cap Kids = {} /\ Tasks = Top \cup Kids /\ MaxAttempts \in Nat \ {0}
    /\ \A t \in Callers : /\ <<t, 0>> \in Top
                          /\ \A k \in 1 .. MaxAttempts : Called(t, k) \in Kids

LEMMA FixedSets == ASSUME SetupsOK, RunnerInv, setup' = setup PROVE Fixed
<1>1. setup \in Setups
  BY DEF RunnerInv, Shapes
<1>2. Tasks = Top \cup Kids
  BY DEF Tasks
<1> QED BY <1>1, <1>2, TheSets, SameSets DEF Fixed

\* A step that leaves alone what a caller has made of its calls.
LEMMA CallsKept ==
  ASSUME RunnerInv, Fixed, UNCHANGED <<attempt, call>>,
         \A f \in Kids : /\ callback[f] = "over" => callback'[f] = "over"
                         /\ callback[f] = "none" => callback'[f] = "none"
                         /\ callback[f] = "none" /\ fut[f] = "none" => fut'[f] = "none"
  PROVE  CallInv'
<1>1. \A t \in Callers : attempt[t] \in 1 .. MaxAttempts
  BY DEF RunnerInv, Shapes
<1>2. CallInv
  BY DEF RunnerInv
<1>3. ASSUME NEW t \in Callers, NEW k \in 1 .. MaxAttempts,
             k > attempt[t] \/ (k = attempt[t] /\ call[t] = "no")
      PROVE  callback'[<<t, k>>] = "none" /\ fut'[<<t, k>>] = "none"
  BY <1>2, <1>3 DEF Fixed, CallInv, Called
<1>4. ASSUME NEW t \in Callers, call[t] = "answered"
      PROVE  callback'[<<t, attempt[t]>>] = "over"
  BY <1>1, <1>2, <1>4 DEF Fixed, CallInv, Called
<1>5. ASSUME NEW t \in Callers, call[t] = "submitted"
      PROVE  callback'[<<t, attempt[t]>>] = "none"
  BY <1>1, <1>2, <1>5 DEF Fixed, CallInv, Called
<1>6. attempt' = attempt /\ call' = call /\ Callers' = Callers /\ MaxAttempts' =
   MaxAttempts
  BY DEF Fixed
<1> QED BY <1>3, <1>4, <1>5, <1>6 DEF CallInv, Called

\* Listing a future adds it to those whose callback is to run.
LEMMA SetItemPending ==
  ASSUME SetupsOK, RunnerInv, setup' = setup, NEW f \in Tasks, callback[f] = "none", SetItem(f),
         expired' = expired
  PROVE  EventInv'
<1>1. f \in Futures /\ f # Waiter /\ Futures' = Futures
  BY TheSets, SameSets DEF RunnerInv, Shapes
<1>2. callback' = [callback EXCEPT ![f] = "commit"] /\ callback \in [Futures -> {"none",
   "commit", "count", "over"}]
  BY DEF SetItem, RunnerInv, Shapes
<1>3. Pending' = Pending \cup {f} /\ f \notin Pending
  <2>1. ASSUME NEW g PROVE g \in Pending' <=> g \in Pending \/ g = f
    BY <1>1, <1>2 DEF Pending
  <2> QED BY <1>1, <1>2, <2>1 DEF Pending
<1>4. IsFiniteSet(Pending') /\ counter' = Cardinality(Pending')
  BY <1>3, FS_AddElement DEF SetItem, RunnerInv, EventInv
<1> QED BY <1>4 DEF EventInv, SetItem, RunnerInv

\* A task writes to the stream.
LEMMA OutputKeeps ==
  ASSUME SetupsOK, RunnerInv, NEW f, Output(f)
  PROVE  RunnerInv'
<1>1. Fixed
  BY FixedSets DEF Output, control, shared, threads
<1>2. Shapes'
  BY <1>1 DEF Fixed, RunnerInv, Shapes, States, Output, control, shared, threads
<1>3. EventInv'
  BY <1>1 DEF Fixed, RunnerInv, EventInv, Pending, StopOthers, Kin, Output, control,
     shared, threads
<1>4. CallbackInv'
  BY <1>1 DEF Fixed, RunnerInv, CallbackInv, Ended, Output, control, shared, threads
<1>5. CallInv'
  BY <1>1 DEF Fixed, RunnerInv, CallInv, Called, Output, control, shared, threads
<1>6. PlaceInv'
  BY <1>1 DEF Fixed, RunnerInv, PlaceInv, Inline, Output, control, shared, threads
<1>7. OutcomeInv'
  BY <1>1 DEF Fixed, RunnerInv, OutcomeInv, StopOthers, Kin, Ended, Output, control,
     shared, threads
<1> QED BY <1>2, <1>3, <1>4, <1>5, <1>6, <1>7 DEF RunnerInv

\* A caller waits for the task it called.
LEMMA AwaitKeeps ==
  ASSUME SetupsOK, RunnerInv, NEW t \in Callers, Await(t)
  PROVE  RunnerInv'
<1>1. Fixed
  BY FixedSets DEF Await, control, shared
<1>2. Shapes'
  BY <1>1 DEF Fixed, RunnerInv, Shapes, States, Await, control, shared
<1>3. EventInv'
  BY <1>1 DEF Fixed, RunnerInv, EventInv, Pending, StopOthers, Kin, Await, control, shared
<1>4. CallbackInv'
  BY <1>1 DEF Fixed, RunnerInv, CallbackInv, Ended, Await, control, shared
<1>5. CallInv'
  BY <1>1 DEF Fixed, RunnerInv, CallInv, Called, Await, control, shared
<1>6. PlaceInv'
  BY <1>1 DEF Fixed, RunnerInv, PlaceInv, Inline, Await, control, shared
<1>7. OutcomeInv'
  BY <1>1 DEF Fixed, RunnerInv, OutcomeInv, StopOthers, Kin, Ended, Await, control, shared
<1> QED BY <1>2, <1>3, <1>4, <1>5, <1>6, <1>7 DEF RunnerInv

\* A caller is given the result.
LEMMA ResultKeeps ==
  ASSUME SetupsOK, RunnerInv, NEW t \in Callers, Result(t)
  PROVE  RunnerInv'
<1>1. Fixed
  BY FixedSets DEF Result, control, shared, Running
<1>2. Shapes'
  BY <1>1 DEF Fixed, RunnerInv, Shapes, States, Result, control, shared, Running
<1>3. EventInv'
  BY <1>1 DEF Fixed, RunnerInv, EventInv, Pending, StopOthers, Kin, Result, control,
     shared, Running
<1>4. CallbackInv'
  BY <1>1 DEF Fixed, RunnerInv, CallbackInv, Ended, Result, control, shared, Running
<1>5. CallInv'
  BY <1>1 DEF Fixed, RunnerInv, CallInv, Called, Result, control, shared, Running
<1>6. PlaceInv'
  BY <1>1 DEF Fixed, RunnerInv, PlaceInv, Inline, Result, control, shared, Running
<1>7. OutcomeInv'
  BY <1>1 DEF Fixed, RunnerInv, OutcomeInv, StopOthers, Kin, Ended, Result, control,
     shared, Running
<1> QED BY <1>2, <1>3, <1>4, <1>5, <1>6, <1>7 DEF RunnerInv

\* A caller is tried again.
LEMMA RetryKeeps ==
  ASSUME SetupsOK, RunnerInv, NEW t \in Callers, Retry(t)
  PROVE  RunnerInv'
<1>1. Fixed
  BY FixedSets DEF Retry, control, shared, Running
<1>2. Shapes'
  BY <1>1 DEF Fixed, RunnerInv, Shapes, States, Retry, control, shared, Running
<1>3. EventInv'
  BY <1>1 DEF Fixed, RunnerInv, EventInv, Pending, StopOthers, Kin, Retry, control,
     shared, Running
<1>4. CallbackInv'
  BY <1>1 DEF Fixed, RunnerInv, CallbackInv, Ended, Retry, control, shared, Running
<1>5. CallInv'
  BY <1>1 DEF Fixed, RunnerInv, Shapes, States, CallInv, Called, Retry, control, shared,
     Running
<1>6. PlaceInv'
  BY <1>1 DEF Fixed, RunnerInv, PlaceInv, Inline, Retry, control, shared, Running
<1>7. OutcomeInv'
  BY <1>1 DEF Fixed, RunnerInv, OutcomeInv, StopOthers, Kin, Ended, Retry, control,
     shared, Running
<1> QED BY <1>2, <1>3, <1>4, <1>5, <1>6, <1>7 DEF RunnerInv

\* The pool takes a future up.
LEMMA TakeKeeps ==
  ASSUME SetupsOK, RunnerInv, Take
  PROVE  RunnerInv'
<1>1. Fixed
  BY FixedSets DEF Take, control, shared
<1>2. Shapes'
  BY <1>1 DEF Fixed, RunnerInv, Shapes, States, Take, control, shared
<1>3. EventInv'
  BY <1>1 DEF Fixed, RunnerInv, Shapes, States, EventInv, Pending, StopOthers, Kin,
     Take, control, shared
<1>4. CallbackInv'
  <2>1. \A g \in Tasks : fut'[g] = fut[g] \/ (fut[g] = "queued" /\ fut'[g] = "running")
    BY <1>1 DEF Fixed, RunnerInv, Shapes, Take
  <2>2. UNCHANGED <<control, shared, callback>> /\ CallbackInv /\ todo \subseteq Tasks
    BY <1>1 DEF Fixed, Take, RunnerInv, Shapes
  <2> QED BY <1>1, <2>1, <2>2 DEF Fixed, CallbackInv, Ended, control, shared
<1>5. CallInv'
  <2>1. \A g \in Kids : fut[g] = "none" /\ callback[g] = "none" => fut'[g] = "none"
    BY <1>1 DEF Fixed, RunnerInv, Shapes, States, Take, control, shared
  <2>2. UNCHANGED <<attempt, call, callback>>
    BY DEF Take, control, shared
  <2> QED BY <1>1, <2>1, <2>2, CallsKept
<1>6. PlaceInv'
  BY <1>1 DEF Fixed, RunnerInv, Shapes, States, PlaceInv, Inline, Take, control, shared
<1>7. OutcomeInv'
  <2>1. \A f \in Tasks : fut'[f] = fut[f] \/ (fut[f] = "queued" /\ fut'[f] = "running")
    BY <1>1 DEF Fixed, RunnerInv, Shapes, Take
  <2>2. UNCHANGED <<control, shared, callback>>
    BY DEF Take
  <2>3. done \subseteq Tasks /\ OutcomeInv
    BY DEF RunnerInv, Shapes
  <2> QED BY <1>1, <2>1, <2>2, <2>3 DEF Fixed, OutcomeInv, StopOthers, Kin, Ended,
             control, shared
<1> QED BY <1>2, <1>3, <1>4, <1>5, <1>6, <1>7 DEF RunnerInv

\* A task ends.
LEMMA FinishKeeps ==
  ASSUME SetupsOK, RunnerInv, NEW f, Finish(f)
  PROVE  RunnerInv'
<1>1. Fixed
  BY FixedSets DEF Finish, Settles, control, shared
<1>2. Shapes'
  BY <1>1 DEF Fixed, RunnerInv, Shapes, States, Finish, Settles, control, shared
<1>3. EventInv'
  <2>1. Pending' = Pending
    BY <1>1 DEF Fixed, Pending, Finish, Settles, control, shared
  <2>2. event' => Pending = {} \/ StopOthers(done)'
    BY <1>1 DEF Fixed, RunnerInv, Shapes, States, EventInv, StopOthers, Kin, Finish,
       Settles, control, shared
  <2> QED BY <1>1, <2>1, <2>2 DEF Fixed, RunnerInv, EventInv, Finish, Settles, control,
             shared
<1>4. CallbackInv'
  <2>1. f \in Tasks /\ f \in Futures /\ fut[f] = "running"
    BY <1>1 DEF Fixed, Finish
  <2>2. PICK how \in {"ok", "error", "interrupt"} : fut' = [fut EXCEPT ![f] = how]
    BY DEF Finish, Settles
  <2>3. UNCHANGED <<control, shared, callback>>
    BY DEF Finish, Settles
  <2>4. fut \in [Futures -> States]
    BY DEF RunnerInv, Shapes
  <2>5. CallbackInv
    BY DEF RunnerInv
  <2> QED BY <1>1, <2>1, <2>2, <2>3, <2>4, <2>5 DEF Fixed, CallbackInv, States, Ended,
             control, shared
<1>5. CallInv'
  <2>1. \A g \in Kids : fut[g] = "none" /\ callback[g] = "none" => fut'[g] = "none"
    BY <1>1 DEF Fixed, RunnerInv, Shapes, States, Finish, Settles, control, shared
  <2>2. UNCHANGED <<attempt, call, callback>>
    BY DEF Finish, Settles, control, shared
  <2> QED BY <1>1, <2>1, <2>2, CallsKept
<1>6. PlaceInv'
  BY <1>1 DEF Fixed, RunnerInv, Shapes, States, PlaceInv, Inline, Finish, Settles,
     control, shared
<1>7. OutcomeInv'
  BY <1>1 DEF Fixed, RunnerInv, Shapes, States, OutcomeInv, StopOthers, Kin, Ended,
     Finish, Settles, control, shared
<1> QED BY <1>2, <1>3, <1>4, <1>5, <1>6, <1>7 DEF RunnerInv

\* The waiter ends.
LEMMA WaiterEndsKeeps ==
  ASSUME SetupsOK, RunnerInv, WaiterEnds
  PROVE  RunnerInv'
<1>1. Fixed
  BY FixedSets DEF WaiterEnds, Settles, control, shared
<1>2. Shapes'
  BY <1>1 DEF Fixed, RunnerInv, Shapes, States, WaiterEnds, Settles, control, shared
<1>3. EventInv'
  BY <1>1 DEF Fixed, RunnerInv, EventInv, Pending, StopOthers, Kin, WaiterEnds, Settles,
     control, shared
<1>4. CallbackInv'
  BY <1>1 DEF Fixed, RunnerInv, CallbackInv, Ended, WaiterEnds, Settles, control, shared
<1>5. CallInv'
  BY <1>1 DEF Fixed, RunnerInv, CallInv, Called, WaiterEnds, Settles, control, shared
<1>6. PlaceInv'
  BY <1>1 DEF Fixed, RunnerInv, PlaceInv, Inline, WaiterEnds, Settles, control, shared
<1>7. OutcomeInv'
  BY <1>1 DEF Fixed, RunnerInv, OutcomeInv, StopOthers, Kin, Ended, WaiterEnds, Settles,
     control, shared
<1> QED BY <1>2, <1>3, <1>4, <1>5, <1>6, <1>7 DEF RunnerInv

\* A callback commits.
LEMMA CommitKeeps ==
  ASSUME SetupsOK, RunnerInv, NEW f \in Tasks, Commit(f)
  PROVE  RunnerInv'
<1>1. Fixed
  BY FixedSets DEF Commit, control, shared
<1>2. Shapes'
  BY <1>1 DEF Fixed, RunnerInv, Shapes, States, Commit, control, shared
<1>3. EventInv'
  BY <1>1 DEF Fixed, RunnerInv, Shapes, States, EventInv, Pending, StopOthers, Kin,
     Commit, control, shared
<1>4. CallbackInv'
  BY <1>1 DEF Fixed, RunnerInv, CallbackInv, Ended, Commit, control, shared
<1>5. CallInv'
  BY <1>1 DEF Fixed, RunnerInv, CallInv, Called, Commit, control, shared
<1>6. PlaceInv'
  BY <1>1 DEF Fixed, RunnerInv, PlaceInv, Inline, Commit, control, shared
<1>7. OutcomeInv'
  BY <1>1 DEF Fixed, RunnerInv, OutcomeInv, StopOthers, Kin, Ended, Commit, control,
     shared
<1> QED BY <1>2, <1>3, <1>4, <1>5, <1>6, <1>7 DEF RunnerInv

\* A callback counts.
LEMMA CountKeeps ==
  ASSUME SetupsOK, RunnerInv, NEW f \in Tasks, Count(f)
  PROVE  RunnerInv'
<1>1. Fixed
  BY FixedSets DEF Count, control
<1>2. Shapes'
  BY <1>1 DEF Fixed, RunnerInv, Shapes, States, Count, control
<1>3. EventInv'
  <2>1. f \in Pending
    BY <1>1 DEF Fixed, Count, Pending
  <2>2. Pending' = Pending \ {f}
    <3>1. ASSUME NEW g PROVE g \in Pending' <=> g \in Pending /\ g # f
      BY <1>1 DEF Fixed, RunnerInv, Shapes, States, Count, Pending
    <3> QED BY <3>1 DEF Pending
  <2>3. IsFiniteSet(Pending') /\ Cardinality(Pending') = Cardinality(Pending) - 1
    BY <2>1, <2>2, FS_RemoveElement DEF RunnerInv, EventInv
  <2>4. counter = 1 => Pending' = {}
    BY <2>3, FS_EmptySet DEF RunnerInv, EventInv
  <2>5. StopOthers(done \cup {f}) <=> StopOthers(done)'
    BY <1>1 DEF Fixed, Count, StopOthers, Kin
  <2>6. event => StopOthers(done)
    BY <2>1 DEF RunnerInv, EventInv
  <2>7. StopOthers(done) => StopOthers(done)'
    BY <1>1 DEF Fixed, Count, StopOthers, Kin
  <2> QED BY <1>1, <2>3, <2>4, <2>5, <2>6, <2>7 DEF Fixed, RunnerInv, EventInv, Count,
             control
<1>4. CallbackInv'
  BY <1>1 DEF Fixed, RunnerInv, CallbackInv, Ended, Count, control
<1>5. CallInv'
  BY <1>1 DEF Fixed, RunnerInv, CallInv, Called, Count, control
<1>6. PlaceInv'
  BY <1>1 DEF Fixed, RunnerInv, PlaceInv, Inline, Count, control
<1>7. OutcomeInv'
  BY <1>1 DEF Fixed, RunnerInv, OutcomeInv, StopOthers, Kin, Ended, Count, control
<1> QED BY <1>2, <1>3, <1>4, <1>5, <1>6, <1>7 DEF RunnerInv

\* A caller calls a task.
LEMMA CallKeeps ==
  ASSUME SetupsOK, RunnerInv, NEW t \in Callers, Call(t)
  PROVE  RunnerInv'
<1>1. Fixed
  BY FixedSets DEF Call, Submit, Running, control, shared
<1>2. Shapes'
  BY <1>1 DEF Fixed, RunnerInv, Shapes, States, Call, Submit, Running, control, shared
<1>3. EventInv'
  <2>1. Called(t, attempt[t]) \in Tasks
        /\ fut[Called(t, attempt[t])] = "none"
    BY <1>1 DEF Fixed, Call, RunnerInv, Shapes, CallInv
  <2>2. \A f \in Futures : f # Called(t, attempt[t]) => fut'[f] = fut[f]
    BY <1>1 DEF Fixed, Call, Submit, RunnerInv, Shapes
  <2>3. StopOthers(done) => StopOthers(done)'
    BY <1>1, <2>1, <2>2 DEF Fixed, StopOthers, Kin, Call, shared, RunnerInv, Shapes
  <2>4. Pending' = Pending
    BY <1>1 DEF Fixed, Pending, Call
  <2> QED BY <1>1, <2>3, <2>4 DEF Fixed, RunnerInv, EventInv, Call, shared
<1>4. CallbackInv'
  <2>1. Called(t, attempt[t]) \in Kids /\ fut[Called(t, attempt[t])] = "none"
        /\ callback[Called(t, attempt[t])] = "none"
    BY <1>1 DEF Fixed, Call, RunnerInv, Shapes, CallInv
  <2>2. \A f \in Tasks : fut'[f] = fut[f] \/ (f = Called(t, attempt[t]) /\ fut'[f] = "queued")
    BY <1>1 DEF Fixed, Call, Submit, RunnerInv, Shapes
  <2>3. UNCHANGED <<control, shared, callback>> /\ CallbackInv /\ todo \subseteq Top
    BY DEF Call, RunnerInv, Shapes
  <2> QED BY <1>1, <2>1, <2>2, <2>3 DEF Fixed, CallbackInv, Ended, control, shared
<1>5. CallInv'
  BY <1>1 DEF Fixed, RunnerInv, Shapes, States, CallInv, Called, Call, Submit, Running, control, shared
<1>6. PlaceInv'
  BY <1>1 DEF Fixed, RunnerInv, Shapes, States, PlaceInv, Inline, Call, Submit, Running, control, shared
<1>7. OutcomeInv'
  BY <1>1 DEF Fixed, RunnerInv, Shapes, States, OutcomeInv, StopOthers, Kin, Ended,
     Call, Submit, Running, control, shared
<1> QED BY <1>2, <1>3, <1>4, <1>5, <1>6, <1>7 DEF RunnerInv

\* Its future is listed.
LEMMA EnlistKeeps ==
  ASSUME SetupsOK, RunnerInv, NEW t \in Callers, Enlist(t)
  PROVE  RunnerInv'
<1>1. Fixed
  BY FixedSets DEF Enlist, SetItem
<1>0. PICK f \in Kids : /\ f = Called(t, attempt[t]) /\ f \in Futures /\ f \notin Top
  BY <1>1 DEF Fixed, RunnerInv, Shapes
<1>a. callback[f] = "none" /\ f \in Tasks /\ f # Waiter /\ pc # "enter"
  BY <1>0, <1>1 DEF Fixed, Enlist, RunnerInv, CallInv, PlaceInv
<1>b. /\ callback' = [callback EXCEPT ![f] = "commit"] /\ dict' = dict \cup {f}
      /\ UNCHANGED <<setup, pc, todo, watch, outcome, done, fut, queue, attempt>>
  BY <1>0 DEF Enlist, SetItem
<1>c. callback \in [Futures -> {"none", "commit", "count", "over"}]
  BY DEF RunnerInv, Shapes
<1>d. callback'[f] = "commit" /\ \A g \in Futures : g # f => callback'[g] = callback[g]
  BY <1>0, <1>b, <1>c
<1>2. Shapes'
  <2>1. call' \in [Callers -> {"no", "submitted", "listed", "committing", "chained", "resolved",
                              "waiting", "answered"}]
    BY DEF Enlist, RunnerInv, Shapes
  <2>2. callback' \in [Futures -> {"none", "commit", "count", "over"}]
        /\ callback'[Waiter] = "none"
    BY <1>1, <1>a, <1>b, <1>c, <1>d DEF Fixed, RunnerInv, Shapes
  <2>3. dict' \subseteq Futures
    BY <1>0, <1>b DEF RunnerInv, Shapes
  <2> QED BY <1>1, <1>b, <2>1, <2>2, <2>3 DEF Fixed, RunnerInv, Shapes, States
<1>3. EventInv'
  <2>1. /\ Called(t, attempt[t]) \in Tasks /\ callback[Called(t, attempt[t])] = "none"
        /\ SetItem(Called(t, attempt[t]))
    BY <1>1 DEF Fixed, Enlist, RunnerInv, Shapes, CallInv
  <2>2. expired' = expired /\ setup' = setup
    BY DEF Enlist
  <2> QED BY <2>1, <2>2, SetItemPending
<1>4. CallbackInv'
  <2>1. CallbackInv /\ todo \subseteq Top
    BY DEF RunnerInv, Shapes
  <2> QED BY <1>0, <1>1, <1>a, <1>b, <1>d, <2>1 DEF Fixed, CallbackInv, Ended
<1>5. CallInv'
  BY <1>1 DEF Fixed, RunnerInv, Shapes, States, CallInv, Called, Enlist, SetItem
<1>6. PlaceInv'
  <2>1. PlaceInv
    BY DEF RunnerInv
  <2> QED BY <1>0, <1>1, <1>a, <1>b, <1>d, <2>1 DEF Fixed, PlaceInv, Inline
<1>7. OutcomeInv'
  BY <1>1 DEF Fixed, RunnerInv, Shapes, States, CallInv, OutcomeInv, StopOthers, Kin, Ended,
     Enlist, SetItem
<1> QED BY <1>2, <1>3, <1>4, <1>5, <1>6, <1>7 DEF RunnerInv

\* And chained.
LEMMA ChainKeeps ==
  ASSUME SetupsOK, RunnerInv, NEW t \in Callers, Chain(t)
  PROVE  RunnerInv'
<1>1. Fixed
  BY FixedSets DEF Chain, control, shared
<1>2. Shapes'
  BY <1>1 DEF Fixed, RunnerInv, Shapes, States, Chain, control, shared
<1>3. EventInv'
  BY <1>1 DEF Fixed, RunnerInv, EventInv, Pending, StopOthers, Kin, Chain, control, shared
<1>4. CallbackInv'
  BY <1>1 DEF Fixed, RunnerInv, CallbackInv, Ended, Chain, control, shared
<1>5. CallInv'
  BY <1>1 DEF Fixed, RunnerInv, Shapes, States, CallInv, Called, Chain, control, shared
<1>6. PlaceInv'
  BY <1>1 DEF Fixed, RunnerInv, PlaceInv, Inline, Chain, control, shared
<1>7. OutcomeInv'
  BY <1>1 DEF Fixed, RunnerInv, OutcomeInv, StopOthers, Kin, Ended,
     Chain, control, shared
<1> QED BY <1>2, <1>3, <1>4, <1>5, <1>6, <1>7 DEF RunnerInv

\* tick begins.
LEMMA EnterKeeps ==
  ASSUME SetupsOK, RunnerInv, Enter
  PROVE  RunnerInv'
<1>1. Fixed
  BY FixedSets DEF Enter, GetWaiter, shared
<1>2. Shapes'
  <2>1. pc' \in {"inline", "schedule"} /\ todo' \subseteq Top /\ dict' \subseteq Futures
    BY <1>1 DEF Fixed, Enter, RunnerInv, Shapes, States
  <2>2. fut' \in [Futures -> States]
    BY <1>1 DEF Fixed, Enter, GetWaiter, RunnerInv, Shapes, States
  <2>3. queue' \in Seq(Futures)
    <3>1. queue' = queue \/ queue' = Append(queue, Waiter)
      BY DEF Enter, GetWaiter
    <3>2. queue \in Seq(Futures) /\ Waiter \in Futures
      BY <1>1 DEF Fixed, RunnerInv, Shapes
    <3> QED BY <3>1, <3>2
  <2> QED BY <1>1, <2>1, <2>2, <2>3 DEF Fixed, Enter, RunnerInv, Shapes, States, shared
<1>3. EventInv'
  BY <1>1 DEF Fixed, RunnerInv, Shapes, States, EventInv, CallbackInv, CallInv,
     PlaceInv, OutcomeInv, Pending, StopOthers, Kin, Enter, GetWaiter, shared
<1>4. CallbackInv'
  BY <1>1 DEF Fixed, RunnerInv, Shapes, States, CallbackInv, CallInv, PlaceInv, Ended,
     Enter, GetWaiter, shared
<1>5. CallInv'
  <2>1. \A f \in Kids : fut'[f] = fut[f]
    BY <1>1 DEF Fixed, Enter, GetWaiter, RunnerInv, Shapes, States
  <2>2. UNCHANGED <<attempt, call, callback>>
    BY DEF Enter
  <2> QED BY <1>1, <2>1, <2>2, CallsKept
<1>6. PlaceInv'
  <2>1. pc = "enter" /\ UNCHANGED callback
    BY DEF Enter
  <2>2. todo = Top /\ \A f \in Tasks : fut[f] = "none" /\ callback[f] = "none"
    BY <2>1 DEF RunnerInv, PlaceInv
  <2>3. CASE Alone /\ pc' = "inline"
    <3>1. todo' = {} /\ fut' = [f \in Futures |-> IF f \in Top THEN "inline" ELSE fut[f]]
      BY <2>3 DEF Enter
    <3>2. PICK x : Top = {x}
      BY <2>3, TheSets, FS_Singleton DEF Alone, RunnerInv, Shapes, States
    <3> QED BY <1>1, <2>1, <2>2, <2>3, <3>1, <3>2 DEF Fixed, PlaceInv, Inline
  <2>4. CASE pc' = "schedule"
    <3>1. todo' = todo /\ \A f \in Tasks : fut'[f] = fut[f]
      BY <1>1, <2>4 DEF Fixed, Enter, GetWaiter, RunnerInv, Shapes, States
    <3> QED BY <1>1, <2>1, <2>2, <2>4, <3>1 DEF Fixed, PlaceInv, Inline
  <2> QED BY <2>3, <2>4 DEF Enter
<1>7. OutcomeInv'
  BY <1>1 DEF Fixed, RunnerInv, OutcomeInv, StopOthers, Kin, Ended, Enter, GetWaiter,
     shared
<1> QED BY <1>2, <1>3, <1>4, <1>5, <1>6, <1>7 DEF RunnerInv

\* A task is submitted.
LEMMA ScheduleKeeps ==
  ASSUME SetupsOK, RunnerInv, NEW f \in Top, Schedule(f)
  PROVE  RunnerInv'
<1>1. Fixed
  BY FixedSets DEF Schedule, Submit, SetItem
<1>2. Shapes'
  BY <1>1 DEF Fixed, RunnerInv, Shapes, States, Schedule, Submit, SetItem
<1>3. EventInv'
  <2>1. f \in Tasks /\ callback[f] = "none" /\ SetItem(f)
    BY <1>1 DEF Fixed, Schedule, RunnerInv, CallbackInv
  <2>2. expired' = expired /\ setup' = setup
    BY DEF Schedule
  <2> QED BY <2>1, <2>2, SetItemPending
<1>4. CallbackInv'
  BY <1>1 DEF Fixed, RunnerInv, CallbackInv, Ended, Schedule, Submit, SetItem
<1>5. CallInv'
  <2>1. f \notin Kids /\ UNCHANGED <<attempt, call>>
    BY <1>1 DEF Fixed, Schedule
  <2>2. \A g \in Kids : fut'[g] = fut[g] /\ callback'[g] = callback[g]
    BY <1>1, <2>1 DEF Fixed, Schedule, Submit, SetItem, RunnerInv, Shapes, States
  <2> QED BY <1>1, <2>1, <2>2, CallsKept
<1>6. PlaceInv'
  BY <1>1 DEF Fixed, RunnerInv, Shapes, States, PlaceInv, Inline, Schedule, Submit, SetItem
<1>7. OutcomeInv'
  BY <1>1 DEF Fixed, RunnerInv, OutcomeInv, StopOthers, Kin, Ended, Schedule, Submit, SetItem
<1> QED BY <1>2, <1>3, <1>4, <1>5, <1>6, <1>7 DEF RunnerInv

\* The fast path ends.
LEMMA InlineEndsKeeps ==
  ASSUME SetupsOK, RunnerInv, NEW f \in Top, InlineEnds(f)
  PROVE  RunnerInv'
<1>1. Fixed
  BY FixedSets DEF InlineEnds, RaiseLater
<1>2. Shapes'
  BY <1>1 DEF Fixed, RunnerInv, Shapes, States, InlineEnds, RaiseLater
<1>3. EventInv'
  <2>1. callback[f] = "none" /\ f \in Futures
    BY <1>1 DEF Fixed, RunnerInv, PlaceInv, InlineEnds
  <2>2. Pending' = Pending
    <3>1. ASSUME NEW g PROVE g \in Pending' <=> g \in Pending
      BY <1>1, <2>1 DEF Fixed, InlineEnds, Pending, RunnerInv, Shapes, States
    <3> QED BY <3>1
  <2>3. StopOthers(done) => StopOthers(done)'
    BY <1>1 DEF Fixed, RunnerInv, Shapes, States, StopOthers, Kin, InlineEnds, Inline
  <2> QED BY <1>1, <2>2, <2>3 DEF Fixed, RunnerInv, EventInv, InlineEnds
<1>4. CallbackInv'
  BY <1>1 DEF Fixed, RunnerInv, Shapes, States, CallbackInv, CallInv, PlaceInv, Ended,
     InlineEnds, RaiseLater
<1>5. CallInv'
  <2>1. f \notin Kids /\ UNCHANGED <<attempt, call>>
    BY <1>1 DEF Fixed, InlineEnds
  <2>2. \A g \in Kids : fut'[g] = fut[g] /\ callback'[g] = callback[g]
    BY <1>1, <2>1 DEF Fixed, InlineEnds, RunnerInv, Shapes
  <2> QED BY <1>1, <2>1, <2>2, CallsKept
<1>6. PlaceInv'
  BY <1>1 DEF Fixed, RunnerInv, Shapes, States, PlaceInv, Inline, InlineEnds, RaiseLater
<1>7. OutcomeInv'
  BY <1>1 DEF Fixed, RunnerInv, Shapes, States, CallbackInv, PlaceInv, OutcomeInv,
     StopOthers, Kin, Ended, InlineEnds, RaiseLater
<1> QED BY <1>2, <1>3, <1>4, <1>5, <1>6, <1>7 DEF RunnerInv

\* tick waits.
LEMMA WaitKeeps ==
  ASSUME SetupsOK, RunnerInv, Wait
  PROVE  RunnerInv'
<1>1. Fixed
  BY FixedSets DEF Wait, shared, threads
<1>2. Shapes'
  BY <1>1 DEF Fixed, RunnerInv, Shapes, States, Wait, shared, threads
<1>3. EventInv'
  BY <1>1 DEF Fixed, RunnerInv, EventInv, Pending, StopOthers, Kin, Wait, shared, threads
<1>4. CallbackInv'
  BY <1>1 DEF Fixed, RunnerInv, CallbackInv, Ended, Wait, shared, threads
<1>5. CallInv'
  BY <1>1 DEF Fixed, RunnerInv, CallInv, Called, Wait, shared, threads
<1>6. PlaceInv'
  BY <1>1 DEF Fixed, RunnerInv, PlaceInv, Inline, Wait, shared, threads
<1>7. OutcomeInv'
  BY <1>1 DEF Fixed, RunnerInv, OutcomeInv, StopOthers, Kin, Ended, Wait, shared, threads
<1> QED BY <1>2, <1>3, <1>4, <1>5, <1>6, <1>7 DEF RunnerInv

\* tick is woken.
LEMMA WokenKeeps ==
  ASSUME SetupsOK, RunnerInv, Woken
  PROVE  RunnerInv'
<1>1. Fixed
  BY FixedSets DEF Woken, GetWaiter, shared
<1>2. Shapes'
  <2>1. pc' \in {"event", "loop"} /\ dict' \subseteq Futures
    BY <1>1 DEF Fixed, Woken, RunnerInv, Shapes, States
  <2>2. fut' \in [Futures -> States]
    BY <1>1 DEF Fixed, Woken, GetWaiter, RunnerInv, Shapes, States
  <2>3. queue' \in Seq(Futures)
    <3>1. queue' = queue \/ queue' = Append(queue, Waiter)
      BY DEF Woken, GetWaiter
    <3>2. queue \in Seq(Futures) /\ Waiter \in Futures
      BY <1>1 DEF Fixed, RunnerInv, Shapes
    <3> QED BY <3>1, <3>2
  <2> QED BY <1>1, <2>1, <2>2, <2>3 DEF Fixed, Woken, RunnerInv, Shapes, States, shared
<1>3. EventInv'
  BY <1>1 DEF Fixed, RunnerInv, Shapes, States, EventInv, Pending, StopOthers, Kin,
     Woken, GetWaiter, shared
<1>4. CallbackInv'
  BY <1>1 DEF Fixed, RunnerInv, Shapes, States, CallbackInv, Ended, Woken, GetWaiter,
     shared
<1>5. CallInv'
  <2>1. \A f \in Kids : fut'[f] = fut[f]
    BY <1>1 DEF Fixed, Woken, GetWaiter, RunnerInv, Shapes, States
  <2>2. UNCHANGED <<attempt, call, callback>>
    BY DEF Woken
  <2> QED BY <1>1, <2>1, <2>2, CallsKept
<1>6. PlaceInv'
  BY <1>1 DEF Fixed, RunnerInv, Shapes, States, PlaceInv, Inline, Woken, GetWaiter, shared
<1>7. OutcomeInv'
  BY <1>1 DEF Fixed, RunnerInv, OutcomeInv, StopOthers, Kin, Ended, Woken, GetWaiter,
     shared
<1> QED BY <1>2, <1>3, <1>4, <1>5, <1>6, <1>7 DEF RunnerInv

\* tick has waited too long.
LEMMA TimedOutKeeps ==
  ASSUME SetupsOK, RunnerInv, TimedOut
  PROVE  RunnerInv'
<1>1. Fixed
  BY FixedSets DEF TimedOut, shared, threads
<1>2. Shapes'
  BY <1>1 DEF Fixed, RunnerInv, Shapes, States, TimedOut, shared, threads
<1>3. EventInv'
  BY <1>1 DEF Fixed, RunnerInv, EventInv, Pending, StopOthers, Kin, TimedOut, shared,
     threads
<1>4. CallbackInv'
  BY <1>1 DEF Fixed, RunnerInv, CallbackInv, Ended, TimedOut, shared, threads
<1>5. CallInv'
  BY <1>1 DEF Fixed, RunnerInv, CallInv, Called, TimedOut, shared, threads
<1>6. PlaceInv'
  BY <1>1 DEF Fixed, RunnerInv, PlaceInv, Inline, TimedOut, shared, threads
<1>7. OutcomeInv'
  BY <1>1 DEF Fixed, RunnerInv, OutcomeInv, StopOthers, Kin, Ended, TimedOut, shared,
     threads
<1> QED BY <1>2, <1>3, <1>4, <1>5, <1>6, <1>7 DEF RunnerInv

\* tick has waited for the callbacks.
LEMMA EventWaitKeeps ==
  ASSUME SetupsOK, RunnerInv, EventWait
  PROVE  RunnerInv'
<1>1. Fixed
  BY FixedSets DEF EventWait, shared, threads
<1>2. Shapes'
  BY <1>1 DEF Fixed, RunnerInv, Shapes, States, EventWait, shared, threads
<1>3. EventInv'
  BY <1>1 DEF Fixed, RunnerInv, EventInv, Pending, StopOthers, Kin, EventWait, shared,
     threads
<1>4. CallbackInv'
  BY <1>1 DEF Fixed, RunnerInv, CallbackInv, Ended, EventWait, shared, threads
<1>5. CallInv'
  BY <1>1 DEF Fixed, RunnerInv, CallInv, Called, EventWait, shared, threads
<1>6. PlaceInv'
  BY <1>1 DEF Fixed, RunnerInv, PlaceInv, Inline, EventWait, shared, threads
<1>7. OutcomeInv'
  <2>1. pc = "event" /\ pc' = "panic" /\ outcome' = outcome /\ outcome = "none"
    BY DEF EventWait, RunnerInv, OutcomeInv
  <2>2. UNCHANGED <<setup, done, fut, callback>>
    BY DEF EventWait, shared, threads
  <2>3. \A f \in Top : callback[f] \in {"commit", "count", "over"} /\ f \in Futures
    BY <1>1, <2>1 DEF Fixed, RunnerInv, PlaceInv, Shapes
  <2>4. ~setup.timeout => Pending = {} \/ StopOthers(done)
    BY DEF EventWait, RunnerInv, EventInv
  <2>5. Pending = {} => \A f \in Top : callback[f] = "over"
    BY <2>3 DEF Pending
  <2> QED BY <1>1, <2>1, <2>2, <2>4, <2>5 DEF Fixed, OutcomeInv, StopOthers, Kin
<1> QED BY <1>2, <1>3, <1>4, <1>5, <1>6, <1>7 DEF RunnerInv

\* tick decides.
LEMMA PanicKeeps ==
  ASSUME SetupsOK, RunnerInv, Panic
  PROVE  RunnerInv'
<1>1. Fixed
  BY FixedSets DEF Panic, Judge, shared
<1>2. Shapes'
  BY <1>1 DEF Fixed, RunnerInv, Shapes, States, Panic, Judge, shared
<1>3. EventInv'
  BY <1>1 DEF Fixed, RunnerInv, Shapes, States, EventInv, Pending, StopOthers, Kin,
     Panic, Judge, shared
<1>4. CallbackInv'
  BY <1>1 DEF Fixed, RunnerInv, Shapes, States, CallbackInv, Ended, Panic, Judge, shared
<1>5. CallInv'
  BY <1>1 DEF Fixed, RunnerInv, CallInv, Called, Panic, Judge, shared
<1>6. PlaceInv'
  BY <1>1 DEF Fixed, RunnerInv, PlaceInv, Inline, Panic, Judge, shared
<1>7. OutcomeInv'
  <2>1. pc = "panic" /\ pc' = "over" /\ UNCHANGED <<setup, done, callback>>
    BY DEF Panic, Judge, shared
  <2>2. SUFFICES ASSUME outcome' = "ok"
                 PROVE  /\ ~setup.timeout => \A f \in Top : fut'[f] = "ok" /\ callback[f] = "over"
                        /\ Callers = {} => \A f \in Top : fut'[f] \in {"ok", "error", "interrupt", "cancelled"}
    BY <1>1, <2>1 DEF Fixed, OutcomeInv, Ended
  <2>3. Raising = {} /\ (Flight = {} \/ Throwing # {})
    BY <2>2 DEF Panic, Judge
  <2>4. \A f \in Futures : fut'[f] = fut[f] \/ fut'[f] = "cancelled"
    BY DEF Panic, Judge
  <2>5. ASSUME NEW f \in Futures, Ended(f) PROVE fut'[f] = fut[f]
    BY <2>5 DEF Panic, Judge, Ended
  <2>6. ASSUME ~setup.timeout, NEW f \in Top PROVE fut'[f] = "ok" /\ callback[f] = "over"
    <3>1. ~StopOthers(done)
      BY <2>3 DEF Raising, PanicSet, StopOthers
    <3>2. callback[f] = "over" /\ f \in Tasks /\ f \in Futures /\ ~Kin(f)
      BY <1>1, <2>1, <2>6, <3>1 DEF Fixed, RunnerInv, OutcomeInv, Kin
    <3>3. Ended(f) /\ (f \in done \/ fut[f] = "ok") /\ fut[f] # "cancelled"
      BY <2>1, <3>2 DEF RunnerInv, CallbackInv
    <3>4. fut[f] = "ok"
      BY <2>3, <3>2, <3>3 DEF Raising, PanicSet, Ended
    <3> QED BY <2>5, <3>2, <3>3, <3>4
  <2>7. ASSUME Callers = {}, NEW f \in Top PROVE Ended(f)
    <3>1. Kids = {} /\ Tasks = Top
      BY <1>1, <2>7 DEF Fixed, Kids
    <3>2. Throwing \subseteq Raising
      BY <1>1, <3>1 DEF Fixed, RunnerInv, Shapes, States, Throwing, Raising, PanicSet, Kin
    <3>3. Flight = {}
      BY <2>3, <3>2
    <3>4. callback[f] # "none" /\ f # Waiter
      BY <1>1, <2>1, <3>1 DEF Fixed, RunnerInv, PlaceInv
    <3> QED BY <3>1, <3>3, <3>4 DEF Flight, PanicSet, RunnerInv, CallbackInv
  <2> QED BY <1>1, <2>5, <2>6, <2>7 DEF Fixed, Ended
<1> QED BY <1>2, <1>3, <1>4, <1>5, <1>6, <1>7 DEF RunnerInv

\* The step timeout passes.
LEMMA ExpireKeeps ==
  ASSUME SetupsOK, RunnerInv, Expire
  PROVE  RunnerInv'
<1>1. Fixed
  BY FixedSets DEF Expire, control, shared, threads
<1>2. Shapes'
  BY <1>1 DEF Fixed, RunnerInv, Shapes, States, Expire, control, shared, threads
<1>3. EventInv'
  BY <1>1 DEF Fixed, RunnerInv, EventInv, Pending, StopOthers, Kin, Expire, control,
     shared, threads
<1>4. CallbackInv'
  BY <1>1 DEF Fixed, RunnerInv, CallbackInv, Ended, Expire, control, shared, threads
<1>5. CallInv'
  BY <1>1 DEF Fixed, RunnerInv, CallInv, Called, Expire, control, shared, threads
<1>6. PlaceInv'
  BY <1>1 DEF Fixed, RunnerInv, PlaceInv, Inline, Expire, control, shared, threads
<1>7. OutcomeInv'
  BY <1>1 DEF Fixed, RunnerInv, OutcomeInv, StopOthers, Kin, Ended, Expire, control,
     shared, threads
<1> QED BY <1>2, <1>3, <1>4, <1>5, <1>6, <1>7 DEF RunnerInv

-----------------------------------------------------------------------------
(* The theorem.                                                             *)

LEMMA RunnerInductive == ASSUME SetupsOK, RunnerInv, [Next]_vars PROVE RunnerInv'
<1>1. CASE Tick
  BY <1>1, EnterKeeps, WaitKeeps, WokenKeeps, TimedOutKeeps, EventWaitKeeps, PanicKeeps,
     ScheduleKeeps, InlineEndsKeeps DEF Tick
<1>2. CASE \E f \in Top \cup Kids : Thread(f)
  BY <1>2, CommitKeeps, CountKeeps, OutputKeeps, FinishKeeps DEF Thread, Tasks
<1>3. CASE \E t \in Callers : Caller(t)
  BY <1>3, CallKeeps, EnlistKeeps, ChainKeeps, AwaitKeeps, ResultKeeps, RetryKeeps DEF Caller
<1>4. CASE Take \/ WaiterEnds \/ Expire
  BY <1>4, TakeKeeps, WaiterEndsKeeps, ExpireKeeps
<1>5. CASE UNCHANGED vars
  <2>1. Fixed
    BY <1>5, FixedSets DEF vars, control
  <2>2. UNCHANGED <<control, shared, threads, expired>>
    BY <1>5 DEF vars
  <2>3. CallInv'
    BY <2>1, <2>2, CallsKept DEF threads
  <2>4. Shapes' /\ PlaceInv'
    BY <2>1, <2>2 DEF Fixed, RunnerInv, Shapes, States, PlaceInv, Inline, control,
       shared, threads
  <2>5. EventInv'
    BY <2>1, <2>2 DEF Fixed, RunnerInv, EventInv, Pending, StopOthers, Kin, control,
       shared, threads
  <2>6. CallbackInv' /\ OutcomeInv'
    BY <2>1, <2>2 DEF Fixed, RunnerInv, CallbackInv, OutcomeInv, StopOthers, Kin, Ended,
       control, shared, threads
  <2> QED BY <2>3, <2>4, <2>5, <2>6 DEF RunnerInv
<1> QED BY <1>1, <1>2, <1>3, <1>4, <1>5 DEF Next

LEMMA RunnerBegins == ASSUME SetupsOK, Init PROVE RunnerInv
<1>1. setup \in Setups
  BY DEF Init
<1>2. Pending = {}
  BY DEF Init, Pending
<1>3. EventInv
  BY <1>2, FS_EmptySet DEF Init, EventInv
<1>4. Shapes
  BY <1>1, TheSets DEF Init, Shapes, States
<1>5. CallInv
  BY <1>1, TheSets DEF Init, CallInv, Tasks
<1>6. CallbackInv /\ PlaceInv /\ OutcomeInv
  BY <1>1, TheSets DEF Init, CallbackInv, PlaceInv, OutcomeInv, Inline, Tasks
<1> QED BY <1>3, <1>4, <1>5, <1>6 DEF RunnerInv

\* For any tasks of a superstep, any of which call others, any number of workers and
\* attempts, with or without a waiter and a step timeout: tick keeps its shape, and the
\* counter of FuturesDict is the number of done callbacks that have not ended; it lets
\* the superstep end (without a timeout) only when every task has succeeded and is
\* committed; a caller that waits for a result is given it only after it was committed;
\* and a superstep that timed out does not pass for done.
THEOREM TickIsOrdered ==
  SetupsOK =>
    (Spec => [](TypeOK /\ ProceedMeansCommitted /\ WaitersSeeCommitted /\ TimeoutIsRaised))
<1> SUFFICES ASSUME SetupsOK
             PROVE  Spec => [](TypeOK /\ ProceedMeansCommitted /\ WaitersSeeCommitted
                               /\ TimeoutIsRaised)
  OBVIOUS
<1>1. Init => RunnerInv
  BY RunnerBegins
<1>2. RunnerInv /\ [Next]_vars => RunnerInv'
  BY RunnerInductive
<1>3. RunnerInv => TypeOK /\ ProceedMeansCommitted /\ WaitersSeeCommitted /\
   TimeoutIsRaised
  <2> SUFFICES ASSUME RunnerInv
               PROVE  TypeOK /\ ProceedMeansCommitted /\ WaitersSeeCommitted /\ TimeoutIsRaised
    OBVIOUS
  <2>1. TypeOK
    BY TheSets DEF RunnerInv, Shapes, EventInv, Pending, TypeOK
  <2>2. ProceedMeansCommitted /\ TimeoutIsRaised
    BY DEF RunnerInv, OutcomeInv, ProceedMeansCommitted, TimeoutIsRaised, Committed
  <2>3. WaitersSeeCommitted
    BY DEF RunnerInv, CallInv, WaitersSeeCommitted, Committed
  <2> QED BY <2>1, <2>2, <2>3
<1> QED BY <1>1, <1>2, <1>3, PTL DEF Spec
=============================================================================
