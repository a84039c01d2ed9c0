--------------------------- MODULE NodeInterrupts ---------------------------
(***************************************************************************)
(* Nodes that stop to ask (types.py, interrupt) and call tasks (_call in    *)
(* pregel/_runner.py), in one superstep on one thread. An invocation runs   *)
(* every node that is not over from its start; a question is answered from  *)
(* the answers kept with the task's pending writes, or stops the node. The  *)
(* saver has put_writes done in any order, by background threads: a crash   *)
(* loses those not done yet. No retry policy: a node fails for good.        *)
(***************************************************************************)
EXTENDS Naturals, FiniteSets, Sequences

CONSTANTS
    Setups,     \* programs, how answers come, the kind of saver, and bounds
    None        \* nothing there

VARIABLES
    setup,      \* one of Setups, for the whole behaviour
    phase,      \* "off", "on" while an invocation runs, "over"
    \* with the saver
    disk,       \* the writes saved for each task
    diskNull,   \* the RESUME of the null task
    kept,       \* the results of calls
    \* in the invocation
    null,       \* the answer given without an interrupt's id, if not yet taken
    given,      \* the one this invocation came with
    resume,     \* scratchpad.resume of each task
    status,     \* of each task
    heard,      \* what each node's body has been told, in order
    committed,  \* what commit has put_writes save, until it is saved
    result,     \* the results of calls
    \* outside
    shown,      \* the question of each task the human has been shown
    runs,       \* how often each call was run
    budget      \* what may still go wrong

saver == <<disk, diskNull, kept>>
memory == <<null, given, resume, status, heard, committed, result>>
vars == <<setup, phase, saver, memory, shown, runs, budget>>

Tasks == DOMAIN setup.programs
Program(t) == setup.programs[t]
Counted(s, what) == Cardinality({k \in DOMAIN s : s[k] = what})
Questions(t) == Counted(Program(t), "ask")

Calls == UNION {{<<t, k>> : k \in 1 .. Counted(Program(t), "call")} : t \in Tasks}

\* An answer is known by the question it was given to: who asked it, and what the
\* task had heard when it did.
Answer(t) == [answers |-> t, after |-> shown[t]]
Result(c, n) == [of |-> c, run |-> n]

\* The rows of a task: RESUME, INTERRUPT, ERROR, and the node's own writes, which
\* come of what the node was told.
NoWrites == [resume |-> None, asked |-> None, failed |-> FALSE, over |-> FALSE, told |-> <<>>]

Kept(w) == IF w.resume = None THEN <<>> ELSE w.resume

NoneShown == [t \in Tasks |-> None]

Init ==
    /\ setup \in Setups
    /\ phase = "off"
    /\ disk = [t \in Tasks |-> NoWrites] /\ diskNull = None
    /\ kept = [c \in Calls |-> None]
    /\ null = None /\ given = None
    /\ resume = [t \in Tasks |-> <<>>]
    /\ status = [t \in Tasks |-> "idle"]
    /\ heard = [t \in Tasks |-> <<>>]
    /\ committed = [t \in Tasks |-> None]
    /\ result = [c \in Calls |-> None]
    /\ shown = NoneShown
    /\ runs = [c \in Calls |-> 0]
    /\ budget = [crashes |-> setup.crashes, failures |-> setup.failures]

-----------------------------------------------------------------------------
(* The human, between invocations                                          *)

BeginPrepends(mapped, bare) ==      \* mutant: the new answer comes first
    /\ phase = "off" /\ phase' = "on"
    /\ resume' = [t \in Tasks |-> IF t \in mapped THEN <<Answer(t)>> \o Kept(disk[t])
                                                  ELSE Kept(disk[t])]
    /\ given' = bare /\ null' = bare
    /\ status' = [t \in Tasks |-> IF disk[t].over THEN "over" ELSE "idle"]
    /\ heard' = [t \in Tasks |-> <<>>]
    /\ committed' = [t \in Tasks |-> None]
    /\ result' = kept
    /\ shown' = NoneShown
    /\ UNCHANGED <<setup, saver, runs, budget>>

\* The loop loads what is saved; tasks with writes of their own do not run
\* again. mapped: the answers that came by interrupt id.
Begin(mapped, bare) ==
    /\ phase = "off" /\ phase' = "on"
    /\ resume' = [t \in Tasks |-> IF t \in mapped THEN Append(Kept(disk[t]), Answer(t))
                                                  ELSE Kept(disk[t])]
    /\ given' = bare /\ null' = bare
    /\ status' = [t \in Tasks |-> IF disk[t].over THEN "over" ELSE "idle"]
    /\ heard' = [t \in Tasks |-> <<>>]
    /\ committed' = [t \in Tasks |-> None]
    /\ result' = kept
    /\ shown' = NoneShown
    /\ UNCHANGED <<setup, saver, runs, budget>>

Asking == {t \in Tasks : shown[t] # None}

\* invoke(input), invoke(None). Where answers carry no id it goes on only where
\* no question is shown.
Continue ==
    /\ setup.mapped \/ Asking = {}
    /\ Begin({}, diskNull)

\* Command(resume={id: answer, ...})
AnswerById ==
    /\ setup.mapped
    /\ \E mapped \in (SUBSET Asking) \ {{}} : Begin(mapped, diskNull)

\* _pending_interrupts
Hanging == {t \in Tasks : disk[t].asked # None /\ disk[t].resume = None}

\* Command(resume=answer): the null task's RESUME, in place of the one before.
AnswerBare ==
    /\ ~setup.mapped /\ Cardinality(Hanging) <= 1
    /\ \E t \in Asking : Begin({}, Answer(t))

-----------------------------------------------------------------------------
(* Tasks                                                                   *)

Start(t) ==
    /\ phase = "on" /\ status[t] = "idle"
    /\ status' = [status EXCEPT ![t] = "runs"]
    /\ UNCHANGED <<setup, phase, saver, null, given, resume, heard, committed, result, shown, runs, budget>>

\* Task t is at a question, or at a call.
At(t, what) ==
    /\ phase = "on" /\ status[t] = "runs"
    /\ Len(heard[t]) < Len(Program(t)) /\ Program(t)[Len(heard[t]) + 1] = what

Before(t, what) == Counted(SubSeq(Program(t), 1, Len(heard[t])), what)

Hear(t, told) == heard' = [heard EXCEPT ![t] = Append(@, told)]

\* interrupt: an earlier answer.
Replay(t) ==
    /\ At(t, "ask") /\ Before(t, "ask") < Len(resume[t])
    /\ Hear(t, resume[t][Before(t, "ask") + 1])
    /\ UNCHANGED <<setup, phase, saver, null, given, resume, status, committed, result, shown, runs, budget>>

\* interrupt: the answer without an id, which one interrupt takes.
TakeNull(t) ==
    /\ At(t, "ask") /\ Before(t, "ask") >= Len(resume[t]) /\ null # None
    /\ resume' = [resume EXCEPT ![t] = Append(@, null)]
    /\ Hear(t, null)
    /\ null' = None
    /\ UNCHANGED <<setup, phase, saver, given, status, committed, result, shown, runs, budget>>

\* CONFIG_KEY_SEND: a node that has had an answer has RESUME among its writes.
Sent(t) == IF Before(t, "ask") = 0 THEN None ELSE resume[t]

Commit(t, as, writes) ==
    /\ status' = [status EXCEPT ![t] = as]
    /\ committed' = [committed EXCEPT ![t] = writes]

InterruptForgets(t) == [NoWrites EXCEPT !.asked = heard[t]]     \* mutant: no RESUME

\* interrupt raises GraphInterrupt: the question is saved, and the answers so far.
InterruptWrites(t) == [NoWrites EXCEPT !.asked = heard[t], !.resume = Sent(t)]

Interrupt(t) ==
    /\ At(t, "ask") /\ Before(t, "ask") >= Len(resume[t]) /\ null = None
    /\ Commit(t, "asks", InterruptWrites(t))
    /\ UNCHANGED <<setup, phase, saver, null, given, resume, heard, result, shown, runs, budget>>

CallOf(t) == <<t, Before(t, "call") + 1>>

\* _call: a call with saved writes has its result at once, another is run. What it
\* gives is on its way to the saver when the node hears it, or a little later.
Call(t) ==
    /\ At(t, "call")
    /\ LET c == CallOf(t)
           n == runs[c] + 1
       IN  IF result[c] # None
           THEN Hear(t, result[c]) /\ UNCHANGED <<runs, result>>
           ELSE /\ runs' = [runs EXCEPT ![c] = n]
                /\ result' = [result EXCEPT ![c] = Result(c, n)]
                /\ Hear(t, Result(c, n))
    /\ UNCHANGED <<setup, phase, saver, null, given, resume, status, committed, shown, budget>>

\* The node's writes, and the answers.
LastWrites(t) ==
    [NoWrites EXCEPT !.over = TRUE, !.told = resume[t], !.resume = Sent(t)]

Finish(t) ==
    /\ phase = "on" /\ status[t] = "runs" /\ Len(heard[t]) = Len(Program(t))
    /\ Commit(t, "over", LastWrites(t))
    /\ UNCHANGED <<setup, phase, saver, null, given, resume, heard, result, shown, runs, budget>>

Error(t) == [NoWrites EXCEPT !.failed = TRUE, !.resume = Sent(t)]

\* The node raises, or what it calls does.
Fail(t) ==
    /\ phase = "on" /\ status[t] = "runs" /\ budget.failures > 0
    /\ Commit(t, "failed", Error(t))
    /\ budget' = [budget EXCEPT !.failures = @ - 1]
    /\ UNCHANGED <<setup, phase, saver, null, given, resume, heard, result, shown, runs>>

\* Where another task has failed, one that has not started is cancelled; so is
\* one that was called and has not, which fails its caller.
Cancel(t) ==
    /\ phase = "on" /\ \E u \in Tasks : status[u] = "failed"
    /\ status[t] = "idle" \/ (At(t, "call") /\ result[CallOf(t)] = None)
    /\ Commit(t, "failed", Error(t))
    /\ UNCHANGED <<setup, phase, saver, null, given, resume, heard, result, shown, runs, budget>>

-----------------------------------------------------------------------------
(* The saver                                                               *)

MergeKeepsFirst(old, new) ==        \* mutant: what is saved stays
    [resume |-> IF old.resume = None THEN new.resume ELSE old.resume,
     asked  |-> IF old.asked = None THEN new.asked ELSE old.asked,
     failed |-> old.failed \/ new.failed,
     over   |-> old.over \/ new.over,
     told   |-> IF new.over THEN new.told ELSE old.told]

\* put_writes: ERROR, INTERRUPT and RESUME replace what was saved before. With SQL they do
\* so only where they come alone: beside a node's own writes (INSERT OR IGNORE, DO
\* NOTHING) the row that is there stays.
Replaces(old, new) ==
    new.resume # None /\ ~(setup.sql /\ new.over /\ old.resume # None)

Merge(old, new) ==
    [resume |-> IF Replaces(old, new) THEN new.resume ELSE old.resume,
     asked  |-> IF new.asked = None THEN old.asked ELSE new.asked,
     failed |-> old.failed \/ new.failed,
     over   |-> old.over \/ new.over,
     told   |-> IF new.over THEN new.told ELSE old.told]

SaveTask(t) ==
    /\ phase = "on" /\ committed[t] # None
    /\ disk' = [disk EXCEPT ![t] = Merge(@, committed[t])]
    /\ committed' = [committed EXCEPT ![t] = None]
    /\ UNCHANGED <<setup, phase, diskNull, kept, null, given, resume, status, heard, result, shown, runs, budget>>

SaveResult(c) ==
    /\ phase = "on" /\ result[c] # kept[c]
    /\ kept' = [kept EXCEPT ![c] = result[c]]
    /\ UNCHANGED <<setup, phase, disk, diskNull, memory, shown, runs, budget>>

SaveNull ==
    /\ phase = "on" /\ given # diskNull
    /\ diskNull' = given
    /\ UNCHANGED <<setup, phase, disk, kept, memory, shown, runs, budget>>

-----------------------------------------------------------------------------
(* The end of an invocation                                                *)

Saved == (\A t \in Tasks : committed[t] = None) /\ result = kept /\ given = diskNull

Ended(t) == status[t] \in {"over", "asks", "failed"}

\* The invocation waits for its tasks and for its saves. It raises if a task has
\* failed; otherwise it returns the questions, or the superstep is over.
Return ==
    /\ phase = "on" /\ Saved /\ \A t \in Tasks : Ended(t)
    /\ phase' = IF \A t \in Tasks : status[t] = "over" THEN "over" ELSE "off"
    /\ shown' = IF \E t \in Tasks : status[t] = "failed" THEN NoneShown
                ELSE [t \in Tasks |-> IF status[t] = "asks" THEN disk[t].asked ELSE None]
    /\ UNCHANGED <<setup, saver, memory, runs, budget>>

\* After a crash the human looks at the state, which shows what tasks have asked,
\* those that are over too. Of one with an error nobody knows whether its question
\* is still open.
Shown(t) == IF disk[t].failed THEN None ELSE disk[t].asked

Crash ==
    /\ phase = "on" /\ budget.crashes > 0
    /\ phase' = "off"
    /\ budget' = [budget EXCEPT !.crashes = @ - 1]
    /\ shown' = [t \in Tasks |-> Shown(t)]
    /\ UNCHANGED <<setup, saver, memory, runs>>

Human == Continue \/ AnswerById \/ AnswerBare

Task(t) ==
    \/ Start(t) \/ Replay(t) \/ TakeNull(t) \/ Interrupt(t) \/ Call(t)
    \/ Finish(t) \/ Fail(t) \/ Cancel(t)

Save == SaveNull \/ (\E t \in Tasks : SaveTask(t)) \/ (\E c \in Calls : SaveResult(c))

Next == Human \/ (\E t \in Tasks : Task(t)) \/ Save \/ Return \/ Crash

Spec == Init /\ [][Next]_vars

\* The human answers, the threads run.
Fairness ==
    /\ SF_vars(AnswerById \/ AnswerBare) /\ WF_vars(Human)
    /\ WF_vars(\E t \in Tasks : Task(t)) /\ WF_vars(Save) /\ WF_vars(Return)

FairSpec == Spec /\ Fairness

-----------------------------------------------------------------------------
(* Properties                                                              *)

\* [types.interrupt] Every answer a node gets was given to the question it is at,
\* and to that question as it asks it now: its program has heard the same again.
AnswersFit ==
    \A t \in Tasks : \A k \in DOMAIN heard[t] :
        Program(t)[k] = "ask" =>
            heard[t][k] = [answers |-> t, after |-> SubSeq(heard[t], 1, k - 1)]

\* The record of a question: which one of its task's it was.
Recorded(answer) ==
    <<answer.answers, Cardinality({k \in DOMAIN answer.after :
                                       Program(answer.answers)[k] = "ask"}) + 1>>

\* The answers that what is saved of a task stands for: those it will be told again, or
\* those its own writes come of.
Standing(w) == IF w.over THEN w.told ELSE Kept(w)

Promise ==
    INSTANCE Dialogue WITH
      questions <- [t \in Tasks |-> Questions(t)],
      answers <- [t \in Tasks |-> [k \in DOMAIN Standing(disk[t]) |->
                                       Recorded(Standing(disk[t])[k])]],
      results <- {<<c[1], c[2], kept[c].run>> : c \in {d \in Calls : kept[d] # None}},
      ended <- {t \in Tasks : disk[t].over}

\* [put_writes, commit] Whatever fails, crashes or is not saved in time, with either
\* kind of saver, what is saved of a task stands for a dialogue in order: answers
\* are added one by one and not lost, and a task whose own writes are saved made
\* them with all of its answers, though an SQL saver may have kept fewer.
ImplementsDialogue == Promise!Spec

\* A human who goes on answering brings the superstep to its end.
DialogueEnds == <>(phase = "over")

-----------------------------------------------------------------------------
\* A setting in which an answer without an id is heard twice: a node that asks twice and
\* fails in between.
BareFails ==
    {[programs |-> [a |-> <<"ask", "ask">>], mapped |-> FALSE, sql |-> TRUE,
      crashes |-> 0, failures |-> 1]}
=============================================================================
