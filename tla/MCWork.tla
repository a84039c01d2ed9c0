-------------------------------- MODULE MCWork --------------------------------
(***************************************************************************)
(* Work that is done for someone, side by side for the model checker: the  *)
(* tool that runs generated code (CodeSandbox), a tick of the task runner  *)
(* (PregelRunner), the requests of the SDK's clients (SdkCalls), the        *)
(* operations of a store's methods (StoreCalls) and the runs of a           *)
(* RemoteGraph (RemoteGraph). A behaviour is about one part. Every          *)
(* behaviour begins with a call of the tool; where it is about another     *)
(* part, the tool raises at once.                                          *)
(***************************************************************************)
EXTENDS CodeSandbox, TLC

CONSTANTS
    Ticks,           \* PregelRunner's Setups
    RemoteRuns,      \* RemoteGraph's Asked
    MaxEvents,       \* bound: events of a run of a RemoteGraph before it ends
    MaxStates        \* bound: checkpoints of a RemoteGraph's thread

VARIABLES
    part,
    setup, tPc, todo, dict, watch, counter, event, done, fut, callback, queue, tAttempt,
    tCall, stream, expired, outcome, budget,
    call, requests, answers,
    asked, made,
    ask, events, interrupts, ended, got, own, threads, held, meant, sent

tick == <<setup, tPc, todo, dict, watch, counter, event, done, fut, callback, queue, tAttempt,
          tCall, stream, expired, outcome, budget>>
calls == <<call, requests, answers>>
store == <<asked, made>>
remote == <<ask, events, interrupts, ended, got, own, threads, held, meant, sent>>
all == <<part, vars, tick, calls, store, remote>>

-----------------------------------------------------------------------------
(* One program of every kind the code tells apart.                          *)

MCPrograms == {"good", "bug", "loop", "banned", "banned_loop"}

MCSafe == [p \in MCPrograms |-> p \in {"good", "bug", "loop"}]

MCEnds == [p \in MCPrograms |-> CASE p = "bug" -> "nonzero"
                                  [] p \in {"loop", "banned_loop"} -> "hangs"
                                  [] OTHER -> "zero"]

-----------------------------------------------------------------------------
(* Calls of PregelRunner.tick.                                              *)

\* Two tasks, one of which calls another.
Calling == [tasks |-> {"a", "b"}, callers |-> {"a"}, workers |-> 3, waiter |-> FALSE,
            timeout |-> FALSE, attempts |-> 1, failures |-> 1, output |-> 0, stuck |-> FALSE]

\* The caller's first attempt may fail after its call; output is streamed meanwhile.
Retried == [Calling EXCEPT !.tasks = {"a"}, !.attempts = 2, !.waiter = TRUE]

\* One task and no more: tick runs it itself.
Alone == [Retried EXCEPT !.waiter = FALSE, !.workers = 1, !.failures = 2]

\* With a step timeout.
Timed == [Calling EXCEPT !.callers = {}, !.workers = 2, !.waiter = TRUE, !.timeout = TRUE,
                         !.failures = 2, !.output = 1]

\* Tasks may run for ever.
Stuck == [Calling EXCEPT !.callers = {}, !.waiter = TRUE, !.failures = 2, !.stuck = TRUE]

FiveTicks == {Calling, Retried, Alone, Timed, Stuck}

-----------------------------------------------------------------------------
(* Runs of a RemoteGraph: stream with one mode, several or none, with and   *)
(* without subgraphs, and invoke; of a root graph, and in a node of a graph  *)
(* that is streamed, or not.                                                *)

Stream(modes) == [invoke |-> FALSE, modes |-> modes, single |-> Len(modes) < 2]

Streams == {Stream(<<>>), Stream(<<"updates">>), Stream(<<"values">>), Stream(<<"messages">>),
            Stream(<<"custom", "messages">>), Stream(<<"values", "updates">>)}

Invoke == [Stream(<<>>) EXCEPT !.invoke = TRUE]

Root == [caller |-> <<>>, parent |-> {}]
In(modes) == [caller |-> <<"n">>, parent |-> modes]
Places == {Root, In({}), In({"updates", "messages"}), In({"values", "custom"})}

MCRemoteRuns ==
    {r @@ [subgraphs |-> s] @@ p : r \in Streams, s \in BOOLEAN, p \in Places}
      \cup {Invoke @@ [subgraphs |-> FALSE] @@ p : p \in Places}

-----------------------------------------------------------------------------
Runner ==
    INSTANCE PregelRunnerProofs WITH
      Setups <- Ticks, pc <- tPc, attempt <- tAttempt, call <- tCall

ASSUME RunnerSetups == Runner!SetupsOK

Sdk == INSTANCE SdkCalls

Store == INSTANCE StoreCalls

Remote == INSTANCE RemoteGraph WITH Asked <- RemoteRuns

ASSUME RemoteCalls == RemoteRuns \subseteq Remote!Calls

-----------------------------------------------------------------------------
WorkInit ==
    /\ part \in {"sandbox", "tick", "calls", "store", "remote"}
    /\ Init /\ Runner!Init /\ Sdk!Init /\ Store!Init /\ Remote!Init
    /\ part # "sandbox" => script = None
    /\ part # "tick" => setup = Alone /\ ~stream
    /\ part # "remote" => own = <<>> /\ held = [thread_id |-> "t1"]

\* The tool; in a behaviour about something else, it raises.
Sandbox ==
    /\ Next
    /\ part # "sandbox" => pc' = "raised"
    /\ UNCHANGED <<part, tick, calls, store, remote>>

WorkNext ==
    \/ Sandbox
    \/ /\ pc = "raised" /\ UNCHANGED <<part, vars>>
       /\ \/ part = "tick" /\ Runner!Next /\ UNCHANGED <<calls, store, remote>>
          \/ part = "calls" /\ Sdk!Next /\ UNCHANGED <<tick, store, remote>>
          \/ part = "store" /\ Store!Next /\ UNCHANGED <<tick, calls, remote>>
          \/ part = "remote" /\ Remote!Next /\ UNCHANGED <<tick, calls, store>>

\* The parts' own fairness: nothing is asked of a part the behaviour is not about.
TickRuns ==
    LET On(A) == part = "tick" /\ pc = "raised" /\ A
    IN  /\ WF_tick(On(Runner!Tick))
        /\ WF_tick(On(Runner!Take))
        /\ WF_tick(On(Runner!WaiterEnds))
        /\ \A t \in Runner!AllTasks : WF_tick(On(Runner!CallGoesOn(t)))
        /\ \A f \in Runner!AllTasks \X (0 .. Runner!MostAttempts) : WF_tick(On(Runner!Goes(f)))

WorkSpec == WorkInit /\ [][WorkNext]_all /\ WF_vars(Sandbox) /\ TickRuns

-----------------------------------------------------------------------------
(* The properties of the parts, which the modules state.                    *)

\* What the runner lets happen is committed first, and a timeout is seen.
TickIsOrdered ==
    part = "tick" =>
      Runner!ProceedMeansCommitted /\ Runner!WaitersSeeCommitted /\ Runner!TimeoutIsRaised

\* What has been begun ends: the call of the tool (ToolEnds), whatever the programs
\* do, and the tick (TickEnds).
Begun == IF part = "tick" THEN ~setup.stuck \/ Runner!LateFailure ELSE TRUE
Over == IF part = "tick" THEN tPc = "over" ELSE pc \in {"returned", "raised"}
WorkEnds == Begun ~> Over

\* Both clients of the SDK send what they are given, and the same; so do the four ways to
\* ask a store.
RequestsAgree ==
    Sdk!TwinsAgree /\ Sdk!ZerosAreSent /\ Sdk!WaitsAgree /\ Store!WaysAgree /\ Store!SaidIsMeant

\* A RemoteGraph behaves the same way as the graph run in place: what stream hands out, to
\* its caller and to the stream of a graph above, how runs end, what invoke returns, and
\* the same of the asynchronous methods; and a config that came back from the server names
\* the checkpoint it came for.
RemoteIsLocal ==
    /\ Remote!YieldsAgree /\ Remote!ParentsAgree /\ Remote!EndsAgree
    /\ Remote!InvokesAgree /\ Remote!TwinsAgree
    /\ Remote!ConfigsComeBack

\* Says the comment at the end of _call.
CallCommittedFirst == part = "tick" => Runner!CallCommittedFirst
=============================================================================
