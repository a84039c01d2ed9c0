------------------------------ MODULE ReactAgent ------------------------------
(***************************************************************************)
(* The agent of create_react_agent (prebuilt/chat_agent_executor.py): a     *)
(* model and a ToolNode (prebuilt/tool_node.py) that call each other on one *)
(* thread, with hooks around the model, in the supersteps and under the     *)
(* recursion limit of Pregel. A run that raised is resumed, or its thread   *)
(* gets a new input.                                                        *)
(***************************************************************************)
EXTENDS Integers, Sequences, FiniteSets, FiniteSetsExt, Functions

CONSTANTS
    Setups,          \* arguments of create_react_agent: see Init
    Requests,        \* the tools one response of the model may call, in order
    MaxInputs, MaxFailures

VARIABLES
    setup,
    messages,        \* the channel "messages"
    due,             \* the node of the next superstep and, for tools, the calls
    results,         \* ToolMessages of the tools that have ended in it, by call
    left,            \* remaining_steps: stop - step
    outcome,         \* of the invocation
    inputs, failures, lastId,
    abandoned,       \* ghost: a new input came while calls were open
    resumed          \* ghost: this invocation is invoke(None)

vars == <<setup, messages, due, results, left, outcome, inputs, failures, lastId,
          abandoned, resumed>>

Human == [kind |-> "human"]
AI(calls, sorry) == [kind |-> "ai", calls |-> calls, sorry |-> sorry]
Tool(call, status) == [kind |-> "tool", id |-> call.id, name |-> call.name, status |-> status]
Cleared == [kind |-> "remove_all"]      \* RemoveMessage(REMOVE_ALL_MESSAGES)

Registered == {"plain", "direct"}        \* the tools of the ToolNode
Entry == IF setup.pre THEN "pre" ELSE "agent"

On(node) == [node |-> node, calls |-> <<>>]
Tools(calls) == [node |-> "tools", calls |-> calls]
Nothing == On("none")

-----------------------------------------------------------------------------
(* The history of the thread.                                               *)

\* add_messages: in order; whatever was there before a REMOVE_ALL is dropped.
AddMessages(history, new) ==
    LET clears == {i \in DOMAIN new : new[i] = Cleared}
    IN  IF clears = {} THEN history \o new ELSE SubSeq(new, Max(clears) + 1, Len(new))

LastAI(history) == history[Max({i \in DOMAIN history : history[i].kind = "ai"})]

CallsOf(history) ==
    UNION {Range(m.calls) : m \in {x \in Range(history) : x.kind = "ai"}}

Answers(history, call) ==
    {i \in DOMAIN history : history[i].kind = "tool" /\ history[i].id = call.id}

\* _validate_chat_history
Valid(history) == \A call \in CallsOf(history) : Answers(history, call) # {}

AllCalls(history) == LastAI(history).calls   \* mutant: those that are answered, too

\* The calls post_model_hook_router finds pending.
PendingCalls(history) ==
    SelectSeq(LastAI(history).calls, LAMBDA call : Answers(history, call) = {})

-----------------------------------------------------------------------------
(* Supersteps.                                                              *)

\* after_tick and the next tick: the limit is looked at before the tasks.
Continue(next, history) ==
    /\ messages' = history
    /\ due' = next
    /\ results' = <<>>
    /\ left' = left - 1
    /\ outcome' = CASE left = 0 -> "recursion"
                    [] left > 0 /\ next = Nothing -> "done"
                    [] OTHER -> "running"

Raise(what) ==
    /\ outcome' = what
    /\ UNCHANGED <<messages, due, left>>

Running(node) == outcome = "running" /\ due.node = node

PreModelHook ==
    /\ Running("pre")
    /\ Continue(On("agent"), messages)
    /\ UNCHANGED <<setup, inputs, failures, lastId, abandoned, resumed>>

OnlyWhenNoStep(calls) ==     \* mutant: the last step is taken for a tool's
    left < 1 /\ calls # <<>>

\* _are_more_steps_needed; all([]) makes a final answer "return direct" as well.
MoreStepsNeeded(calls) ==
    \/ left < 1 /\ \A call \in Range(calls) : call.name \in setup.direct
    \/ left < 2 /\ calls # <<>>

\* should_continue
AfterAgent(calls) ==
    IF setup.post THEN On("post")
    ELSE IF calls # <<>> THEN Tools(calls)
    ELSE IF setup.format THEN On("format") ELSE Nothing

\* call_model: the response asks for the tools of "names".
CallModel(names) ==
    /\ Running("agent")
    /\ LET asked == [i \in DOMAIN names |-> [id |-> lastId + i, name |-> names[i]]]
           sorry == MoreStepsNeeded(asked)
           calls == IF sorry THEN <<>> ELSE asked
       IN  IF Valid(messages)
           THEN /\ Continue(AfterAgent(calls), Append(messages, AI(calls, sorry)))
                /\ lastId' = lastId + Len(calls)
           ELSE Raise("invalid") /\ UNCHANGED <<lastId, results>>
    /\ UNCHANGED <<setup, inputs, failures, abandoned, resumed>>

\* post_model_hook, which may answer some of the calls itself, and its router.
PostModelHook(refused) ==
    /\ Running("post")
    /\ refused \subseteq {call.id : call \in Range(LastAI(messages).calls)}
    /\ LET own == SelectSeq(LastAI(messages).calls, LAMBDA call : call.id \in refused)
           history == messages \o [i \in DOMAIN own |-> Tool(own[i], "refused")]
           pending == PendingCalls(history)
           next == IF pending # <<>> THEN Tools(pending)
                   ELSE IF history[Len(history)].kind = "tool" THEN On(Entry)
                   ELSE IF setup.format THEN On("format") ELSE Nothing
       IN  Continue(next, history)
    /\ UNCHANGED <<setup, inputs, failures, lastId, abandoned, resumed>>

StructuredResponse ==
    /\ Running("format")
    /\ Continue(Nothing, messages)
    /\ UNCHANGED <<setup, inputs, failures, lastId, abandoned, resumed>>

-----------------------------------------------------------------------------
(* ToolNode. A call ends in one of these ways:                              *)
(*   "ok", "clear"              a value; a Command that removes all messages *)
(*   "bad_args"                 arguments that do not fit: ToolInvocationError*)
(*   "error"                    any other exception of the tool              *)
(*   "interrupt"                GraphInterrupt, a GraphBubbleUp              *)
(*   "bad_command"              a Command without the call's ToolMessage     *)

Ends == {"ok", "clear", "bad_args", "error", "interrupt", "bad_command"}

\* _execute_tool_sync and _handle_tool_error: handle_tool_errors is the default,
\* True ("all") or False ("none").
Caught(how) ==
    \/ how = "bad_args" /\ setup.handler # "none"
    \/ how = "error" /\ setup.handler = "all"

\* _run_one: what wrap_tool_call lets through is caught here.
CaughtAround(how) == setup.wrapped /\ setup.handler = "all"

IsAnswered(call, how) ==
    call.name \notin Registered \/ how \in {"ok", "clear"} \/ Caught(how) \/ CaughtAround(how)

Message(call, how) ==
    IF call.name \notin Registered THEN Tool(call, "unregistered")
    ELSE IF how = "clear" THEN Cleared ELSE Tool(call, how)

\* Where an edge or route_tool_responses leads after tools that gave "new".
IgnoreSiblings(history) ==   \* mutant: only the ToolMessages are looked at
    LET tail == {i \in DOMAIN history : \A j \in i .. Len(history) : history[j].kind = "tool"}
    IN  IF \E i \in tail : history[i].name \in setup.direct THEN Nothing ELSE On(Entry)

RouteToolResponses(history) ==
    LET tail == {i \in DOMAIN history : \A j \in i .. Len(history) : history[j].kind = "tool"}
        before == Len(history) - Cardinality(tail)
    IN  IF \/ \E i \in tail : history[i].name \in setup.direct
           \/ before > 0 /\ history[before].kind = "ai"
              /\ \E call \in Range(history[before].calls) : call.name \in setup.direct
        THEN Nothing ELSE On(Entry)

\* v2: a task per call, each routing on the state it read and its own writes.
AfterTools(done) ==
    LET new == [i \in DOMAIN due.calls |-> done[due.calls[i].id]]
        routes == IF setup.direct = {} THEN {On(Entry)}
                  ELSE IF setup.version = "v1"
                  THEN {RouteToolResponses(AddMessages(messages, new))}
                  ELSE {RouteToolResponses(AddMessages(messages, <<m>>)) : m \in Range(new)}
        next == IF On(Entry) \in routes THEN On(Entry) ELSE Nothing
    IN  Continue(next, AddMessages(messages, new))

\* One call ends; with the last one, the superstep. A task that raises ends the
\* invocation; what other tasks had saved is kept for a resume.
RunTool(call, how) ==
    /\ Running("tools") /\ call.id \notin DOMAIN results
    /\ how = "clear" => setup.direct = {}
    /\ LET answer == [i \in {call.id} |-> Message(call, how)]
           done == [i \in DOMAIN results \cup {call.id} |->
                       IF i = call.id THEN answer[i] ELSE results[i]]
       IN  IF ~IsAnswered(call, how)
           THEN /\ failures < MaxFailures
                /\ failures' = failures + 1
                /\ Raise(how)
                /\ results' = IF setup.version = "v1" THEN <<>> ELSE results
           ELSE /\ UNCHANGED failures
                /\ IF Cardinality(DOMAIN done) = Len(due.calls) THEN AfterTools(done)
                   ELSE results' = done /\ UNCHANGED <<messages, due, left, outcome>>
    /\ UNCHANGED <<setup, inputs, lastId, abandoned, resumed>>

-----------------------------------------------------------------------------
(* Invocations. A new input takes two supersteps before the first node's:    *)
(* stop - step is the limit less one there, and the limit plus one at the    *)
(* node a resume goes on with.                                               *)

NewInput ==
    /\ outcome # "running" /\ inputs < MaxInputs
    /\ inputs' = inputs + 1
    /\ abandoned' = (abandoned \/ ~Valid(messages))
    /\ messages' = Append(messages, Human)
    /\ due' = On(Entry) /\ results' = <<>> /\ left' = setup.limit - 1
    /\ outcome' = "running" /\ resumed' = FALSE
    /\ UNCHANGED <<setup, failures, lastId>>

Resume ==
    /\ outcome \notin {"running", "done", "new", "invalid"} /\ due # Nothing
    /\ outcome' = "running" /\ resumed' = TRUE
    /\ left' = setup.limit + 1
    /\ failures' = failures + (IF outcome = "recursion" THEN 1 ELSE 0)
    /\ failures' <= MaxFailures
    /\ UNCHANGED <<setup, messages, due, results, inputs, lastId, abandoned>>

Init ==
    /\ setup \in Setups  \* version, pre, post, format, handler, wrapped, direct, limit
    /\ messages = <<>> /\ due = Nothing /\ results = <<>> /\ left = 0
    /\ outcome = "new"
    /\ inputs = 0 /\ failures = 0 /\ lastId = 0
    /\ abandoned = FALSE /\ resumed = FALSE

Next ==
    \/ NewInput \/ Resume
    \/ PreModelHook \/ StructuredResponse
    \/ \E names \in Requests : CallModel(names)
    \/ \E refused \in SUBSET {call.id : call \in CallsOf(messages)} : PostModelHook(refused)
    \/ \E call \in Range(due.calls), how \in Ends : RunTool(call, how)

Spec == Init /\ [][Next]_vars

-----------------------------------------------------------------------------
(* Properties.                                                              *)

\* [ToolNode, post_model_hook_router] When the model is due, every call in the
\* history has exactly one answer, whatever failed, was resumed or was answered by
\* the hook, unless a human went on without the open calls.
CallsAnsweredOnce ==
    due.node \in {"agent", "pre"} /\ ~abandoned =>
        \A call \in CallsOf(messages) : Cardinality(Answers(messages, call)) = 1

\* [route_tool_responses] The answer of a tool with return_direct is the last word:
\* the model is not due again before the next input.
ReturnDirectEnds ==
    \A i \in DOMAIN messages :
        /\ messages[i].kind = "tool" /\ messages[i].name \in setup.direct
        /\ messages[i].status # "refused"
        /\ due.node \in {"agent", "pre"}
        => \E j \in i .. Len(messages) : messages[j].kind = "human"

\* [_are_more_steps_needed] An agent without hooks and structured response that
\* starts with an even recursion limit always ends before the limit does.
EvenLimitsSuffice ==
    outcome = "recursion" =>
        setup.limit % 2 = 1 \/ setup.pre \/ setup.post \/ setup.format \/ resumed

-----------------------------------------------------------------------------
(* What the repository says, and the code does not do.                      *)

\* [chat_agent_executor.py:437] "If `remaining_steps` is less than 2 and tool calls
\* are present in the response, the react agent will return a final AI Message
\* [...]. No `GraphRecusionError` will be raised in this case."
SorryIsFinal ==
    messages # <<>> /\ messages[Len(messages)].kind = "ai" /\ messages[Len(messages)].sorry
        => outcome # "recursion"

\* [tool_node.py:940] "GraphInterrupt is a special exception that will always be
\* raised": no ToolMessage is made of it.
InterruptsAreRaised ==
    \A i \in DOMAIN messages :
        messages[i].kind = "tool" => messages[i].status # "interrupt"
=============================================================================
