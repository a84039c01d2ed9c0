----------------------------- MODULE GraphSetups -----------------------------
(***************************************************************************)
(* The calls of a StateGraph that the model checker makes, in every order   *)
(* (GraphBuilder says what a setup is).                                     *)
(***************************************************************************)
EXTENDS TLC

Entry == "__start__"
Finish == "__end__"
Everywhere == {"*"}
Anywhere == {"?"}

\* Nodes are named by letters; "a+b" reads like "a" and "b" when joined.
NameParts ==
    "a" :> <<"a">> @@ "b" :> <<"b">> @@ "d" :> <<"d">> @@ "a+b" :> <<"a", "b">>
      @@ "x" :> <<"x">> @@ "__tasks__" :> <<"t">> @@ "a:b" :> <<"c">>

Node(n) == [op |-> "node", name |-> n, defer |-> FALSE, ends |-> {}]
Late(n) == [Node(n) EXCEPT !.defer = TRUE]
Edge(m, n) == [op |-> "edge", start |-> m, end |-> n]
Wait(ms, n) == [op |-> "join", starts |-> ms, end |-> n]
Branch(m, ends) == [op |-> "branch", source |-> m, name |-> "path", ends |-> ends]
Sequence(ns) == [op |-> "sequence", names |-> ns]
Compiled(before, after) == [op |-> "compile", before |-> before, after |-> after]
Plain == Compiled({}, {})

Setup(calls) == [calls |-> calls, goto |-> {}, push |-> {}]

Joined ==
    Setup({Node("a"), Node("b"), Node("d"), Edge(Entry, "a"), Edge(Entry, "b"),
           Edge("a", "d"), Wait(<<"a", "b">>, "d"), Edge("d", "a"), Plain})

Delayed ==
    Setup({Node("a"), Late("b"), Late("d"), Edge(Entry, "a"), Branch("a", {"a", "b", Finish}),
           Edge("a", "d"), Wait(<<"a", "b">>, "d"), Edge("d", "a"), Plain})

Routed ==
    [Setup({[Node("a") EXCEPT !.ends = {"b"}], Node("b"), Sequence(<<"d", "b", "d">>),
            Branch(Entry, Anywhere), Branch("b", {"a", Finish}), Edge("x", Finish),
            Compiled({"a"}, {"b"}), Compiled({"x"}, Everywhere), Compiled(Everywhere, {Entry})})
       EXCEPT !.goto = {"b", "x", Finish}]

Shared ==
    Setup({Sequence(<<"a", "b", "a+b">>), Node("d"), Edge(Entry, "a"), Edge(Entry, "a+b"),
           Wait(<<"a", "b">>, "d"), Wait(<<"a+b">>, "d"), Wait(<<"x">>, Finish), Plain})

Wrong ==
    Setup({Node("a"), Node("a:b"), Node("__tasks__"), Sequence(<<>>), Edge(Entry, "a"),
           Edge(Finish, "a"), Edge("a", "x"), Branch("a", Anywhere), Branch("a", {"x"}),
           Branch("x", {"a"}), Wait(<<"a">>, Finish), Plain})

Sent ==
    [Setup({Node("a"), Node("b"), Node("d"), Edge(Entry, "a"), Wait(<<"a", "b">>, "d"),
            Edge("d", "a"), Plain})
       EXCEPT !.push = {"a", "b"}]

AllSetups == {Joined, Delayed, Routed, Shared, Wrong, Sent}
=============================================================================
