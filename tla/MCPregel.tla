------------------------------ MODULE MCPregel ------------------------------
(***************************************************************************)
(* Graphs for the model checker.                                           *)
(***************************************************************************)
EXTENDS PregelLoop

\* Fan: START runs "s", which goes to "a", to "b", or to both; "a" goes on to
\* "b". All of them write the state key "log" (a reducer).
FanChannels == {"start", "to_a", "to_b", "log"}
FanKind == [start |-> "ephemeral", to_a |-> "ephemeral", to_b |-> "ephemeral",
            log |-> "binop"]
FanNodes == {"s", "a", "b"}
FanTriggers == [s |-> {"start"}, a |-> {"to_a"}, b |-> {"to_b"}]
FanRoutes == [s |-> {{"to_a", "log"}, {"to_a", "to_b", "log"}},
              a |-> {{"to_b", "log"}, {}}, b |-> {{"log"}}]
FanNames == [c \in FanChannels |-> {}]
FanPartials == [n \in FanNodes |-> {{}}]

\* Choice: "s" goes to "a", which may go round for ever, or to "b".
ChoiceRoutes == [s |-> {{"to_a", "log"}, {"to_b"}}, a |-> {{"to_a"}, {"log"}},
                 b |-> {{"log"}}]

\* Partial: a branch function of "s" or "a" raises after the node's state was written.
FanBranchRaises == [n \in FanNodes |-> {{}, {"log"}}]

\* Join: "a" and "x" run first; "x" goes on to "b"; "d" waits for "a" and "b".
\* The key "last" takes one value in a step, "log" any number.
JoinChannels == {"start", "to_b", "join", "last"}
JoinKind == [start |-> "ephemeral", to_b |-> "ephemeral", join |-> "barrier",
             last |-> "last"]
JoinNodes == {"a", "x", "b", "d"}
JoinTriggers == [a |-> {"start"}, x |-> {"start"}, b |-> {"to_b"}, d |-> {"join"}]
JoinRoutes == [a |-> {{"join"}, {"join", "last"}}, x |-> {{"to_b"}, {"to_b", "last"}},
               b |-> {{"join", "last"}}, d |-> {{"last"}}]
JoinNames == [c \in JoinChannels |-> IF c = "join" THEN {"a", "b"} ELSE {}]
JoinPartials == [n \in JoinNodes |-> {{}}]
=============================================================================
