----------------------------- MODULE MCReactAgent -----------------------------
(* The agent with an odd recursion limit, for the model checker.             *)
EXTENDS ReactAgent

OddLimit ==
    {[version |-> "v2", pre |-> FALSE, post |-> FALSE, format |-> FALSE,
      handler |-> "default", wrapped |-> FALSE, direct |-> {}, limit |-> 3]}

OneTool == {<<>>, <<"plain">>}
=============================================================================
