------------------------------ MODULE Dialogue ------------------------------
(***************************************************************************)
(* What a node that asks a human questions promises to whoever runs it: its *)
(* record holds the answers to its questions in the order it asks them, no  *)
(* answer is forgotten, changed or given to another question, what it calls *)
(* has one result, and it is over only when all of them are answered.       *)
(***************************************************************************)
EXTENDS Naturals, Sequences

VARIABLES
    questions,      \* how many questions each task asks
    answers,        \* the recorded answers of each task: <<task, question>>
    results,        \* the recorded results: <<task, call, value>>
    ended           \* the tasks recorded as over

vars == <<questions, answers, results, ended>>

Init ==
    /\ answers = [t \in DOMAIN questions |-> <<>>]
    /\ results = {} /\ ended = {}

NextAnswer(t) == <<t, Len(answers[t]) + 1>>

\* A task's record is written: it holds one more answer, or says that the task
\* has all of them and is over, or both.
Record(t) ==
    /\ t \notin ended
    /\ \/ UNCHANGED answers
       \/ answers' = [answers EXCEPT ![t] = Append(@, NextAnswer(t))]
    /\ \/ UNCHANGED ended
       \/ ended' = ended \cup {t} /\ Len(answers'[t]) = questions[t]
    /\ \A u \in DOMAIN questions : Len(answers'[u]) <= questions[u]
    /\ UNCHANGED <<questions, results>>

\* A call's result is recorded, once.
Keep ==
    /\ \E new \in results' : /\ results' = results \cup {new}
                             /\ \A old \in results : <<old[1], old[2]>> # <<new[1], new[2]>>
    /\ UNCHANGED <<questions, answers, ended>>

Next == Keep \/ \E t \in DOMAIN questions : Record(t)

Spec == Init /\ [][Next]_vars
=============================================================================
