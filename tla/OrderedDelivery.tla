--------------------------- MODULE OrderedDelivery ---------------------------
(***************************************************************************)
(* What the caller of a stream is promised: the parts of the run, each once  *)
(* and in their order, until all were handed over or an error is raised.    *)
(***************************************************************************)
EXTENDS Naturals, Sequences

CONSTANT Length            \* parts the run streams

VARIABLES delivered, outcome

Init == delivered = <<>> /\ outcome = "none"

Deliver ==
    /\ outcome = "none" /\ Len(delivered) < Length
    /\ delivered' = Append(delivered, Len(delivered) + 1)
    /\ UNCHANGED outcome

Finish ==
    /\ outcome = "none" /\ Len(delivered) = Length
    /\ outcome' = "done" /\ UNCHANGED delivered

\* The last part may come with the end of the stream.
Close ==
    /\ outcome = "none" /\ Len(delivered) = Length - 1
    /\ delivered' = Append(delivered, Length) /\ outcome' = "done"

Fail == outcome = "none" /\ outcome' = "raised" /\ UNCHANGED delivered

Next == Deliver \/ Finish \/ Close \/ Fail

Spec == Init /\ [][Next]_<<delivered, outcome>>
=============================================================================
