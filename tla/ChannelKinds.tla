----------------------------- MODULE ChannelKinds -----------------------------
(***************************************************************************)
(* The channels of src/libs/langgraph/langgraph/channels/, one of each      *)
(* kind, through the steps apply_writes (pregel/_algo.py) takes them: what   *)
(* was read is consumed, the writes of the step are applied, and at the end  *)
(* of the run finish is told. In between a channel may be saved and loaded.  *)
(***************************************************************************)
EXTENDS Integers, Sequences, FiniteSets, Functions

CONSTANTS
    Kinds,        \* records: see the kinds in Update
    Values,
    Names,        \* what a barrier waits for
    MaxSteps

VARIABLES
    kind,
    held,         \* what the channel holds; <<>> is MISSING
    finished,     \* the flag of the AfterFinish channels
    outcome,      \* how the last update ended: "same", "updated", "raised"
    read,         \* whether the last step consumed what it read, without a new write
    wrote,        \* the writes of the last step
    steps

vars == <<kind, held, finished, outcome, read, wrote, steps>>

After == {"after", "barrier_after"}
Barriers == {"barrier", "barrier_after"}

\* A write; only a reducer tells an Overwrite from a value.
Write(v) == [value |-> v, over |-> FALSE]
Overwrite(v) == [value |-> v, over |-> TRUE]

\* What a channel that knows no Overwrite is left with.
Raw(w) == IF w.over THEN "Overwrite" ELSE w.value

ValuesOf(ws) == [i \in DOMAIN ws |-> Raw(ws[i])]

\* BinaryOperatorAggregate: what the type's constructor makes; the reducer appends.
Empty(k) == IF k.name = "binop" /\ k.default THEN <<"zero">> ELSE <<>>

IsAvailable(h, f) ==
    /\ IF kind.name \in Barriers THEN Range(h) = Names ELSE h # <<>>
    /\ kind.name \in After => f

-----------------------------------------------------------------------------
(* update, by kind: [held, finished, outcome]                               *)

Same(h, f) == [held |-> h, finished |-> f, outcome |-> "same"]
Now(h, f) == [held |-> h, finished |-> f, outcome |-> "updated"]
Raises(h, f) == [held |-> h, finished |-> f, outcome |-> "raised"]

\* One value a step, kept until the next.
UpdateLast(h, vs) ==
    IF vs = <<>> THEN Same(h, FALSE)
    ELSE IF Len(vs) > 1 THEN Raises(h, FALSE) ELSE Now(vs, FALSE)

\* UntrackedValue takes several where it is not guarded.
UpdateUntracked(h, vs) ==
    IF vs = <<>> THEN Same(h, FALSE)
    ELSE IF Len(vs) > 1 /\ kind.guard THEN Raises(h, FALSE) ELSE Now(<<vs[Len(vs)]>>, FALSE)

\* EphemeralValue forgets when it is told nothing; so does AnyValue, unguarded.
UpdateEphemeral(h, vs) ==
    IF vs = <<>> THEN (IF h = <<>> THEN Same(h, FALSE) ELSE Now(<<>>, FALSE))
    ELSE IF Len(vs) > 1 /\ kind.guard THEN Raises(h, FALSE) ELSE Now(<<vs[Len(vs)]>>, FALSE)

UpdateAny(h, vs) ==
    IF vs = <<>> THEN (IF h = <<>> THEN Same(h, FALSE) ELSE Now(<<>>, FALSE))
    ELSE Now(<<vs[Len(vs)]>>, FALSE)

\* A Topic's writes may be lists; it starts anew each step unless it accumulates.
UpdateTopic(h, vs) ==
    LET kept == IF kind.accumulate THEN h ELSE <<>>
    IN  IF vs = <<>> /\ kept = h THEN Same(h, FALSE) ELSE Now(kept \o vs, FALSE)

FoldAfter(h, ws) ==          \* mutant: what follows an Overwrite is reduced into it
    LET at == {i \in DOMAIN ws : ws[i].over}
    IN  IF Cardinality(at) > 1 THEN Raises(h, FALSE)
        ELSE IF at = {} THEN Now(h \o ValuesOf(ws), FALSE)
        ELSE Now(<<ws[CHOOSE i \in at : TRUE].value>>
                    \o ValuesOf(SubSeq(ws, 1 + (CHOOSE i \in at : TRUE), Len(ws))), FALSE)

\* The first value of a channel that has none is stored as it is; after an Overwrite
\* nothing else of the step counts, but a second one.
Fold(h, ws) ==
    LET at == {i \in DOMAIN ws : ws[i].over}
    IN  IF Cardinality(at) > 1 THEN Raises(h, FALSE)
        ELSE IF at = {} THEN Now(h \o ValuesOf(ws), FALSE)
        ELSE Now(<<ws[CHOOSE i \in at : TRUE].value>>, FALSE)

UpdateBinop(h, ws) ==
    IF ws = <<>> THEN Same(h, FALSE)
    ELSE IF h = <<>> THEN Fold(ValuesOf(<<ws[1]>>), Tail(ws)) ELSE Fold(h, ws)

\* LastValueAfterFinish: a new value waits for the finish again.
UpdateAfter(h, f, vs) ==
    IF vs = <<>> THEN Same(h, f) ELSE Now(<<vs[Len(vs)]>>, FALSE)

\* A set in some order.
Listed(S) == CHOOSE s \in [1 .. Cardinality(S) -> S] : Range(s) = S

UpdateBarrier(h, f, vs) ==
    LET new == SelectSeq(vs, LAMBDA v : v \notin Range(h))
    IN  IF ~(Range(vs) \subseteq Names) THEN Raises(h, f)
        ELSE IF new = <<>> THEN Same(h, f) ELSE Now(h \o Listed(Range(new)), f)

Update(h, f, ws) ==
    LET vs == ValuesOf(ws)
    IN  CASE kind.name = "last" -> UpdateLast(h, vs)
          [] kind.name = "untracked" -> UpdateUntracked(h, vs)
          [] kind.name = "ephemeral" -> UpdateEphemeral(h, vs)
          [] kind.name = "any" -> UpdateAny(h, vs)
          [] kind.name = "topic" -> UpdateTopic(h, vs)
          [] kind.name = "binop" -> UpdateBinop(h, ws)
          [] kind.name = "after" -> UpdateAfter(h, f, vs)
          [] kind.name \in Barriers -> UpdateBarrier(h, f, vs)

-----------------------------------------------------------------------------
BarriersStay == kind.name = "after" /\ IsAvailable(held, finished)    \* mutant

\* consume: what was available to a node it triggers is let go.
Consumes == kind.name \in After \cup Barriers /\ IsAvailable(held, finished)

SavedFinished == <<held, held # <<>> /\ kind.name \in After>>   \* mutant: no flag

\* checkpoint, and from_checkpoint into a channel as it is made.
Saved == IF kind.name = "untracked" THEN <<>>
         ELSE IF kind.name = "after" /\ held = <<>> THEN <<>> ELSE <<held, finished>>

Loaded(saved) ==
    IF saved = <<>> \/ (saved[1] = <<>> /\ kind.name = "binop") THEN <<Empty(kind), FALSE>>
    ELSE saved

-----------------------------------------------------------------------------
Writes ==
    CASE kind.name \in Barriers -> UNION {[1 .. n -> {Write(m) : m \in Names}] : n \in 0 .. 2}
                                    \cup {<<Write("other")>>}
      [] kind.name = "binop" -> UNION {[1 .. n -> {Write(v) : v \in Values}
                                                   \cup {Overwrite(v) : v \in Values}]
                                       : n \in 0 .. 3}
      [] OTHER -> UNION {[1 .. n -> {Write(v) : v \in Values}] : n \in 0 .. 2}

\* A superstep: a channel that is read is consumed; told of no write, an available one
\* is updated with nothing; the run may be about to end. A write that raises ends it.
Step(ws) ==
    /\ steps < MaxSteps /\ outcome # "raised" /\ steps' = steps + 1
    /\ \E reads, ending \in BOOLEAN :
         LET gone == reads /\ Consumes
             h == IF gone THEN <<>> ELSE held
             f == finished /\ ~gone
             now == IF ws # <<>> \/ IsAvailable(h, f) THEN Update(h, f, ws) ELSE Same(h, f)
             ready == IF kind.name \in Barriers THEN Range(now.held) = Names
                      ELSE now.held # <<>>
         IN  /\ held' = now.held
             /\ outcome' = now.outcome
             /\ finished' = (\/ now.finished
                              \/ (ending /\ kind.name \in After /\ ready
                                    /\ now.outcome # "raised"))
             /\ read' = (reads /\ IsAvailable(held, finished) /\ ws = <<>>)
             /\ wrote' = ws
    /\ UNCHANGED kind

Init ==
    /\ kind \in Kinds
    /\ held = Empty(kind)
    /\ finished = FALSE /\ outcome = "same" /\ read = FALSE /\ wrote = <<>> /\ steps = 0

Next == \E ws \in Writes : Step(ws)

Spec == Init /\ [][Next]_vars

-----------------------------------------------------------------------------
\* A graph that goes on from a checkpoint reads and waits for what it would have
\* without it, but for values that are not tracked.
ReloadChangesNothing ==
    kind.name # "untracked" => Loaded(Saved) = <<held, finished>>

\* The channels that trigger nodes trigger them once: what was read is gone, unless it
\* was written again.
ReadOnce ==
    kind.name \in {"ephemeral", "after"} \cup Barriers =>
      (read => ~IsAvailable(held, finished))

\* An Overwrite among the writes of a step decides the value, whatever the order of the
\* tasks (where the type has an empty value).
OverwriteDecides ==
    /\ kind.name = "binop" /\ kind.default /\ outcome = "updated"
    /\ \E w \in Range(wrote) : w.over
    => \E w \in Range(wrote) : w.over /\ held = <<w.value>>
=============================================================================
