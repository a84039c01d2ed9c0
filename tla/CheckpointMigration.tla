-------------------------- MODULE CheckpointMigration --------------------------
(***************************************************************************)
(* A checkpoint saved by an older version is loaded by this one:            *)
(* _migrate_checkpoint of src/libs/langgraph/langgraph/graph/state.py and   *)
(* pregel/main.py. Older graphs had a channel per entry point ("start:n"),  *)
(* per node (its own name, for its edges) and per branch and target         *)
(* ("branch:source:condition:n"); now "branch:to:n" is all that triggers n. *)
(* How those graphs ran is modelled from the checkpoints the tests keep     *)
(* (libs/langgraph/tests/test_checkpoint_migration.py).                     *)
(***************************************************************************)
EXTENDS Integers, FiniteSets, FiniteSetsExt

CONSTANTS
    Setups,
    MaxOldSteps

\* nodes; entries: nodes with an edge from START; edges between nodes; branches:
\* <<source, target>>; layout: "quadratic" (v 1), "start" (v 2) or "to" (v 3).

VARIABLES
    setup,
    versions,     \* channel_versions, of the channels that have one
    seen,         \* versions_seen of the nodes, and of INTERRUPT
    values,       \* the channels that hold a value
    pendingSends, \* whether Sends wait (for a node of the graph)
    steps,
    before        \* once migrated: what was due before

vars == <<setup, versions, seen, values, pendingSends, steps, before>>

INTERRUPT == "__interrupt__"
TASKS == <<"tasks">>
Nobody == {"?"}             \* not migrated yet

Start(n) == <<"start", n>>
Node(n) == <<"node", n>>
Branch(m, n) == <<"branch", m, n>>
BranchTo(n) == <<"branch:to", n>>

Sources(n) == {e[1] : e \in {e \in setup.edges : e[2] = n}}

-----------------------------------------------------------------------------
(* The older graphs.                                                        *)

EdgeChannel(m, n) == IF setup.layout = "to" THEN BranchTo(n) ELSE Node(m)
EntryChannel(n) == IF setup.layout = "to" THEN BranchTo(n) ELSE Start(n)
BranchChannel(m, n) == IF setup.layout = "quadratic" THEN Branch(m, n) ELSE BranchTo(n)

OldTriggers(n) ==
    {EntryChannel(n) : k \in {n} \cap setup.entries}
      \cup {EdgeChannel(m, n) : m \in Sources(n)}
      \cup {BranchChannel(b[1], n) : b \in {b \in setup.branches : b[2] = n}}

\* _triggers: a channel with a value that is newer than what the node has seen.
Fresh(reader, k) ==
    k \in values /\ (k \in DOMAIN seen[reader] => versions[k] > seen[reader][k])

OldDue == {n \in setup.nodes : \E k \in OldTriggers(n) : Fresh(n, k)}

Latest == Max({versions[k] : k \in DOMAIN versions} \cup {0})

\* apply_writes: every channel written, or emptied, gets the next version.
Bump(written) ==
    /\ versions' = [k \in DOMAIN versions \cup written |->
                      IF k \in written \cup values THEN Latest + 1 ELSE versions[k]]
    /\ values' = written

OldInput ==
    /\ before = Nobody /\ steps < MaxOldSteps /\ steps' = steps + 1
    /\ OldDue = {} /\ ~pendingSends
    /\ Bump({EntryChannel(n) : n \in setup.entries})
    /\ UNCHANGED <<setup, seen, pendingSends, before>>

OldStep ==
    /\ before = Nobody /\ steps < MaxOldSteps /\ steps' = steps + 1
    /\ OldDue # {} \/ pendingSends
    /\ seen' = [r \in DOMAIN seen |->
                  IF r \notin OldDue THEN seen[r]
                  ELSE [k \in DOMAIN seen[r] \cup (OldTriggers(r) \cap DOMAIN versions) |->
                          IF k \in OldTriggers(r) /\ k \in DOMAIN versions
                          THEN versions[k] ELSE seen[r][k]]]
    /\ \E pushed \in IF pendingSends THEN setup.nodes ELSE {CHOOSE n \in setup.nodes : TRUE},
          led \in SUBSET setup.branches :
         LET ran == OldDue \cup IF pendingSends THEN {pushed} ELSE {}
         IN  /\ \A b \in led : b[1] \in ran
             /\ Bump((IF setup.layout = "to"
                      THEN {BranchTo(e[2]) : e \in {e \in setup.edges : e[1] \in ran}}
                      ELSE {Node(n) : n \in ran})
                     \cup {BranchChannel(b[1], b[2]) : b \in led})
    /\ pendingSends' \in BOOLEAN
    /\ UNCHANGED <<setup, before>>

\* A run is resumed: everything there is has been seen.
OldResume ==
    /\ before = Nobody /\ seen[INTERRUPT] # versions
    /\ seen' = [seen EXCEPT ![INTERRUPT] = versions]
    /\ UNCHANGED <<setup, versions, values, pendingSends, steps, before>>

-----------------------------------------------------------------------------
(* _migrate_checkpoint                                                      *)

IsOld(k) == k[1] \in {"start", "node", "branch"}

NotBranches(n) ==           \* mutant: "branch:source:condition:n" is left alone
    DOMAIN versions \cap ({BranchTo(n), Start(n)} \cup {Node(m) : m \in Sources(n)})

\* The channels "branch:to:n" stands for from now on: by entry, by branch, and by
\* node for the nodes that have an edge to n.
Became(n) ==
    {k \in DOMAIN versions :
       \/ k \in {BranchTo(n), Start(n)} \cup {Node(m) : m \in Sources(n)}
       \/ k[1] = "branch" /\ k[3] = n}

\* versions_seen of a reader, for whom the channel of n stands for Stood(n).
SeenAs(reader, Stood(_)) ==
    LET held(n) == {seen[reader][k] : k \in Stood(n) \cap DOMAIN seen[reader]}
        told == {n \in setup.nodes : held(n) # {}}
        others == {k \in DOMAIN seen[reader] : ~IsOld(k)} \ {BranchTo(n) : n \in told}
    IN  [k \in others \cup {BranchTo(n) : n \in told} |->
           IF k \in others THEN seen[reader][k] ELSE Max(held(k[2]))]

Migrate ==
    LET new == {n \in setup.nodes : Became(n) # {}}
        others == {k \in DOMAIN versions : ~IsOld(k)} \ {BranchTo(n) : n \in new}
        sent == IF pendingSends THEN {TASKS} ELSE {}
        branching == {m \in setup.nodes : \E n \in setup.nodes : m \in Sources(n)}
    IN  /\ before = Nobody /\ DOMAIN versions # {}
        /\ before' = OldDue
        /\ versions' = [k \in others \cup sent \cup {BranchTo(n) : n \in new} |->
                          IF k \in others THEN versions[k]
                          ELSE IF k \in sent THEN Latest
                          ELSE Max({versions[old] : old \in Became(k[2])})]
        /\ values' = {k \in values : ~IsOld(k)} \cup sent
                       \cup {BranchTo(n) : n \in {n \in new : Became(n) \cap values # {}}}
        \* what INTERRUPT has seen of a node's channel goes to one of its targets
        /\ \E first \in [branching -> setup.nodes] :
             /\ \A m \in branching : m \in Sources(first[m])
             /\ seen' = [r \in DOMAIN seen |->
                  LET Given(n) == {k \in Became(n) : k[1] = "node" => first[k[2]] = n}
                  IN  IF r = INTERRUPT THEN SeenAs(r, Given) ELSE SeenAs(r, Became)]
        /\ UNCHANGED <<setup, pendingSends, steps>>

-----------------------------------------------------------------------------
Init ==
    /\ setup \in Setups
    /\ versions = <<>> /\ values = {} /\ steps = 0 /\ before = Nobody
    /\ pendingSends = FALSE
    /\ seen = [r \in setup.nodes \cup {INTERRUPT} |-> <<>>]

Next == OldInput \/ OldStep \/ OldResume \/ Migrate

Spec == Init /\ [][Next]_vars

-----------------------------------------------------------------------------
\* What was due in the old layout is due in the new one, and Sends still wait.
MigrationKeepsDue ==
    before # Nobody =>
      /\ before = {n \in setup.nodes : Fresh(n, BranchTo(n))}
      /\ pendingSends <=> TASKS \in values
=============================================================================
