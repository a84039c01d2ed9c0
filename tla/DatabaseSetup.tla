----------------------------- MODULE DatabaseSetup -----------------------------
(***************************************************************************)
(* setup() of the savers and stores that keep a database: callers, in one   *)
(* process or in several, look up the version of the tables, run each       *)
(* migration after it and record it, statement by statement; a process may  *)
(* be killed between any two. A caller whose setup raised calls again.      *)
(***************************************************************************)
EXTENDS Integers, Sequences, FiniteSets, FiniteSetsExt

CONSTANTS
    Callers,
    Setups           \* records as below

VARIABLES
    setup,
    applied, recorded,       \* [list -> versions], in the database
    pc, list, at,            \* of each caller
    holder,                  \* of the object's lock
    isSetup,
    crashes

vars == <<setup, applied, recorded, pc, list, at, holder, isSetup, crashes>>

Nobody == "nobody"

-----------------------------------------------------------------------------
(* Migrations. "again": whether it can be run on a database that has it;     *)
(* "due": whether its condition holds for this index.                       *)

Again == [again |-> TRUE, due |-> TRUE]
Once == [again |-> FALSE, due |-> TRUE]
NotDue == [again |-> TRUE, due |-> FALSE]

\* Mutant: the column without IF NOT EXISTS.
ColumnOnce == <<Again, Once, Again>>

\* checkpoint_migrations itself, tables, a column, indexes: shortened.
SaverMigrations == <<Again, Again, Again>>

\* store, its index, expires_at; the vectors' extension, table and index.
PostgresStoreMigrations == <<Again, Again, Again>>
PostgresVectorMigrations == <<Again, Again, Again>>
FlatVectorMigrations == <<Again, Again, NotDue>>

\* ALTER TABLE store ADD COLUMN: SQLite has no IF NOT EXISTS for it.
SqliteStoreMigrations == <<Again, Once, Again>>
SqliteVectorMigrations == <<Again>>

\* How the methods differ: whether callers share the object, the lock is held over the
\* whole of setup, is_setup is kept, conditions are looked at, and whether
\* every statement commits itself. kills: a bound on the crashes.
PostgresSaver ==
    [lists |-> <<SaverMigrations>>, shared |-> FALSE, locks |-> TRUE, remembers |-> FALSE,
     asks |-> FALSE, kills |-> 1]

AsyncPostgresSaver == [PostgresSaver EXCEPT !.shared = TRUE]
ShallowPostgresSaver == PostgresSaver
AsyncShallowPostgresSaver == AsyncPostgresSaver

\* _cursor() without a pipeline takes no lock.
PostgresStore ==
    [lists |-> <<PostgresStoreMigrations, FlatVectorMigrations>>, shared |-> TRUE,
     locks |-> FALSE, remembers |-> FALSE, asks |-> TRUE,
     kills |-> 1]

AsyncPostgresStore ==
    [PostgresStore EXCEPT !.lists = <<PostgresStoreMigrations, PostgresVectorMigrations>>,
                          !.locks = TRUE, !.asks = FALSE]

SqliteStore ==
    [lists |-> <<SqliteStoreMigrations, SqliteVectorMigrations>>, shared |-> TRUE,
     locks |-> TRUE, remembers |-> TRUE, asks |-> FALSE,
     kills |-> 0]

AsyncSqliteStore == [SqliteStore EXCEPT !.lists = <<SqliteStoreMigrations>>]

-----------------------------------------------------------------------------
Lists == DOMAIN setup.lists
Version(l) == IF recorded[l] = {} THEN 0 ELSE Max(recorded[l])
Migration(c) == setup.lists[list[c]][at[c]]
Left(c) == at[c] <= Len(setup.lists[list[c]])
Skips(c) == setup.asks /\ ~Migration(c).due

Begin(c) ==
    /\ pc[c] = "idle"
    /\ setup.locks /\ setup.shared => holder = Nobody
    /\ IF setup.remembers /\ isSetup
       THEN pc' = [pc EXCEPT ![c] = "ready"] /\ UNCHANGED holder
       ELSE /\ pc' = [pc EXCEPT ![c] = "select"]
            /\ holder' = IF setup.locks /\ setup.shared THEN c ELSE holder
    /\ list' = [list EXCEPT ![c] = 1]
    /\ UNCHANGED <<setup, applied, recorded, at, isSetup, crashes>>

\* Mutant: versions counted from one and from zero.
SelectAfter(c) ==
    /\ pc[c] = "select"
    /\ at' = [at EXCEPT ![c] = Version(list[c]) + 2]
    /\ pc' = [pc EXCEPT ![c] = "apply"]
    /\ UNCHANGED <<setup, applied, recorded, list, holder, isSetup, crashes>>

\* The migrations' table is made, and its last row read.
Select(c) ==
    /\ pc[c] = "select"
    /\ at' = [at EXCEPT ![c] = Version(list[c]) + 1]
    /\ pc' = [pc EXCEPT ![c] = "apply"]
    /\ UNCHANGED <<setup, applied, recorded, list, holder, isSetup, crashes>>

Raise(c) ==
    /\ pc' = [pc EXCEPT ![c] = "raised"]
    /\ holder' = IF holder = c THEN Nobody ELSE holder

Apply(c) ==
    /\ pc[c] = "apply" /\ Left(c) /\ ~Skips(c)
    /\ IF at[c] \in applied[list[c]] /\ ~Migration(c).again
       THEN Raise(c) /\ UNCHANGED applied
       ELSE /\ applied' = [applied EXCEPT ![list[c]] = @ \cup {at[c]}]
            /\ pc' = [pc EXCEPT ![c] = "record"]
            /\ UNCHANGED holder
    /\ UNCHANGED <<setup, recorded, list, at, isSetup, crashes>>

Skip(c) ==
    /\ pc[c] = "apply" /\ Left(c) /\ Skips(c)
    /\ at' = [at EXCEPT ![c] = @ + 1]
    /\ UNCHANGED <<setup, applied, recorded, pc, list, holder, isSetup, crashes>>

\* v is the table's primary key.
Record(c) ==
    /\ pc[c] = "record"
    /\ IF at[c] \in recorded[list[c]]
       THEN Raise(c) /\ UNCHANGED <<recorded, at>>
       ELSE /\ recorded' = [recorded EXCEPT ![list[c]] = @ \cup {at[c]}]
            /\ at' = [at EXCEPT ![c] = @ + 1]
            /\ pc' = [pc EXCEPT ![c] = "apply"]
            /\ UNCHANGED holder
    /\ UNCHANGED <<setup, applied, list, isSetup, crashes>>

\* From the tables of the store to those of its vectors, or out.
Finish(c) ==
    /\ pc[c] = "apply" /\ ~Left(c)
    /\ IF list[c] < Len(setup.lists)
       THEN /\ list' = [list EXCEPT ![c] = @ + 1]
            /\ pc' = [pc EXCEPT ![c] = "select"]
            /\ UNCHANGED <<holder, isSetup>>
       ELSE /\ pc' = [pc EXCEPT ![c] = "ready"]
            /\ holder' = IF holder = c THEN Nobody ELSE holder
            /\ isSetup' = setup.remembers
            /\ UNCHANGED list
    /\ UNCHANGED <<setup, applied, recorded, at, crashes>>

Retry(c) ==
    /\ pc[c] = "raised"
    /\ pc' = [pc EXCEPT ![c] = "idle"]
    /\ UNCHANGED <<setup, applied, recorded, list, at, holder, isSetup, crashes>>

\* A process dies: the one of all callers who share the object, or one of several.
Crash(c) ==
    /\ crashes < setup.kills
    /\ pc[c] \in {"select", "apply", "record"}
    /\ pc' = [d \in Callers |-> IF d = c \/ setup.shared THEN "idle" ELSE pc[d]]
    /\ holder' = Nobody /\ isSetup' = FALSE
    /\ crashes' = crashes + 1
    /\ UNCHANGED <<setup, applied, recorded, list, at>>

Init ==
    /\ setup \in Setups
    /\ applied = [l \in Lists |-> {}] /\ recorded = [l \in Lists |-> {}]
    /\ pc = [c \in Callers |-> "idle"] /\ list = [c \in Callers |-> 1]
    /\ at = [c \in Callers |-> 1]
    /\ holder = Nobody /\ isSetup = FALSE /\ crashes = 0

Call(c) ==
    Begin(c) \/ Select(c) \/ Apply(c) \/ Skip(c) \/ Record(c) \/ Finish(c) \/ Retry(c)

Next == \E c \in Callers : Call(c) \/ Crash(c)

Spec == Init /\ [][Next]_vars

-----------------------------------------------------------------------------
(* Properties.                                                              *)

Due(l) == {v \in DOMAIN setup.lists[l] : setup.asks => setup.lists[l][v].due}

\* [setup] Whoever else migrates meanwhile, and whenever somebody was killed: a version
\* is recorded only when it and those before it were run, and a setup that returns
\* leaves nothing to run.
RecordedAreApplied ==
    /\ \A l \in Lists : \A v \in recorded[l] : Due(l) \cap (1 .. v) \subseteq applied[l]
    /\ \A c \in Callers : pc[c] = "ready" => \A l \in Lists : Due(l) \subseteq applied[l]

\* [setup] A setup raises only because somebody else was ahead of it: what it was about
\* to do is done and recorded, so the next attempt goes further.
RaisedIsDone == \A c \in Callers : pc[c] = "raised" => at[c] \in recorded[list[c]]

\* [setup] Nobody waits for ever for the lock of somebody who is gone or waits as well.
SetupGoesOn ==
    (\E c \in Callers : pc[c] # "ready") => \E c \in Callers : ENABLED Call(c)
=============================================================================
