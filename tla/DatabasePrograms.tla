---------------------------- MODULE DatabasePrograms ----------------------------
(***************************************************************************)
(* What the methods of the savers and stores that keep a database do with   *)
(* their lock, their connection and its transaction, in order. A method is  *)
(* a sequence of steps; "lock", "connect", "pipeline", "transaction",       *)
(* "begin", "commits" and "sync" open a with-block, closed in reverse when  *)
(* the method is over, however it ends (DatabaseCalls). One "read" stands   *)
(* for several queries, two "write"s for several statements. The mode of a  *)
(* Postgres object is its connection: "single", "pool", "pipe" (a pipeline  *)
(* opened around the object) or "old" (no pipelines in the client library). *)
(***************************************************************************)
EXTENDS Integers, Sequences

Contexts == {"lock", "connect", "pipeline", "transaction", "begin", "commits", "sync"}

\* A synchronous method of an asynchronous object: runs on its loop, the calling
\* thread waits. Most ask first whether they are on the loop.
Submitted(method) == <<"submit">> \o method
Refusing(method) == <<"refuse", "submit">> \o method

Statements(cursor, n) == cursor \o [i \in 1 .. n |-> "write"]
Queries(cursor) == cursor \o <<"read">>
Generator(cursor) == cursor \o <<"read", "yield">>

-----------------------------------------------------------------------------
(* SqliteSaver and AsyncSqliteSaver.                                        *)

SqliteCursor(transaction) == IF transaction THEN <<"lock", "commits">> ELSE <<"lock">>

SqliteGet == Queries(SqliteCursor(FALSE))
SqliteList == Generator(SqliteCursor(FALSE))
SqlitePut == Statements(SqliteCursor(TRUE), 1)
SqlitePutWrites == Statements(SqliteCursor(TRUE), 2)
SqliteDelete == Statements(SqliteCursor(TRUE), 2)

\* Mutants: setup in the lock it takes itself; no commit.
SetupInLock == <<"lock", "setup", "read">>
WithoutCommit == <<"setup", "lock", "write">>

\* asyncio's locks are not reentrant: setup takes it first.
AsyncSqliteGet == <<"setup">> \o Queries(<<"lock">>)
AsyncSqliteList == <<"setup">> \o Generator(<<"lock">>)
AsyncSqlitePut == <<"setup">> \o Statements(<<"lock">>, 1) \o <<"commit">>
AsyncSqlitePutWrites == <<"setup">> \o Statements(<<"lock">>, 2) \o <<"commit">>
AsyncSqliteDelete == Statements(<<"lock">>, 2) \o <<"commit">>

\* Mutant: get does not ask.
GetSubmitted ==
    {Submitted(AsyncSqliteGet), Refusing(AsyncSqliteList), Refusing(AsyncSqliteDelete)}

\* Any thread may call these; "put" and "put_writes" only others than the loop's.
AsyncSqliteRefusing ==
    {Refusing(AsyncSqliteGet), Refusing(AsyncSqliteList), Refusing(AsyncSqliteDelete)}
AsyncSqliteSubmitted == {Submitted(AsyncSqlitePut), Submitted(AsyncSqlitePutWrites)}

-----------------------------------------------------------------------------
(* PostgresSaver and AsyncPostgresSaver.                                    *)

Pipelined(mode) == IF mode = "old" THEN "transaction" ELSE "pipeline"

\* Mutant: the lock is left to the connection.
CursorUnlocked(mode, pipeline) ==
    <<"connect">>
      \o IF ~pipeline THEN <<>> ELSE IF mode = "pipe" THEN <<"sync">> ELSE <<Pipelined(mode)>>

PostgresCursor(mode, pipeline) ==
    <<"lock", "connect">>
      \o IF ~pipeline THEN <<>> ELSE IF mode = "pipe" THEN <<"sync">> ELSE <<Pipelined(mode)>>

AsyncPostgresCursor(mode, pipeline) == PostgresCursor(mode, pipeline)

PostgresGet(mode) == Queries(PostgresCursor(mode, FALSE))
PostgresList(mode) == Generator(PostgresCursor(mode, FALSE))

\* Mutant: each statement commits itself.
PutAutocommit(mode) == Statements(PostgresCursor(mode, FALSE), 2)

PostgresPut(mode) == Statements(PostgresCursor(mode, TRUE), 2)
PostgresPutWrites(mode) == Statements(PostgresCursor(mode, TRUE), 2)
PostgresDelete(mode) == Statements(PostgresCursor(mode, TRUE), 2)

AsyncPostgresGet(mode) == Queries(AsyncPostgresCursor(mode, FALSE))
AsyncPostgresList(mode) == Generator(AsyncPostgresCursor(mode, FALSE))
AsyncPostgresPut(mode) == Statements(AsyncPostgresCursor(mode, TRUE), 2)
AsyncPostgresPutWrites(mode) == Statements(AsyncPostgresCursor(mode, TRUE), 2)
AsyncPostgresDelete(mode) == Statements(AsyncPostgresCursor(mode, TRUE), 2)

AsyncPostgresRefusing(mode) ==
    {Refusing(AsyncPostgresGet(mode)), Refusing(AsyncPostgresList(mode)),
     Refusing(AsyncPostgresDelete(mode))}
AsyncPostgresSubmitted(mode) ==
    {Submitted(AsyncPostgresPut(mode)), Submitted(AsyncPostgresPutWrites(mode))}

-----------------------------------------------------------------------------
(* ShallowPostgresSaver and AsyncShallowPostgresSaver: the lock inside.      *)

ShallowCursor(mode, pipeline) ==
    <<"connect">>
      \o IF mode = "pipe" THEN IF pipeline THEN <<"sync">> ELSE <<>>
         ELSE <<"lock">> \o IF pipeline THEN <<Pipelined(mode)>> ELSE <<>>

AsyncShallowCursor(mode, pipeline) == ShallowCursor(mode, pipeline)

ShallowGet(mode) == Queries(ShallowCursor(mode, FALSE))
ShallowList(mode) == Generator(ShallowCursor(mode, FALSE))
ShallowPut(mode) == Statements(ShallowCursor(mode, TRUE), 2)
ShallowPutWrites(mode) == Statements(ShallowCursor(mode, TRUE), 2)

AsyncShallowGet(mode) == Queries(AsyncShallowCursor(mode, FALSE))
AsyncShallowList(mode) == Generator(AsyncShallowCursor(mode, FALSE))
AsyncShallowPut(mode) == Statements(AsyncShallowCursor(mode, TRUE), 2)
AsyncShallowPutWrites(mode) == Statements(AsyncShallowCursor(mode, TRUE), 2)

AsyncShallowRefusing(mode) == {Refusing(AsyncShallowGet(mode))}
AsyncShallowSubmitted(mode) ==
    {Submitted(AsyncShallowList(mode)), Submitted(AsyncShallowPut(mode)),
     Submitted(AsyncShallowPutWrites(mode))}

-----------------------------------------------------------------------------
(* Stores.                                                                  *)

PostgresStoreCursor(mode, pipeline) ==
    <<"connect">>
      \o IF ~pipeline THEN <<>>
         ELSE IF mode = "pipe" THEN <<"sync">> ELSE <<"lock", Pipelined(mode)>>

\* A lock of its own for a connection of a pool.
AsyncPostgresStoreCursor(mode, pipeline) ==
    <<"connect">>
      \o IF mode = "pipe" THEN IF pipeline THEN <<"sync">> ELSE <<>>
         ELSE (IF mode = "pool" THEN <<>> ELSE <<"lock">>)
                \o IF pipeline THEN <<Pipelined(mode)>> ELSE <<>>

SqliteStoreCursor == <<"setup", "lock", "begin">>
AsyncSqliteStoreCursor == <<"setup", "lock", "begin">>

\* Gets, searches and lists, then puts.
Batch(cursor) == cursor \o <<"read", "write", "write">>

PostgresBatch(mode) == Batch(PostgresStoreCursor(mode, TRUE))
PostgresSweep(mode) == Statements(PostgresStoreCursor(mode, FALSE), 1)

\* The connection that abatch checks out is not the one its cursor is on.
AsyncPostgresBatch(mode) ==
    (IF mode = "pipe" THEN <<"connect", "sync">> ELSE <<"connect">>)
      \o Batch(AsyncPostgresStoreCursor(mode, TRUE))
AsyncPostgresSweep(mode) == Statements(AsyncPostgresStoreCursor(mode, FALSE), 1)

SqliteBatch == Batch(SqliteStoreCursor)
SqliteSweep == Statements(SqliteStoreCursor, 1)
AsyncSqliteBatch == Batch(AsyncSqliteStoreCursor)
AsyncSqliteSweep == Statements(AsyncSqliteStoreCursor, 1)

-----------------------------------------------------------------------------
(* get_state_history: the whole list, then a snapshot of each, which may look *)
(* up the checkpoint of a subgraph.                                         *)

\* Mutant: the list is read while it is being consumed.
LazyHistory(list, get) == <<list \o get>>

GetStateHistory(list, get) == <<list, get>>
AsyncGetStateHistory(list, get) == <<list, get>>

-----------------------------------------------------------------------------
(* The calls of an object: each a sequence of methods, one after another.    *)

Calls(methods) == {<<m>> : m \in methods}

SqliteSaver ==
    Calls({SqliteGet, SqlitePut, SqlitePutWrites, SqliteDelete})
      \cup {GetStateHistory(SqliteList, SqliteGet)}

AsyncSqliteSaver ==
    Calls({AsyncSqliteGet, AsyncSqlitePut, AsyncSqlitePutWrites, AsyncSqliteDelete})
      \cup {AsyncGetStateHistory(AsyncSqliteList, AsyncSqliteGet)}

PostgresSaver(mode) ==
    Calls({PostgresGet(mode), PostgresPut(mode), PostgresPutWrites(mode), PostgresDelete(mode)})
      \cup {GetStateHistory(PostgresList(mode), PostgresGet(mode))}

AsyncPostgresSaver(mode) ==
    Calls({AsyncPostgresGet(mode), AsyncPostgresPut(mode), AsyncPostgresPutWrites(mode),
           AsyncPostgresDelete(mode)})
      \cup {AsyncGetStateHistory(AsyncPostgresList(mode), AsyncPostgresGet(mode))}

ShallowPostgresSaver(mode) ==
    Calls({ShallowGet(mode), ShallowPut(mode), ShallowPutWrites(mode)})
      \cup {GetStateHistory(ShallowList(mode), ShallowGet(mode))}

AsyncShallowPostgresSaver(mode) ==
    Calls({AsyncShallowGet(mode), AsyncShallowPut(mode), AsyncShallowPutWrites(mode)})
      \cup {AsyncGetStateHistory(AsyncShallowList(mode), AsyncShallowGet(mode))}

-----------------------------------------------------------------------------
(* The objects: their calls, the callers that are tasks of their loop, what   *)
(* those may call, their connections and one error or cancelled task.        *)

Threads(them) ==
    [calls |-> them, tasks |-> {}, onLoop |-> {}, sqlite |-> FALSE, pipe |-> FALSE,
     connections |-> 1, pooled |-> FALSE, faults |-> 1]

OnLoop(tasks, them) == [Threads({}) EXCEPT !.tasks = tasks, !.onLoop = them]

\* Tasks of the loop, and threads that make synchronous calls.
Mixed(tasks, them, submitted, refusing) ==
    [Threads(Calls(submitted \cup refusing)) EXCEPT
       !.tasks = tasks, !.onLoop = them \cup Calls(refusing)]

Sqlite(o) == [o EXCEPT !.sqlite = TRUE]

In(mode, o) ==
    [o EXCEPT !.pipe = mode = "pipe", !.pooled = mode = "pool",
              !.connections = IF mode = "pool" THEN 2 ELSE 1]

Modes == {"single", "pool", "pipe", "old"}

SaverObjects(all, some) ==
    {Sqlite(Threads(SqliteSaver)), Sqlite(OnLoop(all, AsyncSqliteSaver)),
     Sqlite(Mixed(some, AsyncSqliteSaver, AsyncSqliteSubmitted, AsyncSqliteRefusing)),
     Mixed(some, AsyncPostgresSaver("single"), AsyncPostgresSubmitted("single"),
           AsyncPostgresRefusing("single")),
     Mixed(some, AsyncShallowPostgresSaver("single"), AsyncShallowSubmitted("single"),
           AsyncShallowRefusing("single"))}
      \cup {In(m, Threads(PostgresSaver(m))) : m \in Modes}
      \cup {In(m, OnLoop(all, AsyncPostgresSaver(m))) : m \in Modes}
      \cup {In(m, Threads(ShallowPostgresSaver(m))) : m \in {"single", "pool"}}
      \cup {In(m, OnLoop(all, AsyncShallowPostgresSaver(m))) : m \in {"single", "pool"}}

\* A pool of the asynchronous store has a connection more than it has callers.
StoreObjects(all) ==
    {Sqlite(Threads(Calls({SqliteBatch, SqliteSweep}))),
     Sqlite(OnLoop(all, Calls({AsyncSqliteBatch, AsyncSqliteSweep}))),
     OnLoop(all, Calls({AsyncPostgresBatch("single"), AsyncPostgresSweep("single")})),
     [In("pool", OnLoop(all, Calls({AsyncPostgresBatch("pool"), AsyncPostgresSweep("pool")})))
        EXCEPT !.connections = 3],
     In("pool", Threads(Calls({PostgresBatch("pool"), PostgresSweep("pool")})))}
      \cup {In(m, Threads(Calls({PostgresBatch(m)}))) : m \in {"single", "old"}}

\* An object nobody calls.
Unused == Threads(Calls({<<>>}))

-----------------------------------------------------------------------------
(* The shape of a method, on which rests that callers do not mix              *)
(* (DatabaseCallsProofs).                                                   *)

\* With-blocks that end a transaction when they are left, and what uses a connection.
Committing == {"pipeline", "transaction", "begin", "commits", "sync"}
Touching == {"read", "write", "yield", "commit"}
Steps == Contexts \cup Touching \cup {"refuse", "submit", "setup"}

\* Who has it is alone on the connection: the lock, or a connection of a pool.
Guard(o) == IF o.pooled THEN "connect" ELSE "lock"

\* A method's statements are in one transaction that a with-block ends ...
InBlock(o, m) ==
    \E i \in DOMAIN m :
      /\ m[i] \in Committing
      /\ o.sqlite \/ o.pipe \/ m[i] \in {"pipeline", "transaction"}
      /\ \A j \in DOMAIN m : m[j] # "commit" /\ (m[j] = "write" => i < j)

\* ... or that sqlite3 began and the method commits itself ...
ByCommit(o, m) ==
    /\ o.sqlite
    /\ \E i \in DOMAIN m :
         /\ m[i] = "commit"
         /\ \A j \in DOMAIN m : /\ m[j] \notin Committing
                                /\ m[j] = "commit" => j = i
                                /\ m[j] = "write" => j < i

\* ... or it has one statement, that commits itself ...
Alone(o, m) ==
    /\ ~o.sqlite /\ ~o.pipe
    /\ \A i, j \in DOMAIN m : m[i] = "write" /\ m[j] = "write" => i = j
    /\ \A i \in DOMAIN m : m[i] \notin Committing \cup {"commit"}

\* ... or it writes nothing.
Reads(m) == \A i \in DOMAIN m : m[i] \notin Committing \cup {"write", "commit"}

\* A method opens its with-blocks before it uses the connection, one that commits last of
\* them and inside its guard, and refuses before it writes.
MethodOK(o, m) ==
    /\ m \in Seq(Steps)
    /\ \A i, j \in DOMAIN m :
         i < j /\ m[i] \in Touching \cup Committing => m[j] \notin Contexts
    /\ \A j \in DOMAIN m :
         m[j] \in Touching \cup Committing => \E i \in 1 .. j - 1 : m[i] = Guard(o)
    /\ \A i, j \in DOMAIN m : i < j /\ m[j] = "refuse" => m[i] # "write"
    /\ InBlock(o, m) \/ ByCommit(o, m) \/ Alone(o, m) \/ Reads(m)

\* A call of several methods only reads.
CallOK(o, s) ==
    /\ s \in Seq(Seq(Steps)) /\ s # <<>>
    /\ \A b \in DOMAIN s : MethodOK(o, s[b]) /\ (Len(s) > 1 => Reads(s[b]))

ObjectOK(o) ==
    o.connections \in Nat \ {0} /\ \A s \in o.calls \cup o.onLoop : CallOK(o, s)
=============================================================================
