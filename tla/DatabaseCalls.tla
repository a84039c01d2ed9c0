------------------------------ MODULE DatabaseCalls ------------------------------
(***************************************************************************)
(* Callers of one saver or store that keeps a database, threads or tasks of  *)
(* its event loop, step by step (DatabasePrograms): the object's lock, its   *)
(* connections, what is executed on each and not committed, errors of the    *)
(* server, cancelled tasks. The database and its client libraries (sqlite3,  *)
(* aiosqlite, psycopg) are as their documentation says.                      *)
(***************************************************************************)
EXTENDS DatabasePrograms, Integers, Sequences, FiniteSets, SequencesExt

CONSTANTS
    Callers,
    Objects          \* [calls, tasks: callers that are tasks of its loop, onLoop: the
                     \*  calls those may make, sqlite, pipe, connections, pooled,
                     \*  faults: a bound]

VARIABLES
    object,
    call,            \* [caller -> the methods it runs, one after another]
    block, at,       \* the method, and the step in it, of each caller
    open,            \* [caller -> its with-blocks, innermost last]
    conns,           \* [caller -> connections it was given, newest last]
    holder,          \* of the lock
    pending,         \* [connection -> <<caller, statement>>s not committed]
    aborted,         \* connections whose transaction the server aborted
    committed,       \* [caller -> statements]
    wrote,           \* [caller -> how many statements it executed]
    end,             \* [caller -> "no", "ok", "error" or "cancelled"]
    outcome,         \* [caller -> the same when it is over, "no" before]
    faults

vars == <<object, call, block, at, open, conns, holder, pending, aborted, committed,
          wrote, end, outcome, faults>>

Nobody == "nobody"
Connections == 1 .. object.connections

-----------------------------------------------------------------------------
Method(c) == call[c][block[c]]
Over(c) == end[c] # "no" \/ at[c] > Len(Method(c))
Step(c) == IF Over(c) THEN "close" ELSE Method(c)[at[c]]

\* Synchronous calls made on the loop stop everything that runs on it.
Submitting(c) == \E i \in 1 .. at[c] - 1 : Method(c)[i] = "submit"
LoopBlocked == \E c \in Callers : c \in object.tasks /\ outcome[c] = "no" /\ Submitting(c)

Runs(c) == outcome[c] = "no" /\ ~LoopBlocked

\* A sqlite3 connection is always there.
Conn(c) == IF conns[c] = <<>> THEN 1 ELSE Last(conns[c])

\* sqlite3 begins a transaction in front of a statement; psycopg's connections commit
\* each, unless they are in a pipeline or a transaction, whoever opened it.
InTransaction(k) ==
    \/ object.sqlite \/ object.pipe
    \/ \E c \in Callers : Conn(c) = k /\ {"pipeline", "transaction"} \cap ToSet(open[c]) # {}

Advance(c) == at' = [at EXCEPT ![c] = @ + 1]

Refuse(c) ==
    /\ Runs(c) /\ Step(c) = "refuse"
    /\ end' = [end EXCEPT ![c] = IF c \in object.tasks THEN "error" ELSE @]
    /\ Advance(c)
    /\ UNCHANGED <<object, call, block, open, conns, holder, pending, aborted, committed,
                   wrote, outcome, faults>>

\* setup takes the lock and gives it back.
Go(c) ==
    /\ Runs(c)
    /\ Step(c) \in {"submit", "read", "yield", "setup"}
    /\ Step(c) = "setup" => holder = Nobody
    /\ Advance(c)
    /\ UNCHANGED <<object, call, block, open, conns, holder, pending, aborted, committed,
                   wrote, end, outcome, faults>>

Free(k) == \A c \in Callers : k \notin ToSet(conns[c])

Open(c) ==
    /\ Runs(c) /\ Step(c) \in Contexts
    /\ Step(c) = "lock" => holder = Nobody
    /\ holder' = IF Step(c) = "lock" THEN c ELSE holder
    /\ IF Step(c) = "connect"
       THEN \E k \in Connections :
              /\ object.pooled => Free(k)
              /\ conns' = [conns EXCEPT ![c] = Append(@, k)]
       ELSE UNCHANGED conns
    /\ open' = [open EXCEPT ![c] = Append(@, Step(c))]
    /\ Advance(c)
    /\ UNCHANGED <<object, call, block, pending, aborted, committed, wrote, end, outcome,
                   faults>>

\* A transaction that the server aborted refuses statements.
Write(c) ==
    /\ Runs(c) /\ Step(c) = "write"
    /\ wrote' = [wrote EXCEPT ![c] = @ + 1]
    /\ IF Conn(c) \in aborted
       THEN end' = [end EXCEPT ![c] = "error"] /\ UNCHANGED <<pending, committed>>
       ELSE /\ UNCHANGED end
            /\ IF InTransaction(Conn(c))
               THEN /\ pending' = [pending EXCEPT ![Conn(c)] = @ \cup {<<c, wrote'[c]>>}]
                    /\ UNCHANGED committed
               ELSE /\ committed' = [committed EXCEPT ![c] = @ \cup {wrote'[c]}]
                    /\ UNCHANGED pending
    /\ Advance(c)
    /\ UNCHANGED <<object, call, block, open, conns, holder, aborted, outcome, faults>>

\* The server refuses a statement. SQLite does when the database is locked by another
\* process, at the statement that would begin to write.
Fail(c) ==
    /\ Runs(c) /\ Step(c) = "write"
    /\ faults < object.faults
    /\ object.sqlite => wrote[c] = 0
    /\ end' = [end EXCEPT ![c] = "error"]
    /\ aborted' = IF ~object.sqlite /\ InTransaction(Conn(c)) THEN aborted \cup {Conn(c)}
                  ELSE aborted
    /\ faults' = faults + 1
    /\ UNCHANGED <<object, call, block, at, open, conns, holder, pending, committed, wrote,
                   outcome>>

\* A task of the loop is cancelled; its statement is executed all the same.
Cancel(c) ==
    /\ Runs(c) /\ c \in object.tasks /\ end[c] = "no"
    /\ ~\E i \in DOMAIN Method(c) : Method(c)[i] = "submit"
    /\ faults < object.faults
    /\ end' = [end EXCEPT ![c] = "cancelled"]
    /\ faults' = faults + 1
    /\ UNCHANGED <<object, call, block, at, open, conns, holder, pending, aborted,
                   committed, wrote, outcome>>

CommitAll(k) ==
    /\ committed' = [c \in Callers |->
                       committed[c] \cup IF k \in aborted THEN {}
                                         ELSE {w[2] : w \in {v \in pending[k] : v[1] = c}}]
    /\ pending' = [pending EXCEPT ![k] = {}]
    /\ aborted' = aborted \ {k}

Rollback(k) ==
    /\ pending' = [pending EXCEPT ![k] = {}]
    /\ aborted' = aborted \ {k}
    /\ UNCHANGED committed

Commit(c) ==
    /\ Runs(c) /\ Step(c) = "commit"
    /\ CommitAll(Conn(c)) /\ Advance(c)
    /\ UNCHANGED <<object, call, block, open, conns, holder, wrote, end, outcome, faults>>

\* A pipeline that is left sends what it has, whatever was raised in it.
Close(c) ==
    /\ Runs(c) /\ Step(c) = "close" /\ open[c] # <<>>
    /\ LET top == Last(open[c]) IN
         /\ holder' = IF top = "lock" THEN Nobody ELSE holder
         /\ conns' = IF top = "connect" THEN [conns EXCEPT ![c] = Front(@)] ELSE conns
         /\ IF top \in {"lock", "connect"} THEN UNCHANGED <<pending, aborted, committed>>
            ELSE IF top = "transaction" /\ end[c] # "no" THEN Rollback(Conn(c))
            ELSE CommitAll(Conn(c))
    /\ open' = [open EXCEPT ![c] = Front(@)]
    /\ UNCHANGED <<object, call, block, at, wrote, end, outcome, faults>>

\* The next method of the call, or its end.
Return(c) ==
    /\ Runs(c) /\ Step(c) = "close" /\ open[c] = <<>>
    /\ IF end[c] = "no" /\ block[c] < Len(call[c])
       THEN /\ block' = [block EXCEPT ![c] = @ + 1] /\ at' = [at EXCEPT ![c] = 1]
            /\ UNCHANGED outcome
       ELSE /\ outcome' = [outcome EXCEPT ![c] = IF end[c] = "no" THEN "ok" ELSE end[c]]
            /\ UNCHANGED <<block, at>>
    /\ UNCHANGED <<object, call, open, conns, holder, pending, aborted, committed, wrote,
                   end, faults>>

Init ==
    /\ object \in Objects
    /\ call \in [Callers -> object.calls \cup object.onLoop]
    /\ \A c \in Callers : call[c] \in IF c \in object.tasks THEN object.onLoop ELSE object.calls
    /\ block = [c \in Callers |-> 1] /\ at = [c \in Callers |-> 1]
    /\ open = [c \in Callers |-> <<>>] /\ conns = [c \in Callers |-> <<>>]
    /\ holder = Nobody
    /\ pending = [k \in Connections |-> {}] /\ aborted = {}
    /\ committed = [c \in Callers |-> {}] /\ wrote = [c \in Callers |-> 0]
    /\ end = [c \in Callers |-> "no"] /\ outcome = [c \in Callers |-> "no"]
    /\ faults = 0

Acts(c) ==
    \/ Refuse(c) \/ Go(c) \/ Open(c) \/ Write(c) \/ Commit(c) \/ Close(c) \/ Return(c)

Next == \E c \in Callers : Acts(c) \/ Fail(c) \/ Cancel(c)

Spec == Init /\ [][Next]_vars

-----------------------------------------------------------------------------
(* Properties.                                                              *)

Written(c) == Cardinality({i \in DOMAIN Method(c) : Method(c)[i] = "write"})

\* Between a method's first statement and the end of its innermost with-block.
Using(c) ==
    LET done == 1 .. at[c] - 1 IN
      /\ \E i \in done : Method(c)[i] \in {"read", "write"}
      /\ Len(open[c]) = Cardinality({i \in done : Method(c)[i] \in Contexts})

\* [put, put_writes, delete_thread, batch] Whoever else uses the connection, and
\* whatever the server or a cancelled task does to them: no reader of the database ever
\* sees some of a call's statements and not the others, and a call that raised has saved
\* nothing. A call that was cancelled is not meant.
CallsAreWhole ==
    \A c \in Callers :
      /\ end[c] # "cancelled" => committed[c] \in {{}, 1 .. Written(c)}
      /\ end[c] = "error" => committed[c] = {}

\* [put, put_writes, delete_thread, batch] What a call saved is in the database when it
\* returns: the next may come from another process.
ReturnedIsSaved == \A c \in Callers : outcome[c] = "ok" => committed[c] = 1 .. Written(c)

\* [_cursor] "only one cursor can be used at a time": two callers never are between the
\* statements of one connection.
OneCursorAtATime ==
    \A c, d \in Callers : c # d /\ Using(c) /\ Using(d) => Conn(c) # Conn(d)

\* [_cursor, get_tuple, get_state_history] As long as a call is not over somebody can go
\* on: it is not for ever that all wait for the lock, for a connection, for a loop that
\* waits itself. (No call takes a step twice, so every call comes to its end.)
CallsGoOn ==
    (\E c \in Callers : outcome[c] = "no") => \E c \in Callers : ENABLED Acts(c)
=============================================================================
