----------------------------- MODULE StoreCalls -----------------------------
(***************************************************************************)
(* The methods of a store that make one operation of a call, which batch or *)
(* abatch serves (checkpoint/langgraph/store/base). They are written four   *)
(* times: BaseStore's, with and without asyncio, and those of               *)
(* AsyncBatchedBaseStore, which put the operation in the queue of its loop. *)
(* Here all four are asked the same.                                        *)
(***************************************************************************)
EXTENDS Sequences, TLC

VARIABLES
    asked,       \* the method, its arguments, and the store it is asked of
    made         \* by way of asking: the operation that is made, or how it is refused

LeftOut == "left out"         \* the caller does not name the argument
None == "None"
NotProvided == "NOT_GIVEN"

Argument(x, default) == IF x = LeftOut THEN default ELSE x

-----------------------------------------------------------------------------
(* Operations.                                                              *)

GetOp(namespace, key, refresh) ==
    [op |-> "get", namespace |-> namespace, key |-> key, refresh_ttl |-> refresh]

SearchOp(prefix, filter, limit, offset, query, refresh) ==
    [op |-> "search", namespace |-> prefix, filter |-> filter, limit |-> limit,
     offset |-> offset, query |-> query, refresh_ttl |-> refresh]

PutOp(namespace, key, value, index, ttl) ==
    [op |-> "put", namespace |-> namespace, key |-> key, value |-> value, index |-> index,
     ttl |-> ttl]

MatchCondition(kind, path) == <<kind, path>>

ListNamespacesOp(conditions, depth, limit, offset) ==
    [op |-> "list", conditions |-> conditions, max_depth |-> depth, limit |-> limit,
     offset |-> offset]

Refused(why) == [op |-> why]

\* What a configuration of times to live may hold. None at all, and one that holds nothing,
\* are false in Python.
NoConfig == <<>>
TTLConfig == [refresh_on_read : {"absent", "True", "False"}, default_ttl : {"absent", None, "5"}]
Configures(config) == \E x \in DOMAIN config : config[x] # "absent"

EnsureRefresh(config, refresh) ==
    IF refresh # None THEN refresh
    ELSE IF config # NoConfig /\ config.refresh_on_read # "absent" THEN config.refresh_on_read
    ELSE "True"

\* Mutant: None is taken for nothing given.
EnsureTtlOfNone(config, ttl) ==
    IF ttl \notin {NotProvided, None} THEN ttl
    ELSE IF Configures(config) /\ config.default_ttl # "absent" THEN config.default_ttl
    ELSE None

EnsureTtl(config, ttl) ==
    IF ttl # NotProvided THEN ttl
    ELSE IF Configures(config) /\ config.default_ttl # "absent" THEN config.default_ttl
    ELSE None

\* _validate_namespace; of its four complaints the model keeps that there is one.
ValidNamespace(namespace) == namespace # "empty"

\* str(key). A key should be a string already; the queue takes it as it comes.
Str(key) == IF key = "number" THEN "its digits" ELSE key

Conditions(a) ==
    LET One(kind, path) ==
            IF path \in {LeftOut, None, "empty"} THEN <<>> ELSE <<MatchCondition(kind, path)>>
    IN  One("prefix", a.prefix) \o One("suffix", a.suffix)

-----------------------------------------------------------------------------
(* BaseStore, for the store s and the arguments a.                          *)

Get(s, a) == GetOp(a.namespace, Str(a.key), EnsureRefresh(s.config, Argument(a.refresh, None)))

Search(s, a) ==
    SearchOp(a.namespace, Argument(a.filter, None), Argument(a.limit, "10"),
             Argument(a.offset, "0"), Argument(a.query, None),
             EnsureRefresh(s.config, Argument(a.refresh, None)))

Put(s, a) ==
    LET ttl == Argument(a.ttl, NotProvided)
    IN  IF ~ValidNamespace(a.namespace) THEN Refused("InvalidNamespaceError")
        ELSE IF ttl \notin {NotProvided, None} /\ ~s.supports_ttl
        THEN Refused("NotImplementedError")
        ELSE PutOp(a.namespace, Str(a.key), a.value, Argument(a.index, None),
                   EnsureTtl(s.config, ttl))

Delete(s, a) == PutOp(a.namespace, Str(a.key), None, None, None)

ListNamespaces(s, a) ==
    ListNamespacesOp(Conditions(a), Argument(a.max_depth, None), Argument(a.limit, "100"),
                     Argument(a.offset, "0"))

(* The same for asyncio.                                                    *)

Aget(s, a) == GetOp(a.namespace, Str(a.key), EnsureRefresh(s.config, Argument(a.refresh, None)))

Asearch(s, a) ==
    SearchOp(a.namespace, Argument(a.filter, None), Argument(a.limit, "10"),
             Argument(a.offset, "0"), Argument(a.query, None),
             EnsureRefresh(s.config, Argument(a.refresh, None)))

Aput(s, a) ==
    LET ttl == Argument(a.ttl, NotProvided)
    IN  IF ~ValidNamespace(a.namespace) THEN Refused("InvalidNamespaceError")
        ELSE IF ttl \notin {NotProvided, None} /\ ~s.supports_ttl
        THEN Refused("NotImplementedError")
        ELSE PutOp(a.namespace, Str(a.key), a.value, Argument(a.index, None),
                   EnsureTtl(s.config, ttl))

Adelete(s, a) == PutOp(a.namespace, Str(a.key), None, None, None)

AlistNamespaces(s, a) ==
    ListNamespacesOp(Conditions(a), Argument(a.max_depth, None), Argument(a.limit, "100"),
                     Argument(a.offset, "0"))

-----------------------------------------------------------------------------
(* AsyncBatchedBaseStore: to its queue, and there from another thread.       *)

QueuedGet(s, a) == GetOp(a.namespace, a.key, EnsureRefresh(s.config, Argument(a.refresh, None)))

QueuedSearch(s, a) ==
    SearchOp(a.namespace, Argument(a.filter, None), Argument(a.limit, "10"),
             Argument(a.offset, "0"), Argument(a.query, None),
             EnsureRefresh(s.config, Argument(a.refresh, None)))

QueuedPut(s, a) ==
    IF ~ValidNamespace(a.namespace) THEN Refused("InvalidNamespaceError")
    ELSE PutOp(a.namespace, a.key, a.value, Argument(a.index, None),
               EnsureTtl(s.config, Argument(a.ttl, NotProvided)))

QueuedDelete(s, a) == PutOp(a.namespace, a.key, None, None, None)

QueuedList(s, a) ==
    ListNamespacesOp(Conditions(a), Argument(a.max_depth, None), Argument(a.limit, "100"),
                     Argument(a.offset, "0"))

\* What waits for the loop must not be asked in it: it would wait for ever.
CheckLoop(s, op) == IF s.in_loop THEN Refused("InvalidStateError") ELSE op

\* Every argument is handed on, with its default if it was left out.
HandedOn(a, defaults) == [x \in DOMAIN a |-> IF a[x] = LeftOut THEN defaults[x] ELSE a[x]]

ThreadGet(s, a) ==
    CheckLoop(s, QueuedGet(s, HandedOn(a, [refresh |-> None])))

ThreadSearch(s, a) ==
    CheckLoop(s, QueuedSearch(s, HandedOn(a,
        [filter |-> None, query |-> None, limit |-> "10", offset |-> "0", refresh |-> None])))

\* The time to live is settled here, and by the method it is handed to once more.
ThreadPut(s, a) ==
    CheckLoop(s,
        IF ~ValidNamespace(a.namespace) THEN Refused("InvalidNamespaceError")
        ELSE QueuedPut(s, [HandedOn(a, [index |-> None, ttl |-> NotProvided])
                             EXCEPT !.ttl = EnsureTtl(s.config, @)]))

ThreadDelete(s, a) == CheckLoop(s, QueuedDelete(s, a))

ThreadList(s, a) ==
    CheckLoop(s, QueuedList(s, HandedOn(a,
        [prefix |-> None, suffix |-> None, max_depth |-> None, limit |-> "100",
         offset |-> "0"])))

-----------------------------------------------------------------------------
\* A store, as far as the methods look at it.
Stores == [config : TTLConfig \cup {NoConfig}, supports_ttl : BOOLEAN, in_loop : BOOLEAN]

\* Arguments: those with no default, then those that may be left out.
Item == [namespace : {"docs", "empty"}, key : {"k", "number"}]
Page == [limit : {LeftOut, "7"}, offset : {LeftOut, "1"}]
Refreshes == [refresh : {LeftOut, None, "True", "False"}]
Puts == [value : {"v"}, index : {LeftOut, "False"}, ttl : {LeftOut, NotProvided, None, "30"}]
Searches == [filter : {LeftOut, "f"}, query : {LeftOut, "q"}]
Lists == [prefix : {LeftOut, "empty", "p"}, suffix : {LeftOut, "empty", "p"},
          max_depth : {LeftOut, "2"}]

Nothing == [none |-> {}]
NotAsked == [method |-> "none", s |-> Nothing, a |-> Nothing]

Init == asked = NotAsked /\ made = Nothing

\* The two stores that have the queue support times to live.
Ask(m, s, a, sync, async, queued, thread) ==
    /\ asked' = [method |-> m, s |-> s, a |-> a]
    /\ made' = [sync |-> sync, async |-> async]
               @@ IF s.supports_ttl THEN [queued |-> queued, thread |-> thread] ELSE <<>>

Call ==
    /\ asked = NotAsked
    /\ \E s \in Stores :
         \/ \E i \in Item, r \in Refreshes :
              LET a == i @@ r
              IN  Ask("get", s, a, Get(s, a), Aget(s, a), QueuedGet(s, a), ThreadGet(s, a))
         \/ \E i \in Item, f \in Searches, p \in Page, r \in Refreshes :
              LET a == i @@ f @@ p @@ r
              IN  Ask("search", s, a, Search(s, a), Asearch(s, a), QueuedSearch(s, a),
                      ThreadSearch(s, a))
         \/ \E i \in Item, p \in Puts :
              LET a == i @@ p
              IN  Ask("put", s, a, Put(s, a), Aput(s, a), QueuedPut(s, a), ThreadPut(s, a))
         \/ \E a \in Item :
              Ask("delete", s, a, Delete(s, a), Adelete(s, a), QueuedDelete(s, a),
                  ThreadDelete(s, a))
         \/ \E l \in Lists, p \in Page :
              LET a == l @@ p
              IN  Ask("list", s, a, ListNamespaces(s, a), AlistNamespaces(s, a),
                      QueuedList(s, a), ThreadList(s, a))

Next == Call

vars == <<asked, made>>
Spec == Init /\ [][Next]_vars

-----------------------------------------------------------------------------
\* However a store is asked, the same operation is made or the call is refused for the
\* same reason, if the key is a string; but nothing may wait for a loop in that loop.
WaysAgree ==
    \A way \in DOMAIN made \ {"none"} :
        way \in {"sync", "async"} \/ asked.method = "list" \/ asked.a.key = Str(asked.a.key)
          => made[way] = IF way = "thread" /\ asked.s.in_loop
                          THEN Refused("InvalidStateError")
                          ELSE made["sync"]

\* What the caller says of times to live outweighs the store's configuration, however
\* often it is settled on the way: no time to live, and no refresh, stay so.
SaidIsMeant ==
    \A way \in DOMAIN made \ {"none"} :
        /\ asked.method = "put" /\ made[way].op = "put"
               /\ asked.a.ttl \notin {LeftOut, NotProvided} => made[way].ttl = asked.a.ttl
        /\ asked.method \in {"get", "search"} /\ made[way].op = asked.method
               /\ asked.a.refresh \notin {LeftOut, None}
             => made[way].refresh_ttl = asked.a.refresh
=============================================================================
