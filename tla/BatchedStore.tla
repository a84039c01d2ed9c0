----------------------------- MODULE BatchedStore -----------------------------
(***************************************************************************)
(* The store whose operations are batched in a background task              *)
(* (store/base/batch.py), over the SQL stores' batches (store/sqlite/aio.py,*)
(* store/postgres/aio.py). A call puts its operation and a future into a    *)
(* queue; the task takes all there are, drops the duplicates, runs them in  *)
(* one transaction - gets, searches, then deletes and the insert - and      *)
(* resolves the futures.                                                    *)
(***************************************************************************)
EXTENDS Naturals, FiniteSets, Sequences, SequencesExt

CONSTANTS
    Callers, Keys,
    MaxCalls,              \* how many calls each caller makes
    RollsBack,             \* a transaction that fails leaves the data (Postgres)
    MaxFailures            \* batches that fail

VARIABLES
    data,                  \* the committed rows
    calls,                 \* each call: its operation, its future, its result
    queue,                 \* _aqueue: calls not yet taken
    batch,                 \* the calls the task took, in order
    step,                  \* how far the transaction of the batch is
    work,                  \* the rows as the transaction sees them
    results,               \* what each operation of the batch returned
    failures

vars == <<data, calls, queue, batch, step, work, results, failures>>

Todo == ToSet(queue) \cup ToSet(batch)

KV == INSTANCE KeyValueStore WITH todo <- Todo

Ids == KV!Ids
Nothing == KV!Nothing

Init ==
    /\ data = [k \in Keys |-> Nothing]
    /\ calls = [id \in Ids |-> [op |-> KV!NoOp, future |-> "none", result |-> Nothing]]
    /\ queue = <<>> /\ batch = <<>>
    /\ step = "idle" /\ work = data /\ results = <<>>
    /\ failures = 0

-----------------------------------------------------------------------------
(* The callers.                                                             *)

Running == <<data, batch, step, work, results, failures>>

\* aget, asearch, aput, adelete: queue the operation, await the future.
Call(c) ==
    /\ KV!Idle(c)
    /\ \E n \in 1 .. MaxCalls[c] :
          /\ \A m \in 1 .. MaxCalls[c] : (calls[<<c, m>>].future = "none") <=> (m >= n)
          /\ \E op \in KV!OpsOf(<<c, n>>) :
                calls' = [calls EXCEPT ![<<c, n>>].op = op, ![<<c, n>>].future = "pending"]
          /\ queue' = Append(queue, <<c, n>>)
    /\ UNCHANGED Running

\* The awaiting task is cancelled, and its future with it.
Cancel(id) ==
    /\ calls[id].future = "pending"
    /\ calls' = [calls EXCEPT ![id].future = "cancelled"]
    /\ UNCHANGED <<queue, Running>>

-----------------------------------------------------------------------------
(* The task.                                                                *)

Op(id) == calls[id].op

\* Mutant: puts compared without their key.
SamePut(op, other) == IF KV!IsPut(op) THEN KV!IsPut(other) ELSE other = op

\* _dedupe_ops: equal reads share a slot, a put takes that of the put before.
SameSlot(op, other) ==
    IF KV!IsPut(op) THEN KV!IsPut(other) /\ other.key = op.key ELSE other = op

\* A turn of its loop: the operation goes to the slot it shares, or to a new one.
Listened(acc, op) ==
    LET i == SelectInSeq(acc.ops, LAMBDA other : SameSlot(op, other))
    IN  IF i = 0
        THEN [ops |-> Append(acc.ops, op), listen |-> Append(acc.listen, Len(acc.ops) + 1)]
        ELSE [ops |-> [acc.ops EXCEPT ![i] = op], listen |-> Append(acc.listen, i)]

Dedupe(ops) ==
    LET turn[n \in 0 .. Len(ops)] ==
          IF n = 0 THEN [ops |-> <<>>, listen |-> <<>>] ELSE Listened(turn[n - 1], ops[n])
    IN  turn[Len(ops)]

Deduped == Dedupe([i \in DOMAIN batch |-> Op(batch[i])])

Puts == {Deduped.ops[i] : i \in {j \in DOMAIN Deduped.ops : KV!IsPut(Deduped.ops[j])}}
Deletes == {op \in Puts : op.value = Nothing}
Inserts == Puts \ Deletes

\* _run: take what is queued, begin the transaction of abatch.
Take ==
    /\ step = "idle" /\ queue # <<>>
    /\ batch' = queue /\ queue' = <<>>
    /\ work' = data /\ results' = <<>>
    /\ step' = "read"
    /\ UNCHANGED <<data, calls, failures>>

\* _batch_get_ops, _batch_search_ops.
Read ==
    /\ step = "read"
    /\ results' = [i \in DOMAIN Deduped.ops |-> KV!ReadOf(work, Deduped.ops[i])]
    /\ step' = "write"
    /\ UNCHANGED <<data, calls, queue, batch, work, failures>>

\* _batch_put_ops: the deletes, then the insert, then the vectors.
Write ==
    /\ step = "write"
    /\ IF \E op \in Deletes : work[op.key] # Nothing
       THEN \E op \in Deletes : /\ work[op.key] # Nothing
                                /\ work' = [work EXCEPT ![op.key] = Nothing]
                                /\ UNCHANGED step
       ELSE /\ work' = [k \in Keys |-> IF \E op \in Inserts : op.key = k
                                       THEN (CHOOSE op \in Inserts : op.key = k).value
                                       ELSE work[k]]
            /\ step' = "vectors"
    /\ UNCHANGED <<data, calls, queue, batch, results, failures>>

\* The end of the batch: the futures that are not done get their outcome.
Resolve(future, result) ==
    /\ calls' = [id \in Ids |->
                   IF id \in ToSet(batch) /\ calls[id].future = "pending"
                   THEN [calls[id] EXCEPT !.future = future, !.result = result[id]]
                   ELSE calls[id]]
    /\ batch' = <<>> /\ results' = <<>> /\ step' = "idle"
    /\ UNCHANGED queue

\* Commit; results are dealt out as _dedupe_ops says.
Finish ==
    /\ step = "vectors"
    /\ data' = work /\ UNCHANGED work
    /\ Resolve("done", [id \in ToSet(batch) |->
                  results[Deduped.listen[SelectInSeq(batch, LAMBDA x : x = id)]]])
    /\ UNCHANGED failures

\* A statement fails, or the embedding of what it is to write: the cursor's
\* finally commits in SQLite, Postgres rolls back; every future of the batch
\* gets the exception.
Fail ==
    /\ step # "idle" /\ failures < MaxFailures
    /\ failures' = failures + 1
    /\ IF RollsBack THEN UNCHANGED data /\ work' = data
                    ELSE data' = work /\ UNCHANGED work
    /\ Resolve("failed", [id \in ToSet(batch) |-> Nothing])

Next ==
    \/ \E c \in Callers : Call(c)
    \/ \E id \in Ids : Cancel(id)
    \/ Take \/ Read \/ Write \/ Finish \/ Fail

Spec == Init /\ [][Next]_vars

-----------------------------------------------------------------------------
(* Properties.                                                              *)

TypeOK ==
    /\ data \in [Keys -> KV!Values] /\ work \in [Keys -> KV!Values]
    /\ \A id \in Ids : /\ calls[id].op \in KV!OpsOf(id) \cup {KV!NoOp}
                       /\ calls[id].future \in {"none", "pending", "done", "failed", "cancelled"}
    /\ queue \in Seq(Ids) /\ batch \in Seq(Ids)
    /\ step \in {"idle", "read", "write", "vectors"}
    /\ failures \in 0 .. MaxFailures

\* The callers of the batched store get what those of an unbatched one may
\* get: each batch is as if its operations were served at one instant, in
\* full or not at all.
ImplementsKeyValueStore == KV!Spec
=============================================================================
