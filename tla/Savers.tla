-------------------------------- MODULE Savers --------------------------------
(***************************************************************************)
(* One thread of checkpoints in the savers a graph can be compiled with, all*)
(* given the same calls: InMemorySaver (checkpoint/memory), SqliteSaver     *)
(* (checkpoint/sqlite), PostgresSaver and ShallowPostgresSaver (checkpoint/ *)
(* postgres). They keep the values of a checkpoint in three ways: by channel*)
(* and version, in the row, or partly in either; the shallow saver by       *)
(* channel alone, and one row.                                              *)
(***************************************************************************)
EXTENDS Integers, Sequences, FiniteSets, FiniteSetsExt

CONSTANTS
    Channels, Tasks,
    Setups           \* what a behaviour does: see Init

VARIABLES
    setup,
    head,            \* the checkpoint in hand of the run
    waiting,         \* checkpoints created and not put yet, oldest first
    made,            \* ghost: what was put, by id
    memory, sqlite, postgres, shallow,     \* the savers
    lastId,
    commits,         \* put_writes calls so far
    odd              \* ghost: see PutWrites and Start

savers == <<memory, sqlite, postgres, shallow>>
vars == <<setup, head, waiting, made, savers, lastId, commits, odd>>

Missing == <<>>              \* a channel that holds nothing is not in channel_values
Unversioned == <<0, 0>>

Empty ==
    [id |-> 0, parent |-> 0, ver |-> [c \in Channels |-> Unversioned],
     val |-> [c \in Channels |-> Missing], new |-> {}]

-----------------------------------------------------------------------------
(* Versions.                                                                *)

NextPlain(ver, id) ==        \* mutant: BaseCheckpointSaver's numbers, without a salt
    <<Max({ver[c][1] : c \in Channels}) + 1, 0>>

\* get_next_version: the number, and random digits no other call draws.
NextVersion(ver, id) == <<Max({ver[c][1] : c \in Channels}) + 1, id>>

Newer(v, w) == v[1] > w[1] \/ (v[1] = w[1] /\ v[2] > w[2])

\* get_new_channel_versions
NewVersions(old, ver) == {c \in Channels : Newer(ver[c], old[c])}

-----------------------------------------------------------------------------
(* put. A value is <<kind, id of the checkpoint that got it>>; only "plain"  *)
(* ones - None, str, int, float, bool - are written into Postgres' JSON row. *)

\* A table or dictionary of one entry; one whose entries are put over another's.
One(key, value) == [k \in {key} |-> value]
Over(old, new) ==
    [key \in DOMAIN old \cup DOMAIN new |-> IF key \in DOMAIN new THEN new[key] ELSE old[key]]

BlobsOf(k, chans) ==
    [key \in {<<c, k.ver[c]>> : c \in chans} |-> k.val[key[1]]]

PutMemory(m, k) ==
    [m EXCEPT !.rows = Over(@, One(k.id, [parent |-> k.parent, ver |-> k.ver])),
              !.blobs = Over(@, BlobsOf(k, k.new))]

PutSqlite(s, k) ==
    [s EXCEPT !.rows = Over(@, One(k.id, [parent |-> k.parent, val |-> k.val]))]

Inline(val, c) == val[c] # Missing /\ val[c][1] = "plain"

\* Blobs: ON CONFLICT DO NOTHING.
PutPostgres(p, k) ==
    LET rich == {c \in k.new : k.val[c] # Missing /\ ~Inline(k.val, c)}
        row == [parent |-> k.parent, ver |-> k.ver,
                inline |-> [c \in {d \in Channels : Inline(k.val, d)} |-> k.val[c]]]
    IN  [p EXCEPT !.rows = Over(@, One(k.id, row)), !.blobs = Over(BlobsOf(k, rich), @)]

KeepEmpty(s, k) ==           \* mutant: a channel that was emptied keeps its blob
    [s EXCEPT !.row = [id |-> k.id, ver |-> k.ver],
              !.blobs = Over(@, [c \in {d \in k.new : k.val[d] # Missing} |-> k.val[c]]),
              !.writes = [w \in {x \in DOMAIN @ : x[1] \in {k.id, k.parent}} |-> @[w]]]

\* The one row, a blob for each channel, and the writes of two checkpoints stay.
PutShallow(s, k) ==
    [s EXCEPT !.row = [id |-> k.id, ver |-> k.ver],
              !.blobs = Over(@, [c \in k.new |-> k.val[c]]),
              !.writes = [w \in {x \in DOMAIN @ : x[1] \in {k.id, k.parent}} |-> @[w]]]

-----------------------------------------------------------------------------
(* put_writes: what a task's commit puts at which positions.                *)

WRITES_IDX_MAP == [error |-> -1, interrupt |-> -3, resume |-> -4]
Special(chan) == chan \in DOMAIN WRITES_IDX_MAP

Position(commit, i) == IF Special(commit[i]) THEN WRITES_IDX_MAP[commit[i]] ELSE i - 1

Entries(task, commit) ==
    [key \in {<<head.id, task, Position(commit, i)>> : i \in DOMAIN commit} |-> commits + 1]

MemoryWrites(ws, entries, commit) ==
    [key \in DOMAIN ws \cup DOMAIN entries |->
        IF key \in DOMAIN entries /\ (key[3] < 0 \/ key \notin DOMAIN ws)
        THEN entries[key] ELSE ws[key]]

AlwaysIgnore(ws, entries, commit) == Over(entries, ws)   \* mutant: never OR REPLACE

\* INSERT OR REPLACE / DO UPDATE when all the writes are special, else OR
\* IGNORE / DO NOTHING.
SqlWrites(ws, entries, commit) ==
    IF \A i \in DOMAIN commit : Special(commit[i]) THEN Over(ws, entries) ELSE Over(entries, ws)

-----------------------------------------------------------------------------
(* What is read back: get_tuple with a checkpoint id.                       *)

LoadBlobs(blobs, ver) ==
    [c \in Channels |-> IF <<c, ver[c]>> \in DOMAIN blobs THEN blobs[<<c, ver[c]>>] ELSE Missing]

GetMemory(id) ==
    [parent |-> memory.rows[id].parent, val |-> LoadBlobs(memory.blobs, memory.rows[id].ver)]

GetSqlite(id) == sqlite.rows[id]

GetPostgres(id) ==
    LET row == postgres.rows[id]
        loaded == LoadBlobs(postgres.blobs, row.ver)
    IN  [parent |-> row.parent,
         val |-> [c \in Channels |-> IF c \in DOMAIN row.inline /\ loaded[c] = Missing
                                     THEN row.inline[c] ELSE loaded[c]]]

GetShallow ==
    [c \in Channels |-> IF c \in DOMAIN shallow.blobs /\ shallow.row.ver[c] # Unversioned
                        THEN shallow.blobs[c] ELSE Missing]

PendingWrites(ws, id) == [key \in {k \in DOMAIN ws : k[1] = id} |-> ws[key]]

Newest == Max(DOMAIN made)

-----------------------------------------------------------------------------
(* The runs of the thread.                                                  *)

\* The checkpoint after the one in hand: the channels of "change" get a value of
\* that kind, or are emptied (apply_writes, _put_checkpoint).
Step(change) ==
    /\ lastId < setup.puts
    /\ LET id == lastId + 1
           version == NextVersion(head.ver, id)
           ver == [c \in Channels |-> IF c \in DOMAIN change THEN version ELSE head.ver[c]]
           next ==
             [id |-> id, parent |-> head.id, ver |-> ver, new |-> NewVersions(head.ver, ver),
              val |-> [c \in Channels |->
                         IF c \notin DOMAIN change THEN head.val[c]
                         ELSE IF change[c] = "empty" THEN Missing ELSE <<change[c], id>>]]
       IN  /\ head' = next
           /\ waiting' = Append(waiting, next)
    /\ lastId' = lastId + 1
    /\ UNCHANGED <<setup, made, savers, commits, odd>>

PutAll(k) ==
    /\ made' = Over(made, One(k.id, [parent |-> k.parent, val |-> k.val]))
    /\ memory' = PutMemory(memory, k)
    /\ sqlite' = PutSqlite(sqlite, k)
    /\ postgres' = PutPostgres(postgres, k)
    /\ shallow' = PutShallow(shallow, k)

\* _checkpointer_put_after_previous: one after another.
Save ==
    /\ waiting # <<>>
    /\ PutAll(waiting[1])
    /\ waiting' = Tail(waiting)
    /\ UNCHANGED <<setup, head, lastId, commits, odd>>

\* A task of the checkpoint in hand commits; its put_writes waits for no put.
PutWrites(task, commit) ==
    /\ commits < setup.commits
    /\ head.id # 0
    /\ LET entries == Entries(task, commit)
           special == {i \in DOMAIN commit : Special(commit[i])}
       IN  /\ memory' = [memory EXCEPT !.writes = MemoryWrites(@, entries, commit)]
           /\ sqlite' = [sqlite EXCEPT !.writes = SqlWrites(@, entries, commit)]
           /\ postgres' = [postgres EXCEPT !.writes = SqlWrites(@, entries, commit)]
           /\ shallow' = [shallow EXCEPT !.writes = SqlWrites(@, entries, commit)]
           /\ odd' = [odd EXCEPT
                !.mixed = IF special \notin {{}, DOMAIN commit} THEN @ \cup {<<head.id, task>>} ELSE @,
                !.early = IF Len(waiting) > 1 THEN @ \cup {head.id} ELSE @]
    /\ commits' = commits + 1
    /\ UNCHANGED <<setup, head, waiting, made, lastId>>

\* An invocation starts at a saved checkpoint, the newest unless its config names
\* one; if puts were waiting, the process that made them has died.
Start(id) ==
    /\ id \in DOMAIN made
    /\ head.id # id
    /\ head' = [Empty EXCEPT !.id = id, !.parent = made[id].parent, !.val = made[id].val,
                             !.ver = memory.rows[id].ver]
    /\ waiting' = <<>>
    /\ odd' = [odd EXCEPT !.linear = @ /\ id = Newest]
    /\ UNCHANGED <<setup, made, savers, lastId, commits>>

\* update_state(None, as_node="__copy__"): a sibling with the same versions, and
\* no new ones.
Copy(id) ==
    /\ waiting = <<>> /\ lastId < setup.puts
    /\ id \in DOMAIN made
    /\ PutAll([id |-> lastId + 1, parent |-> made[id].parent, val |-> made[id].val,
               ver |-> memory.rows[id].ver, new |-> {}])
    /\ lastId' = lastId + 1
    /\ odd' = [odd EXCEPT !.linear = FALSE]
    /\ UNCHANGED <<setup, head, waiting, commits>>

Bare == [rows |-> <<>>, blobs |-> <<>>, writes |-> <<>>]
BareShallow == [row |-> Empty, blobs |-> <<>>, writes |-> <<>>]

\* delete_thread, while nothing runs on the thread.
DeleteThread ==
    /\ setup.deletes /\ waiting = <<>> /\ made # <<>>
    /\ made' = <<>> /\ head' = Empty
    /\ memory' = Bare /\ sqlite' = [rows |-> <<>>, writes |-> <<>>]
    /\ postgres' = Bare /\ shallow' = BareShallow
    /\ odd' = [odd EXCEPT !.linear = TRUE]
    /\ UNCHANGED <<setup, waiting, lastId, commits>>

Init ==
    /\ setup \in Setups      \* puts, commits: bounds; changes, lists, deletes: inputs
    /\ head = Empty /\ waiting = <<>> /\ made = <<>>
    /\ memory = Bare /\ sqlite = [rows |-> <<>>, writes |-> <<>>]
    /\ postgres = Bare /\ shallow = BareShallow
    /\ lastId = 0 /\ commits = 0
    /\ odd = [mixed |-> {}, early |-> {}, linear |-> TRUE]

Next ==
    \/ \E change \in setup.changes : Step(change)
    \/ Save
    \/ \E task \in Tasks, commit \in setup.lists : PutWrites(task, commit)
    \/ \E id \in DOMAIN made : Start(id) \/ Copy(id)
    \/ DeleteThread

Spec == Init /\ [][Next]_vars

-----------------------------------------------------------------------------
(* Properties.                                                              *)

\* [put, get_tuple of the three savers] Whatever was forked, copied, lost in a
\* crash or deleted since, each saver gives back of every checkpoint the values
\* and the parent it was put with.
ReadsWhatWasPut ==
    \A id \in DOMAIN made :
        made[id] = GetMemory(id) /\ made[id] = GetSqlite(id) /\ made[id] = GetPostgres(id)

\* [put_writes] The savers hold the same pending writes, but for the special ones
\* of a task that once committed special and other writes together.
PendingWritesAgree ==
    LET Plain(ws) == [key \in {k \in DOMAIN ws : k[3] >= 0 \/ <<k[1], k[2]>> \notin odd.mixed}
                         |-> ws[key]]
    IN  /\ sqlite.writes = postgres.writes
        /\ Plain(memory.writes) = Plain(sqlite.writes)

\* [ShallowPostgresSaver] While a thread is not forked, the one row and the blobs
\* are its newest checkpoint, with the writes that are pending there unless they
\* came while the save before that checkpoint's own was waiting.
ShallowIsNewest ==
    odd.linear /\ made # <<>> =>
        /\ shallow.row.id = Newest
        /\ GetShallow = made[Newest].val
        /\ Newest \notin odd.early =>
             PendingWrites(shallow.writes, Newest) = PendingWrites(postgres.writes, Newest)
=============================================================================
