--------------------------- MODULE PregelLoopProofs ---------------------------
(***************************************************************************)
(* Machine-checked theorems about PregelLoop, for every graph, every       *)
(* durability and retry policy, every list of nodes to interrupt at, and   *)
(* every number of inputs, resumes, failures and crashes: first of the     *)
(* thread and its saver, then that the loop implements Supersteps.         *)
(***************************************************************************)
EXTENDS PregelLoop, FiniteSetTheorems, WellFoundedInduction, TLAPS

\* The ids of the checkpoints on their way to the saver.
PutIds == {p.id : p \in puts}

\* Between two invocations, and in update_state, no process has saves or tasks.
OffInv == ~InHand => puts = {} /\ wputs = {} /\ running = Idle

\* A checkpoint on its way is newer than its parent, which is in the saver or
\* on its way as well; its updated channels are channels.
GoodPut(p, ids, last) ==
    /\ {"id", "parent", "upd"} \subseteq DOMAIN p
    /\ p.id \in 1 .. last
    /\ p.parent \in Nat /\ p.parent < p.id
    /\ p.parent \in {0} \cup ids
    /\ p.upd \subseteq Channels

PutsInv ==
    /\ lastId \in Nat
    /\ \A p \in puts : GoodPut(p, DOMAIN saved \cup PutIds, lastId)
    /\ \A id \in DOMAIN saved : saved[id].upd \subseteq Channels

\* The checkpoint in hand is in the saver or on its way, unless durability is
\* "exit"; with "sync" the one a superstep left is in the saver when the next tick
\* begins.
HeadInv ==
    /\ {"id", "src"} \subseteq DOMAIN cp
    /\ InHand /\ Durability # "exit" => cp.id \in DOMAIN saved \cup PutIds
    /\ (Durability = "sync" /\ cp.src = "loop" /\ pc \in {"tick", "run"})
           => cp.id \in DOMAIN saved

\* With durability "exit" nothing is on its way until the block is left, and no
\* checkpoint is newer than the one in hand.
ExitInv ==
    /\ pc = "leave" => Durability = "exit"
    /\ InHand /\ Durability = "exit" =>
        /\ pc # "exit" => puts = {}
        /\ \A id \in DOMAIN saved \cup PutIds : id <= cp.id

\* The saver knows only checkpoints that were given an id, and never an empty
\* list of writes; a task that runs has none.
WritesInv ==
    /\ writes = [n \in Nodes |-> writes[n]]
    /\ \A n \in Nodes : writes[n] = {} \/ running[n] = 0
    /\ DOMAIN pwrites \subseteq (0 .. lastId) \X Nodes
    /\ \A key \in DOMAIN pwrites : pwrites[key] # {}
    /\ \A w \in wputs : w.id \in 0 .. lastId /\ w.node \in Nodes /\ w.writes # {}

\* A node whose completion is saved, or about to be, has its writes in memory,
\* and no thread runs it.
CompletedInv ==
    InHand => \A n \in Nodes : CompletedAt(n) => writes[n] # {} /\ running[n] = 0

LoopInv ==
    /\ TypeOK /\ HistorySaved
    /\ OffInv /\ PutsInv /\ HeadInv /\ ExitInv /\ WritesInv /\ CompletedInv

-----------------------------------------------------------------------------
(* Facts about the operators                                               *)

\* The maximum of a set of ids is one of them, and no id is greater.
LEMMA MaxOfIds ==
  ASSUME NEW n \in Nat, NEW S \in SUBSET (1 .. n), S # {}
  PROVE  Max(S) \in S /\ \A y \in S : Max(S) >= y
<1> DEFINE T == {n - x : x \in S}
           R == {ss \in Nat \X Nat : ss[1] < ss[2]}
<1>1. T \subseteq Nat /\ T # {}
  <2>1. \A x \in S : x \in 1 .. n /\ n - x \in Nat
    OBVIOUS
  <2>2. PICK x \in S : TRUE
    OBVIOUS
  <2>3. n - x \in T
    BY <2>2
  <2> QED BY <2>1, <2>3
<1>2. IsWellFoundedOn(R, Nat)
  BY NatLessThanWellFounded DEF OpToRel
<1> HIDE DEF T, R
<1>3. PICK t \in T : \A u \in T : ~ (<<u, t>> \in R)
  BY <1>1, <1>2, WFMin
<1>4. \A u \in T : t <= u
  <2> SUFFICES ASSUME NEW u \in T PROVE t <= u
    OBVIOUS
  <2>1. t \in Nat /\ u \in Nat
    BY <1>1
  <2>2. u < t => <<u, t>> \in R
    BY <2>1 DEF R
  <2> QED BY <1>3, <2>1, <2>2
<1>5. PICK x \in S : t = n - x
  BY DEF T
<1>6. \A y \in S : x >= y
  <2> SUFFICES ASSUME NEW y \in S PROVE x >= y
    OBVIOUS
  <2>1. n - y \in T
    BY DEF T
  <2>2. n - x <= n - y
    BY <1>4, <1>5, <2>1
  <2> QED BY <2>2
<1> QED BY <1>6 DEF Max

\* The newest checkpoint of a non-empty saver is in it.
LEMMA NewestIsSaved ==
  ASSUME lastId \in Nat, DOMAIN saved \subseteq 1 .. lastId
  PROVE  /\ DOMAIN saved # {} => NewestId \in DOMAIN saved
         /\ NewestId \in 0 .. lastId
         /\ NewestId \in {0} \cup DOMAIN saved
         /\ \A id \in DOMAIN saved : id <= NewestId
<1>1. CASE DOMAIN saved = {}
  BY <1>1 DEF NewestId
<1>2. CASE DOMAIN saved # {}
  <2>1. Max(DOMAIN saved) \in DOMAIN saved /\ \A id \in DOMAIN saved : Max(DOMAIN saved) >= id
    BY <1>2, MaxOfIds
  <2> QED BY <1>2, <2>1 DEF NewestId
<1> QED BY <1>1, <1>2

\* A superstep reports channels of the graph, and runs nodes of the graph.
LEMMA UpdatedAreChannels ==
  ASSUME NEW k, NEW ts \in SUBSET Nodes, NEW received
  PROVE  UpdatedChannels(k, ts, received) \subseteq Channels
<1>1. Read(ts) \subseteq Channels
  BY GraphAssumption DEF Read
<1> QED BY <1>1 DEF UpdatedChannels, Changed, Moved, Consumed

LEMMA TasksAreNodes ==
  ASSUME NEW k, NEW u
  PROVE  PrepareNextTasks(k, u) \subseteq Nodes /\ FullScan(k) \subseteq Nodes
BY DEF PrepareNextTasks, FullScan, Candidates

\* Saving over what was saved before keeps something, and never turns the
\* writes of a failed task into those of a completed one.
LEMMA MergesKeep ==
  ASSUME NEW old, NEW new, old # {}, new # {}, NEW merged \in Merges(old, new)
  PROVE  /\ merged # {}
         /\ Error \notin Chans(merged)
              => Error \notin Chans(old) \/ Error \notin Chans(new)
<1> DEFINE kept == Matched(old)
           fresh == Matched(new)
           errors == IF fresh = new THEN old \ kept ELSE new \ fresh
<1>1. PICK added \in SUBSET fresh :
        /\ merged = kept \cup added \cup errors
        /\ kept = {} => added = fresh
  BY DEF Merges
<1>2. merged # {}
  BY <1>1 DEF Matched
<1>3. ASSUME Error \in Chans(old), Error \in Chans(new) PROVE Error \in Chans(errors)
  BY <1>3 DEF Matched, Chans
<1>4. Chans(errors) \subseteq Chans(merged)
  BY <1>1 DEF Chans
<1> QED BY <1>2, <1>3, <1>4

\* What put_writes changes in the saver.
LEMMA PutWritesKeeps ==
  ASSUME NEW key, NEW ws, ws # {}, PutWrites(key, ws),
         \A other \in DOMAIN pwrites : pwrites[other] # {}
  PROVE  /\ DOMAIN pwrites' = DOMAIN pwrites \cup {key}
         /\ \A other \in DOMAIN pwrites \ {key} : pwrites'[other] = pwrites[other]
         /\ pwrites'[key] # {}
         /\ Error \notin Chans(pwrites'[key]) =>
              \/ Error \notin Chans(ws)
              \/ key \in DOMAIN pwrites /\ Error \notin Chans(pwrites[key])
<1>1. PICK merged \in IF key \in DOMAIN pwrites THEN Merges(pwrites[key], ws) ELSE {ws} :
        pwrites' = With(pwrites, key, merged)
  BY DEF PutWrites
<1>2. /\ DOMAIN pwrites' = DOMAIN pwrites \cup {key}
      /\ \A other \in DOMAIN pwrites \ {key} : pwrites'[other] = pwrites[other]
      /\ pwrites'[key] = merged
  BY <1>1 DEF With
<1>3. CASE key \in DOMAIN pwrites
  BY <1>1, <1>2, <1>3, MergesKeep
<1>4. CASE key \notin DOMAIN pwrites
  BY <1>1, <1>2, <1>4
<1> QED BY <1>2, <1>3, <1>4

-----------------------------------------------------------------------------
(* Steps that several actions share                                        *)

\* A step of the thread in stream that only moves on.
LEMMA MoveOnKeeps ==
  ASSUME LoopInv, pc \in {"tick", "run", "wait"}, pc' \in {"tick", "run", WayOut},
         tasks' \in SUBSET Nodes,
         (Durability = "sync" /\ cp.src = "loop" /\ pc' \in {"tick", "run"})
            => cp.id \in DOMAIN saved,
         UNCHANGED <<cp, upd, writes, running, failed, puts, wputs, saved,
                     pwrites, lastId>>
  PROVE  LoopInv'
<1> USE DEF LoopInv, InHand, WayOut
<1>1. TypeOK' /\ HistorySaved' /\ OffInv'
  BY DEF TypeOK, HistorySaved, OffInv
<1>2. PutsInv'
  BY DEF PutsInv, PutIds
<1>3. HeadInv' /\ ExitInv'
  BY DEF HeadInv, ExitInv, PutIds
<1>4. WritesInv' /\ CompletedInv'
  BY DEF WritesInv, CompletedInv, CompletedAt
<1> QED BY <1>1, <1>2, <1>3, <1>4

\* What the saver needs of a save that waits stays, whatever its channels do.
SameSave(q, p) ==
    /\ {"id", "parent", "upd"} \subseteq DOMAIN q
    /\ q.id = p.id /\ q.parent = p.parent /\ q.upd = p.upd

LEMMA AliasedSame ==
  ASSUME PutsInv, NEW k, NEW consumed
  PROVE  \A p \in puts : SameSave(Aliased(p, k, consumed), p)
<1> SUFFICES ASSUME NEW p \in puts PROVE SameSave(Aliased(p, k, consumed), p)
  OBVIOUS
<1>1. {"id", "parent", "upd"} \subseteq DOMAIN p
  BY DEF PutsInv, GoodPut
<1> QED BY <1>1 DEF Aliased, SameSave

\* The saves that wait stay in order while others join them.
LEMMA PutsKeep ==
  ASSUME PutsInv, NEW new, new \subseteq puts',
         lastId' \in Nat, lastId' >= lastId, saved' = saved,
         \A q \in puts' : q \in new \/ \E p \in puts : SameSave(q, p),
         \A p \in puts : \E q \in puts' : SameSave(q, p),
         \A q \in new : GoodPut(q, DOMAIN saved \cup PutIds, lastId')
  PROVE  /\ PutsInv'
         /\ PutIds' = PutIds \cup {q.id : q \in new}
<1>1. PutIds' = PutIds \cup {q.id : q \in new}
  <2>1. \A q \in puts' : q.id \in PutIds \cup {r.id : r \in new}
    BY DEF PutIds, SameSave
  <2>2. \A p \in puts : p.id \in PutIds'
    BY DEF PutIds, SameSave
  <2>3. \A q \in new : q.id \in PutIds'
    BY DEF PutIds
  <2> QED BY <2>1, <2>2, <2>3 DEF PutIds
<1>2. ASSUME NEW q \in puts' PROVE GoodPut(q, DOMAIN saved' \cup PutIds', lastId')
  <2>1. CASE q \in new
    BY <1>1, <2>1 DEF GoodPut
  <2>2. CASE \E p \in puts : SameSave(q, p)
    <3>1. PICK p \in puts : SameSave(q, p)
      BY <2>2
    <3>2. GoodPut(p, DOMAIN saved \cup PutIds, lastId) /\ lastId \in Nat
      BY DEF PutsInv
    <3> QED BY <1>1, <3>1, <3>2 DEF GoodPut, SameSave
  <2> QED BY <2>1, <2>2
<1>3. \A id \in DOMAIN saved' : saved'[id].upd \subseteq Channels
  BY DEF PutsInv
<1> QED BY <1>1, <1>2, <1>3 DEF PutsInv

\* What the saver is given of a checkpoint.
LEMMA SubmissionShape ==
  ASSUME NEW ck, NEW parent, NEW old, NEW u
  PROVE  LET p == Submission(ck, parent, old, u)
         IN  /\ {"id", "parent", "upd"} \subseteq DOMAIN p
             /\ p.id = ck.id /\ p.parent = parent /\ p.upd = u
BY DEF Submission

\* A checkpoint is created; unless durability is "exit" it is on its way, after a
\* parent that is in the saver or on its way.
LEMMA PutKeeps ==
  ASSUME TypeOK, PutsInv, NEW id,
         Durability # "exit" => id \in {0} \cup DOMAIN saved \cup PutIds,
         NEW st, NEW old, NEW k, NEW consumed, NEW src, NEW u \in SUBSET Channels,
         PutCheckpoint(id, st, old, k, consumed, src, u), UNCHANGED saved
  PROVE  /\ PutsInv'
         /\ lastId' = lastId + 1 /\ upd' = u
         /\ {"id", "src"} \subseteq DOMAIN cp' /\ cp'.id = lastId + 1 /\ cp'.src = src
         /\ Durability # "exit" => cp'.id \in PutIds'
         /\ Durability = "exit" /\ puts = {} => puts' = {}
<1> DEFINE ck == [id |-> lastId + 1, step |-> st + 1, src |-> src, state |-> k]
           sub == Submission(ck, id, old, u)
           new == IF Durability = "exit" THEN {} ELSE {sub}
<1>1. /\ puts' = {Aliased(p, k, consumed) : p \in puts} \cup new
      /\ cp' = ck /\ upd' = u /\ lastId' = lastId + 1
  BY DEF PutCheckpoint
<1>2. lastId \in Nat /\ lastId' \in Nat /\ lastId' >= lastId
  BY <1>1 DEF PutsInv
<1>3. /\ {"id", "parent", "upd"} \subseteq DOMAIN sub
      /\ sub.id = lastId + 1 /\ sub.parent = id /\ sub.upd = u
  BY SubmissionShape
<1>4. /\ {"id", "src"} \subseteq DOMAIN ck /\ ck.id = lastId + 1 /\ ck.src = src
  OBVIOUS
<1> HIDE DEF ck, sub
<1>5. \A q \in new : GoodPut(q, DOMAIN saved \cup PutIds, lastId')
  <2> SUFFICES ASSUME Durability # "exit"
               PROVE  GoodPut(sub, DOMAIN saved \cup PutIds, lastId')
    OBVIOUS
  <2>1. id \in 0 .. lastId
    BY <1>2 DEF PutsInv, GoodPut, TypeOK, PutIds
  <2> QED BY <1>1, <1>2, <1>3, <2>1 DEF GoodPut
<1>6. PutsInv' /\ PutIds' = PutIds \cup {q.id : q \in new}
  <2> HIDE DEF new
  <2>1. new \subseteq puts' /\ UNCHANGED saved
    BY <1>1
  <2>2. \A q \in puts' : q \in new \/ \E p \in puts : SameSave(q, p)
    BY <1>1, AliasedSame
  <2>3. \A p \in puts : \E q \in puts' : SameSave(q, p)
    BY <1>1, AliasedSame
  <2> QED BY <1>2, <1>5, <2>1, <2>2, <2>3, PutsKeep
<1>7. Durability = "exit" /\ puts = {} => puts' = {}
  BY <1>1
<1>8. Durability # "exit" => lastId + 1 \in PutIds'
  BY <1>3, <1>6
<1> QED BY <1>1, <1>4, <1>6, <1>7, <1>8

-----------------------------------------------------------------------------
(* The actions that change what the invariant speaks of                    *)

\* __enter__ with an input: the new checkpoint is in hand, and no writes are
\* known under its id.
LEMMA InvokeKeeps == ASSUME LoopInv, InvokeWithInput PROVE LoopInv'
<1> USE DEF LoopInv, InHand
<1>1. /\ pc = "off" /\ pc' = "tick" /\ tasks' = {} /\ running' = Idle /\ failed' = {}
      /\ writes' = NoTasks /\ UNCHANGED <<wputs, saved, pwrites>>
  BY DEF InvokeWithInput, Begin, store
<1>2. /\ NewestId \in {0} \cup DOMAIN saved \cup PutIds
      /\ FullScan(NewestState) \in SUBSET Nodes
  BY NewestIsSaved, TasksAreNodes DEF PutsInv, TypeOK
<1>3. PICK u \in SUBSET Channels :
        PutCheckpoint(NewestId, NewestStep, NewestState,
            Apply(NewestState, FullScan(NewestState), FromInput(NewestId)),
            Consumed(NewestState, FullScan(NewestState)), "input", u)
  BY <1>2, UpdatedAreChannels DEF InvokeWithInput
<1>4. /\ PutsInv' /\ lastId' = lastId + 1 /\ upd' = u
      /\ {"id", "src"} \subseteq DOMAIN cp' /\ cp'.id = lastId + 1 /\ cp'.src = "input"
      /\ Durability # "exit" => cp'.id \in PutIds'
      /\ Durability = "exit" => puts' = {}
  BY <1>1, <1>2, <1>3, PutKeeps DEF OffInv
<1>5. lastId \in Nat
  BY DEF PutsInv
<1>6. TypeOK'
  BY <1>1, <1>4, <1>5, LoopAssumption DEF TypeOK, Idle
<1>7. HistorySaved' /\ OffInv' /\ HeadInv'
  BY <1>1, <1>4 DEF HistorySaved, OffInv, HeadInv
<1>8. ExitInv'
  BY <1>1, <1>4, <1>5 DEF ExitInv, TypeOK, PutIds
<1>9. WritesInv'
  BY <1>1, <1>4, <1>5 DEF WritesInv, NoTasks
<1>10. CompletedInv'
  <2>1. \A n : <<cp'.id, n>> \notin DOMAIN pwrites
    BY <1>4, <1>5 DEF WritesInv
  <2>2. wputs = {}
    BY <1>1 DEF OffInv
  <2> QED BY <1>1, <2>1, <2>2 DEF CompletedInv, CompletedAt
<1> QED BY <1>4, <1>6, <1>7, <1>8, <1>9, <1>10

\* __enter__ without an input: the newest checkpoint, with its pending writes.
LEMMA ResumeKeeps == ASSUME LoopInv, Resume PROVE LoopInv'
<1> USE DEF LoopInv, InHand
<1>1. /\ pc = "off" /\ pc' = "tick" /\ tasks' = {} /\ running' = Idle /\ failed' = {}
      /\ {"id", "src"} \subseteq DOMAIN cp' /\ cp'.id = NewestId
      /\ upd' = saved[NewestId].upd
      /\ writes' = PendingWrites(NewestId)
      /\ UNCHANGED <<puts, wputs, saved, pwrites, lastId>>
  BY DEF Resume, Begin, store, background
<1>2. /\ NewestId \in DOMAIN saved /\ NewestId \in 0 .. lastId
      /\ \A id \in DOMAIN saved : id <= NewestId
  BY NewestIsSaved DEF Resume, PutsInv, TypeOK
<1>3. puts = {} /\ wputs = {}
  BY <1>1 DEF OffInv
<1>4. TypeOK'
  BY <1>1, <1>2, LoopAssumption DEF TypeOK, Idle, PutsInv
<1>5. HistorySaved' /\ OffInv' /\ PutsInv' /\ HeadInv' /\ ExitInv'
  BY <1>1, <1>2, <1>3 DEF HistorySaved, OffInv, PutsInv, PutIds, HeadInv, ExitInv
<1>6. WritesInv'
  BY <1>1, <1>3 DEF WritesInv, PendingWrites, Idle
<1>7. CompletedInv'
  <2> SUFFICES ASSUME NEW n \in Nodes, CompletedAt(n)'
               PROVE  writes'[n] # {} /\ running'[n] = 0
    BY DEF CompletedInv
  <2>1. <<NewestId, n>> \in DOMAIN pwrites /\ Error \notin Chans(pwrites[<<NewestId, n>>])
    BY <1>1, <1>3 DEF CompletedAt
  <2>2. Matched(pwrites[<<NewestId, n>>]) # {}
    BY <2>1 DEF WritesInv, Matched, Chans
  <2> QED BY <1>1, <2>1, <2>2 DEF PendingWrites, Idle
<1> QED BY <1>4, <1>5, <1>6, <1>7

\* An attempt begins: the node had not completed here.
LEMMA AttemptKeeps ==
  ASSUME LoopInv, NEW n \in Nodes, NEW try \in 1 .. MaxAttempts,
         InHand, ~CompletedAt(n), Attempt(n, try)
  PROVE  LoopInv'
<1> USE DEF LoopInv, InHand
<1>1. /\ running' = [running EXCEPT ![n] = try]
      /\ writes' = [writes EXCEPT ![n] = {}]
      /\ UNCHANGED <<pc, cp, upd, tasks, failed, puts, wputs, saved, pwrites, lastId>>
  BY DEF Attempt, store, background
<1>2. TypeOK'
  BY <1>1, LoopAssumption DEF TypeOK
<1>3. HistorySaved' /\ OffInv' /\ PutsInv' /\ HeadInv' /\ ExitInv'
  BY <1>1 DEF HistorySaved, OffInv, PutsInv, PutIds, HeadInv, ExitInv
<1>4. WritesInv'
  BY <1>1 DEF WritesInv, TypeOK
<1>5. CompletedInv'
  <2>1. \A m \in Nodes : CompletedAt(m)' <=> CompletedAt(m)
    BY <1>1 DEF CompletedAt
  <2>2. \A m \in Nodes \ {n} : writes'[m] = writes[m] /\ running'[m] = running[m]
    BY <1>1 DEF WritesInv, TypeOK
  <2> QED BY <1>1, <2>1, <2>2 DEF CompletedInv
<1> QED BY <1>2, <1>3, <1>4, <1>5

\* The done callback: the writes of the task are in memory, and may be on their
\* way to the saver.
LEMMA CommitKeeps ==
  ASSUME LoopInv, NEW n \in Nodes, NEW ws, ws # {},
         running[n] > 0, Commit(n, ws), failed' \in SUBSET Nodes
  PROVE  LoopInv'
<1> USE DEF LoopInv, InHand
<1>1. /\ writes' = [writes EXCEPT ![n] = ws]
      /\ running' = [running EXCEPT ![n] = 0]
      /\ wputs' \subseteq wputs \cup {[id |-> cp.id, node |-> n, writes |-> ws]}
      /\ UNCHANGED <<pc, cp, upd, tasks, puts, saved, pwrites, lastId>>
  BY DEF Commit, store
<1>2. pc \notin {"off", "update"}
  BY DEF OffInv, Idle
<1>3. TypeOK'
  BY <1>1, LoopAssumption DEF TypeOK
<1>4. HistorySaved' /\ OffInv' /\ PutsInv' /\ HeadInv' /\ ExitInv'
  BY <1>1, <1>2 DEF HistorySaved, OffInv, PutsInv, PutIds, HeadInv, ExitInv
<1>5. WritesInv'
  <2>1. cp.id \in 0 .. lastId
    BY DEF TypeOK
  <2>2. \A m \in Nodes : writes'[m] = {} \/ running'[m] = 0
    BY <1>1 DEF WritesInv, TypeOK
  <2> QED BY <1>1, <2>1, <2>2 DEF WritesInv
<1>6. CompletedInv'
  <2>1. \A m \in Nodes \ {n} : /\ CompletedAt(m)' => CompletedAt(m)
                               /\ writes'[m] = writes[m] /\ running'[m] = running[m]
    BY <1>1 DEF CompletedAt, WritesInv, TypeOK
  <2>2. writes'[n] = ws /\ running'[n] = 0
    BY <1>1 DEF WritesInv, TypeOK
  <2> QED BY <1>1, <1>2, <2>1, <2>2 DEF CompletedInv
<1> QED BY <1>3, <1>4, <1>5, <1>6

\* A refused superstep leaves the checkpoint's id and the saves that wait.
LEMMA RefuseKeeps == ASSUME LoopInv, RefuseWrites PROVE LoopInv'
<1> USE DEF LoopInv, InHand
<1>1. /\ pc = "run" /\ pc' = WayOut
      /\ UNCHANGED <<upd, tasks, writes, running, failed, wputs, saved, pwrites, lastId>>
  BY DEF RefuseWrites, AllWritten, store
<1>2. PICK k, consumed : /\ cp' = [cp EXCEPT !.state = k]
                         /\ puts' = {Aliased(p, k, consumed) : p \in puts}
  BY DEF RefuseWrites
<1>3. {"id", "src"} \subseteq DOMAIN cp' /\ cp'.id = cp.id /\ cp'.src = cp.src
  BY <1>2 DEF HeadInv
<1>4. PutsInv' /\ PutIds' = PutIds
  <2>1. /\ \A q \in puts' : \E p \in puts : SameSave(q, p)
        /\ \A p \in puts : \E q \in puts' : SameSave(q, p)
    BY <1>2, AliasedSame
  <2>2. lastId' \in Nat /\ lastId' >= lastId /\ {} \subseteq puts'
    BY <1>1 DEF PutsInv
  <2>3. PutsInv' /\ PutIds' = PutIds \cup {q.id : q \in {}}
    BY <1>1, <2>1, <2>2, PutsKeep
  <2> QED BY <2>3
<1>5. puts = {} => puts' = {}
  BY <1>2
<1>6. TypeOK' /\ HistorySaved' /\ OffInv'
  BY <1>1, <1>3 DEF TypeOK, HistorySaved, OffInv, WayOut
<1>7. HeadInv'
  BY <1>1, <1>3, <1>4 DEF HeadInv, WayOut
<1>8. ExitInv'
  BY <1>1, <1>3, <1>4, <1>5 DEF ExitInv, WayOut
<1>9. WritesInv' /\ CompletedInv'
  BY <1>1, <1>3 DEF WritesInv, CompletedInv, CompletedAt, WayOut
<1> QED BY <1>4, <1>6, <1>7, <1>8, <1>9

\* The end of a superstep: the checkpoint it leaves is in hand. No writes are
\* known under its id, and with durability "sync" no tick begins yet.
LEMMA AfterTickKeeps == ASSUME LoopInv, AfterTick PROVE LoopInv'
<1> USE DEF LoopInv, InHand
<1> DEFINE received == Received(tasks, writes, cp.id)
<1>1. /\ pc = "run" /\ running = Idle
      /\ pc' = WayOut \/ pc' = (IF Durability = "sync" THEN "wait" ELSE "tick")
      /\ writes' = NoTasks /\ tasks' = {}
      /\ UNCHANGED <<running, failed, wputs, saved, pwrites>>
  BY DEF AfterTick, AllWritten, store
<1>2. Durability # "exit" => cp.id \in {0} \cup DOMAIN saved \cup PutIds
  BY <1>1 DEF HeadInv
<1>3. PICK u \in SUBSET Channels : \E st, old, k, consumed :
        PutCheckpoint(cp.id, st, old, k, consumed, "loop", u)
  <2>1. UpdatedChannels(cp.state, tasks, received) \in SUBSET Channels
    BY UpdatedAreChannels DEF TypeOK
  <2> QED BY <2>1 DEF AfterTick
<1>4. /\ PutsInv' /\ lastId' = lastId + 1 /\ upd' = u
      /\ {"id", "src"} \subseteq DOMAIN cp' /\ cp'.id = lastId + 1
      /\ Durability # "exit" => cp'.id \in PutIds'
      /\ Durability = "exit" => puts' = {}
  <2>1. PICK st, old, k, consumed : PutCheckpoint(cp.id, st, old, k, consumed, "loop", u)
    BY <1>3
  <2> QED BY <1>1, <1>2, <2>1, PutKeeps DEF ExitInv
<1>5. lastId \in Nat
  BY DEF PutsInv
<1>6. TypeOK'
  BY <1>1, <1>3, <1>4, <1>5, LoopAssumption DEF TypeOK, WayOut
<1>7. HistorySaved' /\ OffInv' /\ HeadInv'
  BY <1>1, <1>4 DEF HistorySaved, OffInv, HeadInv, WayOut
<1>8. ExitInv'
  BY <1>1, <1>4, <1>5 DEF ExitInv, TypeOK, PutIds, WayOut
<1>9. WritesInv'
  BY <1>1, <1>4, <1>5 DEF WritesInv, NoTasks
<1>10. CompletedInv'
  <2>1. \A n : <<cp'.id, n>> \notin DOMAIN pwrites
    BY <1>4, <1>5 DEF WritesInv
  <2>2. \A w \in wputs : w.id # cp'.id
    BY <1>4, <1>5 DEF WritesInv
  <2> QED BY <1>1, <2>1, <2>2 DEF CompletedInv, CompletedAt
<1> QED BY <1>4, <1>6, <1>7, <1>8, <1>9, <1>10

\* With durability "exit" the block is left: what is in hand is on its way, after
\* the checkpoint the invocation found, which is older.
LEMMA LeaveBlockKeeps == ASSUME LoopInv, LeaveBlock PROVE LoopInv'
<1> USE DEF LoopInv, InHand
<1> DEFINE sub == Submission(cp, NewestId, NewestState, upd)
           new == IF cp.id = NewestId THEN {} ELSE {sub}
<1>1. /\ pc = "leave" /\ pc' = "exit" /\ puts' = puts \cup new
      /\ wputs' = wputs \cup {[id |-> cp.id, node |-> n, writes |-> writes[n]] :
                                 n \in {m \in Nodes : writes[m] # {}}}
      /\ UNCHANGED <<cp, upd, tasks, writes, running, failed, saved, pwrites, lastId>>
  BY DEF LeaveBlock, PendingSaves, store
<1>2. Durability = "exit" /\ puts = {} /\ \A id \in DOMAIN saved : id <= cp.id
  BY <1>1 DEF ExitInv
<1>3. /\ NewestId \in 0 .. lastId /\ cp.id \in 0 .. lastId /\ lastId \in Nat
      /\ NewestId \in {0} \cup DOMAIN saved /\ NewestId <= cp.id
  BY <1>2, NewestIsSaved DEF TypeOK, PutsInv
<1>4. /\ {"id", "parent", "upd"} \subseteq DOMAIN sub
      /\ sub.id = cp.id /\ sub.parent = NewestId /\ sub.upd = upd
  BY SubmissionShape
<1> HIDE DEF sub
<1>5. \A q \in new : GoodPut(q, DOMAIN saved \cup PutIds, lastId') /\ q.id = cp.id
  <2> SUFFICES ASSUME cp.id # NewestId
               PROVE  GoodPut(sub, DOMAIN saved \cup PutIds, lastId') /\ sub.id = cp.id
    OBVIOUS
  <2> QED BY <1>1, <1>3, <1>4 DEF GoodPut, TypeOK
<1> HIDE DEF new
<1>6. PutsInv' /\ \A id \in PutIds' : id <= cp.id
  <2>1. puts' = new /\ new \subseteq puts'
    BY <1>1, <1>2
  <2>2. lastId' \in Nat /\ lastId' >= lastId
    BY <1>1, <1>3
  <2>3. PutsInv' /\ PutIds' = PutIds \cup {q.id : q \in new}
    BY <1>1, <1>2, <1>5, <2>1, <2>2, PutsKeep
  <2> QED BY <1>2, <1>3, <1>5, <2>3 DEF PutIds
<1>7. TypeOK' /\ HistorySaved' /\ OffInv'
  BY <1>1 DEF TypeOK, HistorySaved, OffInv
<1>8. HeadInv' /\ ExitInv'
  BY <1>1, <1>2, <1>6 DEF HeadInv, ExitInv
<1>9. WritesInv'
  BY <1>1, <1>3 DEF WritesInv
<1>10. CompletedInv'
  <2>1. \A n \in Nodes : CompletedAt(n)' => CompletedAt(n) \/ writes[n] # {}
    BY <1>1 DEF CompletedAt
  <2> QED BY <1>1, <2>1 DEF CompletedInv, WritesInv
<1> QED BY <1>6, <1>7, <1>8, <1>9, <1>10

\* A checkpoint arrives: the saves are done in the order of their ids, so its
\* parent, which is older, cannot be waiting any more.
LEMMA SaveCheckpointKeeps ==
  ASSUME LoopInv, NEW p \in puts, SaveCheckpoint(p) PROVE LoopInv'
<1> USE DEF LoopInv
<1>1. /\ puts' = puts \ {p} /\ \A q \in puts : p.id <= q.id
      /\ DOMAIN saved' = DOMAIN saved \cup {p.id}
      /\ \A id \in DOMAIN saved' :
            IF id = p.id THEN saved'[id].parent = p.parent /\ saved'[id].upd = p.upd
                         ELSE saved'[id] = saved[id]
      /\ UNCHANGED <<process, wputs, pwrites, lastId>>
  BY DEF SaveCheckpoint, SaveBody, Put, With
<1>2. /\ p.id \in 1 .. lastId /\ p.parent \in Nat /\ p.parent < p.id
      /\ p.parent \in {0} \cup DOMAIN saved \cup PutIds /\ p.upd \subseteq Channels
  BY DEF PutsInv, GoodPut
<1>3. /\ PutIds \subseteq PutIds' \cup {p.id} /\ PutIds' \subseteq PutIds
      /\ DOMAIN saved \subseteq DOMAIN saved' /\ p.id \in PutIds
  BY <1>1 DEF PutIds
<1>4. p.parent \in {0} \cup DOMAIN saved
  <2> SUFFICES ASSUME NEW q \in puts, p.parent = q.id PROVE FALSE
    BY <1>2 DEF PutIds
  <2>1. q.id \in Nat /\ p.id \in Nat /\ p.id <= q.id
    BY <1>1 DEF PutsInv, GoodPut
  <2> QED BY <1>2, <2>1
<1>5. TypeOK' /\ OffInv'
  BY <1>1, <1>2 DEF TypeOK, OffInv, InHand, process
<1>6. HistorySaved'
  BY <1>1, <1>4 DEF HistorySaved
<1>7. PutsInv'
  <2>1. \A q \in puts' : GoodPut(q, DOMAIN saved' \cup PutIds', lastId')
    BY <1>1, <1>3 DEF PutsInv, GoodPut
  <2>2. \A id \in DOMAIN saved' : saved'[id].upd \subseteq Channels
    BY <1>1, <1>2 DEF PutsInv
  <2> QED BY <1>1, <2>1, <2>2 DEF PutsInv
<1>8. HeadInv' /\ ExitInv'
  BY <1>1, <1>3 DEF HeadInv, ExitInv, InHand, process
<1>9. WritesInv' /\ CompletedInv'
  BY <1>1 DEF WritesInv, CompletedInv, CompletedAt, InHand, process
<1> QED BY <1>5, <1>6, <1>7, <1>8, <1>9

\* Writes arrive: a node that has completed by then had completed before.
LEMMA SaveWritesKeeps ==
  ASSUME LoopInv, NEW w \in wputs, SaveWrites(w) PROVE LoopInv'
<1> USE DEF LoopInv
<1> DEFINE key == <<w.id, w.node>>
<1>1. /\ wputs' = wputs \ {w} /\ PutWrites(key, w.writes)
      /\ UNCHANGED <<process, puts, saved, lastId>>
  BY DEF SaveWrites
<1>2. w.id \in 0 .. lastId /\ w.node \in Nodes /\ w.writes # {}
  BY DEF WritesInv
<1>3. /\ DOMAIN pwrites' = DOMAIN pwrites \cup {key}
      /\ \A other \in DOMAIN pwrites \ {key} : pwrites'[other] = pwrites[other]
      /\ pwrites'[key] # {}
      /\ Error \notin Chans(pwrites'[key]) =>
            \/ Error \notin Chans(w.writes)
            \/ key \in DOMAIN pwrites /\ Error \notin Chans(pwrites[key])
  BY <1>1, <1>2, PutWritesKeeps DEF WritesInv
<1>4. TypeOK' /\ HistorySaved' /\ PutsInv' /\ HeadInv' /\ ExitInv'
  BY <1>1 DEF TypeOK, HistorySaved, PutsInv, PutIds, HeadInv, ExitInv, InHand, process
<1>5. OffInv'
  BY <1>1 DEF OffInv, InHand, process
<1>6. WritesInv'
  BY <1>1, <1>2, <1>3 DEF WritesInv, process
<1>7. CompletedInv'
  <2> SUFFICES ASSUME InHand, NEW n \in Nodes, CompletedAt(n)'
               PROVE  CompletedAt(n)
    BY <1>1 DEF CompletedInv, InHand, process
  <2>1. CASE \E v \in wputs' : v.id = cp'.id /\ v.node = n /\ Error \notin Chans(v.writes)
    BY <1>1, <2>1 DEF CompletedAt, process
  <2>2. CASE /\ <<cp'.id, n>> \in DOMAIN pwrites'
             /\ Error \notin Chans(pwrites'[<<cp'.id, n>>])
    <3>1. CASE <<cp.id, n>> = key
      BY <1>1, <1>3, <2>2, <3>1 DEF CompletedAt, process
    <3>2. CASE <<cp.id, n>> # key
      BY <1>1, <1>3, <2>2, <3>2 DEF CompletedAt, process
    <3> QED BY <3>1, <3>2
  <2> QED BY <2>1, <2>2 DEF CompletedAt
<1> QED BY <1>4, <1>5, <1>6, <1>7

\* update_state saves its writes, which no process is there to miss.
LEMMA UpdateWritesKeeps ==
  ASSUME LoopInv, NEW n \in Nodes, UpdateWrites(n) PROVE LoopInv'
<1> USE DEF LoopInv, InHand
<1>1. PICK route \in Routes[n] :
        /\ pc = "off" /\ pc' = "update" /\ tasks' = {n}
        /\ writes' = [NoTasks EXCEPT ![n] = Write(route, 0)]
        /\ IF route # {} /\ DOMAIN saved # {} /\ n \in FullScan(NewestState)
           THEN PutWrites(<<NewestId, n>>, Write(route, 0)) ELSE UNCHANGED pwrites
        /\ UNCHANGED <<cp, upd, running, failed, puts, wputs, saved, lastId>>
  BY DEF UpdateWrites, background
<1>2. TypeOK' /\ HistorySaved' /\ OffInv'
  BY <1>1 DEF TypeOK, HistorySaved, OffInv
<1>3. PutsInv' /\ HeadInv' /\ ExitInv' /\ CompletedInv'
  BY <1>1 DEF PutsInv, PutIds, HeadInv, ExitInv, CompletedInv
<1>4. WritesInv'
  <2>1. running = Idle /\ NewestId \in 0 .. lastId
    BY <1>1, NewestIsSaved DEF OffInv, TypeOK, PutsInv
  <2>2. writes' = [m \in Nodes |-> writes'[m]] /\ \A m \in Nodes : running'[m] = 0
    BY <1>1, <2>1 DEF NoTasks, Idle
  <2>3. /\ DOMAIN pwrites' \subseteq DOMAIN pwrites \cup {<<NewestId, n>>}
        /\ \A key \in DOMAIN pwrites' : pwrites'[key] # {}
    <3>1. CASE route # {} /\ PutWrites(<<NewestId, n>>, Write(route, 0))
      <4>1. Write(route, 0) # {}
        BY <3>1 DEF Write
      <4> QED BY <3>1, <4>1, PutWritesKeeps DEF WritesInv
    <3>2. CASE UNCHANGED pwrites
      BY <3>2 DEF WritesInv
    <3> QED BY <1>1, <3>1, <3>2
  <2> QED BY <1>1, <2>1, <2>2, <2>3 DEF WritesInv
<1> QED BY <1>2, <1>3, <1>4

\* update_state saves its checkpoint, under a new id and after the newest one.
LEMMA UpdatePutKeeps == ASSUME LoopInv, UpdatePut PROVE LoopInv'
<1> USE DEF LoopInv, InHand
<1>1. PICK ck, old : Put(Submission(ck, NewestId, old, {})) /\ ck.id = lastId + 1
  BY DEF UpdatePut
<1>2. /\ pc = "update" /\ pc' = "off" /\ lastId' = lastId + 1
      /\ tasks' = {} /\ writes' = NoTasks
      /\ UNCHANGED <<cp, upd, running, failed, puts, wputs, pwrites>>
  BY DEF UpdatePut, background
<1>3. /\ DOMAIN saved' = DOMAIN saved \cup {lastId + 1}
      /\ \A id \in DOMAIN saved' :
            IF id = lastId + 1 THEN saved'[id].parent = NewestId /\ saved'[id].upd = {}
                               ELSE saved'[id] = saved[id]
  <2>1. /\ Submission(ck, NewestId, old, {}).id = lastId + 1
        /\ Submission(ck, NewestId, old, {}).parent = NewestId
        /\ Submission(ck, NewestId, old, {}).upd = {}
    BY <1>1, SubmissionShape
  <2> QED BY <1>1, <2>1 DEF Put, With
<1>4. lastId \in Nat /\ NewestId \in {0} \cup DOMAIN saved
  BY NewestIsSaved DEF PutsInv, TypeOK
<1>5. puts = {} /\ wputs = {} /\ running = Idle
  BY <1>2 DEF OffInv
<1>6. TypeOK' /\ HistorySaved' /\ OffInv'
  BY <1>2, <1>3, <1>4, <1>5 DEF TypeOK, HistorySaved, OffInv
<1>7. PutsInv' /\ HeadInv' /\ ExitInv'
  BY <1>2, <1>3, <1>4, <1>5 DEF PutsInv, HeadInv, ExitInv
<1>8. WritesInv' /\ CompletedInv'
  BY <1>2, <1>4, <1>5 DEF WritesInv, NoTasks, CompletedInv, Idle
<1> QED BY <1>6, <1>7, <1>8

\* The process ends, with its waiting saves done or lost.
LEMMA GoneKeeps ==
  ASSUME LoopInv, Gone, puts' = {}, wputs' = {} PROVE LoopInv'
<1> USE DEF LoopInv, InHand
<1>1. /\ pc' = "off" /\ tasks' = {} /\ writes' = NoTasks /\ running' = Idle /\ failed' = {}
      /\ UNCHANGED <<cp, upd, saved, pwrites, lastId>>
  BY DEF Gone, store
<1>2. TypeOK' /\ HistorySaved' /\ OffInv'
  BY <1>1, LoopAssumption DEF TypeOK, HistorySaved, OffInv, Idle
<1>3. PutsInv' /\ HeadInv' /\ ExitInv' /\ WritesInv' /\ CompletedInv'
  BY <1>1 DEF PutsInv, HeadInv, ExitInv, WritesInv, NoTasks, CompletedInv
<1> QED BY <1>2, <1>3

-----------------------------------------------------------------------------
(* The inductive invariant                                                 *)

LEMMA InitHolds == Init => LoopInv
<1> SUFFICES ASSUME Init PROVE LoopInv
  OBVIOUS
<1> USE DEF Init, InHand
<1>1. DOMAIN saved = {} /\ DOMAIN pwrites = {} /\ puts = {} /\ wputs = {}
  OBVIOUS
<1>2. TypeOK
  BY <1>1, LoopAssumption DEF TypeOK, Idle
<1>3. HistorySaved /\ OffInv /\ PutsInv /\ HeadInv /\ ExitInv /\ CompletedInv
  BY <1>1 DEF HistorySaved, OffInv, PutsInv, HeadInv, ExitInv, CompletedInv
<1>4. WritesInv
  BY <1>1 DEF WritesInv, NoTasks
<1> QED BY <1>2, <1>3, <1>4 DEF LoopInv

\* One step per action of the loop, of the tasks, of the saver and of the world.
LEMMA LoopInductive == LoopInv /\ [Next]_vars => LoopInv'
<1> SUFFICES ASSUME LoopInv, [Next]_vars PROVE LoopInv'
  OBVIOUS
<1> USE DEF store, background, ghosts
<1>1. CASE InvokeWithInput
  BY <1>1, InvokeKeeps
<1>2. CASE Resume
  BY <1>2, ResumeKeeps
<1>3. CASE OutOfSteps
  BY <1>3, MoveOnKeeps DEF OutOfSteps, Leave, WayOut
<1>4. CASE Done
  BY <1>4, MoveOnKeeps DEF Done, Leave, WayOut
<1>5. CASE StopBefore
  BY <1>5, MoveOnKeeps DEF StopBefore, Leave, WayOut
<1>6. CASE Tick
  <2>1. Due \in SUBSET Nodes
    BY TasksAreNodes DEF Due
  <2> QED BY <1>6, <2>1, MoveOnKeeps DEF Tick, LoopInv, HeadInv
<1>7. CASE Panic
  <2>1. tasks \in SUBSET Nodes
    BY DEF LoopInv, TypeOK
  <2> QED BY <1>7, <2>1, MoveOnKeeps DEF Panic, Leave, WayOut
<1>8. CASE RefuseWrites
  BY <1>8, RefuseKeeps
<1>9. CASE AfterTick
  BY <1>9, AfterTickKeeps
<1>10. CASE AwaitSave
  <2>1. tasks \in SUBSET Nodes /\ PutIds = {}
    BY <1>10 DEF LoopInv, TypeOK, AwaitSave, PutIds
  <2>2. Durability = "sync" => cp.id \in DOMAIN saved
    BY <1>10, <2>1 DEF LoopInv, HeadInv, InHand, AwaitSave
  <2> QED BY <1>10, <2>1, <2>2, MoveOnKeeps DEF AwaitSave
<1>11. CASE LeaveBlock
  BY <1>11, LeaveBlockKeeps
<1>12. CASE Return
  BY <1>12, GoneKeeps DEF Return
<1>13. CASE Crash
  BY <1>13, GoneKeeps DEF Crash
<1>14. CASE UpdatePut
  BY <1>14, UpdatePutKeeps
<1>15. ASSUME NEW n \in Nodes, UpdateWrites(n) PROVE LoopInv'
  BY <1>15, UpdateWritesKeeps
<1>16. ASSUME NEW n \in Nodes, StartTask(n) PROVE LoopInv'
  <2>1. ~CompletedAt(n) /\ InHand /\ 1 \in 1 .. MaxAttempts
    BY <1>16, LoopAssumption DEF StartTask, LoopInv, CompletedInv, InHand
  <2> QED BY <1>16, <2>1, AttemptKeeps DEF StartTask
<1>17. ASSUME NEW n \in Nodes, RetryTask(n) PROVE LoopInv'
  <2>1. running[n] > 0 /\ running[n] + 1 \in 1 .. MaxAttempts
    BY <1>17, LoopAssumption DEF RetryTask, LoopInv, TypeOK
  <2>2. InHand /\ ~CompletedAt(n)
    BY <2>1 DEF LoopInv, OffInv, Idle, CompletedInv
  <2> QED BY <1>17, <2>1, <2>2, AttemptKeeps DEF RetryTask
<1>18. ASSUME NEW n \in Nodes, FinishTask(n) PROVE LoopInv'
  <2>1. PICK route \in Routes[n] : Commit(n, Committed(writes[n] \cup Write(route, tries[n])))
    BY <1>18 DEF FinishTask
  <2>2. Committed(writes[n] \cup Write(route, tries[n])) # {}
    BY DEF Committed, Write
  <2>3. failed' \in SUBSET Nodes
    BY <1>18 DEF FinishTask, LoopInv, TypeOK
  <2> QED BY <1>18, <2>1, <2>2, <2>3, CommitKeeps DEF FinishTask
<1>19. ASSUME NEW n \in Nodes, FailTask(n) PROVE LoopInv'
  <2>1. PICK part \in Partials[n] : Commit(n, writes[n] \cup Write(part \cup {Error}, tries[n]))
    BY <1>19 DEF FailTask
  <2>2. writes[n] \cup Write(part \cup {Error}, tries[n]) # {}
    BY DEF Write
  <2>3. failed' \in SUBSET Nodes
    BY <1>19 DEF FailTask, LoopInv, TypeOK
  <2> QED BY <1>19, <2>1, <2>2, <2>3, CommitKeeps DEF FailTask
<1>20. ASSUME NEW p \in puts, SaveCheckpoint(p) PROVE LoopInv'
  BY <1>20, SaveCheckpointKeeps
<1>21. ASSUME NEW w \in wputs, SaveWrites(w) PROVE LoopInv'
  BY <1>21, SaveWritesKeeps
<1>22. CASE UNCHANGED vars
  BY <1>22 DEF vars, process, LoopInv, TypeOK, HistorySaved, OffInv, PutsInv, PutIds,
               HeadInv, ExitInv, InHand, WritesInv, CompletedInv, CompletedAt
<1> QED
  BY <1>1, <1>2, <1>3, <1>4, <1>5, <1>6, <1>7, <1>8, <1>9, <1>10, <1>11, <1>12,
     <1>13, <1>14, <1>15, <1>16, <1>17, <1>18, <1>19, <1>20, <1>21, <1>22
     DEF Next, Loop, Task

LEMMA InvHolds == Spec => []LoopInv
BY InitHolds, LoopInductive, PTL DEF Spec

-----------------------------------------------------------------------------
(* The theorems                                                            *)

\* The shape of the loop's and the saver's state; in particular no task is ever
\* attempted more often than its retry policy allows.
THEOREM TypeCorrect == Spec => []TypeOK
<1>1. LoopInv => TypeOK
  BY DEF LoopInv
<1> QED BY <1>1, InvHolds, PTL

\* _checkpointer_put_after_previous: whatever a crash takes away, a checkpoint
\* in the saver has its parent there.
THEOREM HistoryIsSaved == Spec => []HistorySaved
<1>1. LoopInv => HistorySaved
  BY DEF LoopInv
<1> QED BY <1>1, InvHolds, PTL

\* With durability "sync", no task runs from a superstep's checkpoint that a
\* crash could still take away.
THEOREM SyncIsDurable == Spec => []SyncLoopDurable
<1>1. LoopInv => SyncLoopDurable
  BY DEF LoopInv, HeadInv, SyncLoopDurable
<1> QED BY <1>1, InvHolds, PTL

\* Only a thread that takes up a task makes its first attempt.
LEMMA StartsByStartTask ==
  ASSUME LoopInv, [Next]_vars, NEW n \in Nodes, running[n] = 0, running'[n] = 1
  PROVE  StartTask(n)
<1>1. running \in [Nodes -> Nat]
  BY LoopAssumption DEF LoopInv, TypeOK
<1>2. CASE \E m \in Nodes : StartTask(m)
  <2>1. PICK m \in Nodes : StartTask(m)
    BY <1>2
  <2>2. m = n
    BY <1>1, <2>1 DEF StartTask, Attempt
  <2> QED BY <2>1, <2>2
<1>3. CASE \E m \in Nodes : RetryTask(m)
  BY <1>1, <1>3 DEF RetryTask, Attempt
<1>4. CASE \E m \in Nodes : FinishTask(m) \/ FailTask(m)
  <2>1. PICK m \in Nodes : running' = [running EXCEPT ![m] = 0]
    BY <1>4 DEF FinishTask, FailTask, Commit
  <2> QED BY <1>1, <2>1
<1>5. CASE InvokeWithInput \/ Resume \/ Return \/ Crash
  BY <1>5 DEF InvokeWithInput, Resume, Begin, Return, Crash, Gone, Idle
<1>6. CASE UNCHANGED running
  BY <1>6
<1>7. Next => \/ \E m \in Nodes : StartTask(m) \/ RetryTask(m) \/ FinishTask(m) \/ FailTask(m)
              \/ InvokeWithInput \/ Resume \/ Return \/ Crash
              \/ UNCHANGED running
  BY DEF Next, Loop, Task, OutOfSteps, Done, StopBefore, Tick, Panic, RefuseWrites,
         Leave, AfterTick, AwaitSave, LeaveBlock, UpdateWrites, UpdatePut,
         SaveCheckpoint, SaveWrites, SaveBody, process
<1>8. UNCHANGED vars => UNCHANGED running
  BY DEF vars, process
<1> QED BY <1>2, <1>3, <1>4, <1>5, <1>6, <1>7, <1>8

\* No thread ever takes up a node whose completion at this checkpoint is saved
\* or on its way: not in the same invocation, and not after any number of
\* failures, crashes and resumes.
THEOREM SuccessfulNodesAreNotRerun == Spec => NoSuccessfulRerun
<1> DEFINE Fresh(n) == (running[n] = 0 /\ running'[n] = 1) => ~CompletedAt(n)
<1>1. ASSUME LoopInv, [Next]_vars, NEW n \in Nodes, running[n] = 0, running'[n] = 1
      PROVE  ~CompletedAt(n)
  <2>1. StartTask(n)
    BY <1>1, StartsByStartTask
  <2> QED BY <1>1, <2>1 DEF StartTask, LoopInv, CompletedInv, InHand
<1>2. LoopInv /\ [Next]_vars => [\A n \in Nodes : Fresh(n)]_vars
  BY <1>1
<1> QED BY <1>2, InvHolds, PTL DEF Spec, NoSuccessfulRerun

-----------------------------------------------------------------------------
(* What the saver gives back, for every graph: a checkpoint rebuilt from the *)
(* blobs of many saves is the one that was taken, the pending writes kept    *)
(* with it are of nodes due there, and the list of updated channels kept with*)
(* it never hides a node that is due.                                        *)

\* A thread that is given one input, and whose saves are waited for.
OneSyncInput ==
    /\ Durability = "sync" /\ MaxInputs <= 1 /\ MaxUpdates = 0
    /\ Kind[InputChannel] # "barrier"

\* The graphs and settings the theorems are about: those where no save can be
\* changed between the moment it is taken and the moment it is written. A barrier
\* hands the saver its live set (Aliased), and with durability "exit" a refused
\* update of a LastValue leaves a half applied step to be saved (RefuseWrites).
SavesAreOwn ==
    \/ Durability = "exit" /\ \A c \in Channels : Kind[c] # "last"
    \/ Durability # "exit" /\ \A c \in Channels : Kind[c] # "barrier"
    \/ OneSyncInput

\* The checkpoint in hand is one that was taken, not the ruins of a refused step.
Current == pc \in {"tick", "run", "wait", "leave"}

-----------------------------------------------------------------------------
(* The inductive invariant                                                 *)

IsState(k) == k = [ver |-> k.ver, seen |-> k.seen, seenI |-> k.seenI, val |-> k.val]

IsSave(p) ==
    /\ p = [id |-> p.id, parent |-> p.parent, step |-> p.step, src |-> p.src,
            upd |-> p.upd, state |-> p.state, new |-> p.new, alias |-> p.alias]
    /\ IsState(p.state)

\* A state of checkpoint "id": no version is newer than the checkpoint, and a
\* channel without a version is empty.
GoodState(k, id) ==
    /\ k.ver \in [Channels -> 0 .. id]
    /\ k.seen \in [Nodes -> [Channels -> Nat]]
    /\ k.val = [c \in Channels |-> k.val[c]]
    /\ \A c \in Channels : k.ver[c] = 0 => k.val[c] = {}

\* State "k" came after state "j": versions never go back, and a channel that
\* kept its version kept its value.
Follows(j, k) ==
    \A c \in Channels : /\ j.ver[c] <= k.ver[c]
                        /\ j.ver[c] = k.ver[c] => j.val[c] = k.val[c]

StatesInv ==
    /\ \A id \in DOMAIN saved : GoodState(SavedState(id), id)
    /\ \A p \in puts : IsSave(p) /\ GoodState(p.state, p.id)
    /\ Current => IsState(cp.state) /\ GoodState(cp.state, cp.id)

\* The history of a thread is a line: the states saved, on their way and in hand
\* follow one another in the order of their ids.
LineInv ==
    /\ \A i, j \in DOMAIN saved : i < j => Follows(SavedState(i), SavedState(j))
    /\ \A i \in DOMAIN saved, p \in puts : i < p.id /\ Follows(SavedState(i), p.state)
    /\ \A p, q \in puts : /\ p.id < q.id => Follows(p.state, q.state)
                          /\ p.id = q.id => p = q
    /\ Current =>
         /\ \A i \in DOMAIN saved : i <= cp.id /\ Follows(SavedState(i), cp.state)
         /\ \A p \in puts : p.id <= cp.id /\ Follows(p.state, cp.state)
         /\ cp.id \in DOMAIN saved => cp.state.ver = saved[cp.id].ver
         /\ \A p \in puts : p.id = cp.id => p.state.ver = cp.state.ver

\* A save brings the values of every channel whose version its parent has not.
BlobsInv ==
    /\ \A c \in Channels : <<c, 0>> \notin DOMAIN blobs
    /\ \A p \in puts :
         /\ p.new \subseteq Channels
         /\ \A c \in p.new : p.state.ver[c] > 0
         /\ \A c \in Channels \ p.new :
              /\ p.parent = 0 => p.state.ver[c] = 0
              /\ p.parent \in DOMAIN saved => p.state.ver[c] = saved[p.parent].ver[c]
              /\ \A q \in puts : q.id = p.parent => p.state.ver[c] = q.state.ver[c]

\* What was noted when a checkpoint was taken is what it is now.
TakenInv ==
    /\ DOMAIN taken \subseteq 1 .. lastId
    /\ \A id \in DOMAIN saved : id \in DOMAIN taken /\ taken[id] = Snapshot(SavedState(id))
    /\ \A p \in puts : p.id \in DOMAIN taken /\ taken[p.id] = Snapshot(p.state)
    /\ Current => cp.id \in DOMAIN taken /\ taken[cp.id] = Snapshot(cp.state)

\* While tasks run, no save that waits shares a set with a channel.
ShareInv ==
    /\ (\A c \in Channels : Kind[c] # "barrier") => \A p \in puts : p.alias = {}
    /\ OneSyncInput =>
         /\ pc \in {"tick", "run"} => \A p \in puts : p.alias = {}
         /\ pc # "update" /\ budget.updates <= 0 /\ budget.inputs <= 1
         /\ budget.inputs > 0 => lastId = 0
    /\ budget \in [inputs : Int, resumes : Int, updates : Int, failures : Int, crashes : Int]

SnapshotInv == LoopInv /\ StatesInv /\ LineInv /\ BlobsInv /\ TakenInv /\ ShareInv

\* A list of updated channels, unless empty, names a trigger of every due node.
Listed(k, u) == u # {} => \A n \in FullScan(k) : Triggers[n] \cap u # {}

ListedInv ==
    /\ \A id \in DOMAIN saved : Listed(SavedState(id), saved[id].upd)
    /\ \A p \in puts : Listed(p.state, p.upd)
    /\ Current => Listed(cp.state, upd)
    /\ pc = "run" => tasks = FullScan(cp.state)

\* Writes, saved or not, are of nodes that were due at their checkpoint.
DueAt(id, n) == id \in DOMAIN taken /\ n \in taken[id].due

PendingInv ==
    /\ \A key \in DOMAIN pwrites : DueAt(key[1], key[2])
    /\ \A w \in wputs : DueAt(w.id, w.node)
    /\ InHand => \A n \in Nodes : running[n] > 0 \/ writes[n] # {} => DueAt(cp.id, n)

ResumeInv == SnapshotInv /\ ListedInv /\ PendingInv

-----------------------------------------------------------------------------
(* Facts about the operators                                               *)

\* The newest version of the channels is one of theirs, and none is newer.
LEMMA MaxVersionOf ==
  ASSUME NEW n \in Nat, NEW ver \in [Channels -> 0 .. n]
  PROVE  MaxVersion(ver) \in 0 .. n /\ \A c \in Channels : ver[c] <= MaxVersion(ver)
<1> DEFINE S == {ver[c] : c \in Channels}
           T == {x + 1 : x \in S}
<1>1. S \subseteq 0 .. n /\ S # {} /\ \A c \in Channels : ver[c] \in S
  BY GraphAssumption
<1> HIDE DEF S
<1>2. T \subseteq 1 .. (n + 1)
  <2>1. \A x \in S : x \in 0 .. n
    BY <1>1
  <2>2. \A x \in 0 .. n : x + 1 \in 1 .. (n + 1)
    OBVIOUS
  <2> QED BY <2>1, <2>2
<1>3. T # {}
  BY <1>1
<1>4. Max(T) \in T /\ \A y \in T : Max(T) >= y
  <2> HIDE DEF T
  <2>1. n + 1 \in Nat /\ T \in SUBSET (1 .. (n + 1))
    BY <1>2
  <2> QED BY <1>3, <2>1, MaxOfIds
<1>5. PICK x \in S : Max(T) = x + 1
  BY <1>4
<1>6. ASSUME NEW y \in S PROVE x >= y
  <2>1. y + 1 \in T /\ x \in 0 .. n /\ y \in 0 .. n
    BY <1>1
  <2> HIDE DEF T
  <2>2. x + 1 >= y + 1
    BY <1>4, <1>5, <2>1
  <2> QED BY <2>1, <2>2
<1>7. Max(S) \in S /\ \A y \in S : Max(S) >= y
  BY <1>6 DEF Max
<1>8. Max(S) \in 0 .. n /\ \A c \in Channels : ver[c] <= Max(S)
  BY <1>1, <1>7
<1> QED BY <1>8 DEF MaxVersion, S

\* Coming after is transitive.
LEMMA FollowsTrans ==
  ASSUME NEW h, NEW j, NEW k, NEW l \in Nat, NEW m \in Nat, NEW n \in Nat,
         GoodState(h, l), GoodState(j, m), GoodState(k, n),
         Follows(h, j), Follows(j, k)
  PROVE  Follows(h, k)
<1> SUFFICES ASSUME NEW c \in Channels
             PROVE  h.ver[c] <= k.ver[c] /\ (h.ver[c] = k.ver[c] => h.val[c] = k.val[c])
  BY DEF Follows
<1>1. h.ver[c] \in Nat /\ j.ver[c] \in Nat /\ k.ver[c] \in Nat
  BY DEF GoodState
<1>2. /\ h.ver[c] <= j.ver[c] /\ (h.ver[c] = j.ver[c] => h.val[c] = j.val[c])
      /\ j.ver[c] <= k.ver[c] /\ (j.ver[c] = k.ver[c] => j.val[c] = k.val[c])
  BY DEF Follows
<1> QED BY <1>1, <1>2

\* A superstep leaves a state that comes after the one it started from.
LEMMA ApplyFollows ==
  ASSUME NEW id \in Nat, NEW m \in Nat, id < m, NEW k, GoodState(k, id),
         NEW ts, NEW received
  PROVE  /\ IsState(Apply(k, ts, received))
         /\ GoodState(Apply(k, ts, received), m)
         /\ Follows(k, Apply(k, ts, received))
<1> DEFINE val == Settled(k, ts, received)
           moved == Moved(k, ts, received, val)
           new == Apply(k, ts, received)
<1>1. /\ new.ver = [c \in Channels |-> IF c \in moved THEN MaxVersion(k.ver) + 1 ELSE k.ver[c]]
      /\ new.seen = SeenBy(k, ts)
      /\ new.val = val
      /\ IsState(new)
  BY DEF Apply, NewState, IsState
<1>2. MaxVersion(k.ver) \in 0 .. id /\ \A c \in Channels : k.ver[c] <= MaxVersion(k.ver)
  BY MaxVersionOf DEF GoodState
<1>3. val = [c \in Channels |-> val[c]]
  BY DEF Settled
<1>4. \A c \in Channels : val[c] # k.val[c] => c \in moved
  BY DEF Moved
<1>5. new.seen \in [Nodes -> [Channels -> Nat]]
  BY <1>1 DEF SeenBy, GoodState
<1> HIDE DEF val, moved, new
<1>6. \A c \in Channels : k.ver[c] \in 0 .. id
  BY DEF GoodState
<1>7. new.ver \in [Channels -> 0 .. m]
  BY <1>1, <1>2, <1>6
<1>8. \A c \in Channels : /\ k.ver[c] <= new.ver[c]
                          /\ k.ver[c] = new.ver[c] => c \notin moved
                          /\ new.ver[c] = 0 => k.ver[c] = 0 /\ c \notin moved
  BY <1>1, <1>2, <1>6
<1>9. Follows(k, new)
  BY <1>1, <1>4, <1>8 DEF Follows
<1>10. GoodState(new, m)
  BY <1>1, <1>3, <1>4, <1>5, <1>7, <1>8 DEF GoodState
<1> QED BY <1>1, <1>9, <1>10 DEF new

\* The empty checkpoint.
LEMMA EmptyIsGood ==
  ASSUME NEW n \in Nat
  PROVE  GoodState(EmptyState, n) /\ EmptyState.ver = Unwritten /\ FullScan(EmptyState) = {}
<1>1. /\ EmptyState.ver = Unwritten /\ EmptyState.seen = [m \in Nodes |-> Unwritten]
      /\ EmptyState.val = [c \in Channels |-> {}]
  BY DEF EmptyState
<1>2. FullScan(EmptyState) = {}
  <2> SUFFICES ASSUME NEW m \in Nodes, NEW c \in Triggers[m],
                      EmptyState.ver[c] > EmptyState.seen[m][c]
               PROVE  FALSE
    BY DEF FullScan, Triggered
  <2>1. c \in Channels
    BY GraphAssumption
  <2> QED BY <1>1, <2>1 DEF Unwritten
<1> QED BY <1>1, <1>2 DEF GoodState, Unwritten

\* Which nodes are due depends on the values, their versions and what was seen.
LEMMA ScanDepends ==
  ASSUME NEW j, NEW k, j.ver = k.ver, j.seen = k.seen, j.val = k.val
  PROVE  Snapshot(j) = Snapshot(k) /\ FullScan(j) = FullScan(k)
BY DEF Snapshot, FullScan, Triggered

\* A save without barriers does not follow the channels.
LEMMA NotAliased ==
  ASSUME NEW p, NEW n, IsSave(p), GoodState(p.state, n), p.alias = {}, NEW k, NEW consumed
  PROVE  Aliased(p, k, consumed) = p
<1> DEFINE st == [ver |-> p.state.ver, seen |-> p.state.seen, seenI |-> p.state.seenI,
                  val |-> p.state.val]
           r == [id |-> p.id, parent |-> p.parent, step |-> p.step, src |-> p.src,
                 upd |-> p.upd, state |-> st, new |-> p.new, alias |-> p.alias]
<1>1. p = r
  BY DEF IsSave, IsState
<1>2. r.alias = {} /\ r.state.val = [c \in Channels |-> r.state.val[c]]
  BY DEF GoodState
<1>3. Aliased(r, k, consumed) = r
  <2>1. r.alias \ consumed = r.alias
    BY <1>2
  <2>2. [c \in Channels |-> IF c \in r.alias \ consumed THEN k.val[c] ELSE r.state.val[c]]
          = r.state.val
    BY <1>2
  <2>3. Aliased(r, k, consumed) = [r EXCEPT !.alias = r.alias, !.state.val = r.state.val]
    BY <2>1, <2>2 DEF Aliased
  <2>4. [r EXCEPT !.alias = r.alias, !.state.val = r.state.val]
          = [r EXCEPT !.state = [st EXCEPT !.val = st.val]]
    OBVIOUS
  <2>5. [st EXCEPT !.val = st.val] = st
    OBVIOUS
  <2>6. [r EXCEPT !.state = st] = r
    OBVIOUS
  <2> QED BY <2>3, <2>4, <2>5, <2>6
<1> QED BY <1>1, <1>3

\* A superstep that runs every node due makes a node due only by a channel that it
\* wrote to, and changed, and that holds a value now.
LEMMA DueByStep ==
  ASSUME NEW id \in Nat, NEW k, GoodState(k, id), NEW received
  PROVE  \A n \in FullScan(Apply(k, FullScan(k), received)) : \E c \in Triggers[n] :
            /\ received[c] # {} /\ c \in Changed(k, FullScan(k), received)
            /\ Available(Settled(k, FullScan(k), received), c)
<1> DEFINE ts == FullScan(k)
           val == Settled(k, ts, received)
           moved == Moved(k, ts, received, val)
           new == Apply(k, ts, received)
<1> SUFFICES ASSUME NEW n \in FullScan(new)
             PROVE  \E c \in Triggers[n] : /\ received[c] # {} /\ c \in Changed(k, ts, received)
                                           /\ Available(val, c)
  OBVIOUS
<1>1. PICK c \in Triggers[n] : Available(new.val, c) /\ new.ver[c] > new.seen[n][c]
  BY DEF FullScan, Triggered
<1>2. n \in Nodes /\ c \in Channels
  BY GraphAssumption DEF FullScan
<1>3. /\ new.val = val /\ new.seen[n][c] = IF n \in ts /\ k.ver[c] > 0 THEN k.ver[c] ELSE k.seen[n][c]
      /\ new.ver[c] = IF c \in moved THEN MaxVersion(k.ver) + 1 ELSE k.ver[c]
  BY <1>2, <1>1 DEF Apply, NewState, SeenBy
<1>4. k.ver[c] \in Nat /\ k.seen[n][c] \in Nat
  BY <1>2 DEF GoodState
<1>5. c \in moved
  <2> SUFFICES ASSUME c \notin moved PROVE FALSE
    OBVIOUS
  <2>1. val[c] = k.val[c] /\ new.ver[c] = k.ver[c]
    BY <1>2, <1>3 DEF Moved
  <2>2. Available(k.val, c)
    BY <1>1, <1>3, <2>1 DEF Available
  <2>3. CASE n \in ts
    BY <1>1, <1>3, <1>4, <2>1, <2>3
  <2>4. CASE n \notin ts
    BY <1>1, <1>2, <1>3, <2>1, <2>2, <2>4 DEF FullScan, Triggered
  <2> QED BY <2>3, <2>4
<1>6. received[c] # {}
  <2> SUFFICES ASSUME received[c] = {} PROVE FALSE
    OBVIOUS
  <2>1. \/ val[c] = {}
        \/ val[c] = k.val[c] /\ c \notin Consumed(k, ts)
    BY <1>2 DEF Settled, Written
  <2>2. val[c] # {}
    <3>1. CASE Kind[c] = "barrier"
      BY <1>1, <1>2, <1>3, <3>1, GraphAssumption DEF Available, Writers
    <3>2. CASE Kind[c] # "barrier"
      BY <1>1, <1>3, <3>2 DEF Available
    <3> QED BY <3>1, <3>2
  <2> QED BY <1>2, <1>5, <2>1, <2>2 DEF Moved
<1>7. Available(val, c)
  BY <1>1, <1>3
<1> QED BY <1>5, <1>6, <1>7 DEF Changed

\* The list of channels a superstep updated names a trigger of every node that is
\* due after it, provided every node that was due before it was run.
LEMMA ListedAfterStep ==
  ASSUME NEW id \in Nat, NEW k, GoodState(k, id), NEW received
  PROVE  \A n \in FullScan(Apply(k, FullScan(k), received)) :
            Triggers[n] \cap UpdatedChannels(k, FullScan(k), received) # {}
<1> SUFFICES ASSUME NEW n \in FullScan(Apply(k, FullScan(k), received))
             PROVE  Triggers[n] \cap UpdatedChannels(k, FullScan(k), received) # {}
  OBVIOUS
<1>1. n \in Nodes
  BY DEF FullScan
<1>2. PICK c \in Triggers[n] : /\ received[c] # {} /\ c \in Changed(k, FullScan(k), received)
                              /\ Available(Settled(k, FullScan(k), received), c)
  BY DueByStep
<1>3. c \in UpdatedChannels(k, FullScan(k), received)
  BY <1>2 DEF UpdatedChannels
<1> QED BY <1>3

\* A node that is due is looked at, when the list names a trigger of it.
LEMMA ListedIsEnough ==
  ASSUME NEW id \in Nat, NEW k, GoodState(k, id), NEW u, Listed(k, u)
  PROVE  PrepareNextTasks(k, u) = FullScan(k)
<1>1. CASE u # {}
  BY <1>1 DEF Listed, PrepareNextTasks, Candidates, FullScan
<1>2. CASE u = {} /\ k.ver = Unwritten
  <2>1. FullScan(k) = {}
    <3> SUFFICES ASSUME NEW n \in Nodes, NEW c \in Triggers[n], k.ver[c] > k.seen[n][c]
                 PROVE  FALSE
      BY DEF FullScan, Triggered
    <3>1. c \in Channels
      BY GraphAssumption
    <3> QED BY <1>2, <3>1 DEF Unwritten, GoodState
  <2> QED BY <1>2, <2>1 DEF PrepareNextTasks, Candidates
<1>3. CASE u = {} /\ k.ver # Unwritten
  BY <1>3 DEF PrepareNextTasks, Candidates, FullScan
<1> QED BY <1>1, <1>2, <1>3

-----------------------------------------------------------------------------
(* What saving a checkpoint, and taking one, does to the invariant         *)

\* InMemorySaver.put: the checkpoint reads back as it was submitted, the channels
\* whose blobs were not among those it brought included, and no checkpoint that
\* was saved before reads differently.
LEMMA PutSaves ==
  ASSUME SnapshotInv, NEW p, Put(p), p.id \notin DOMAIN saved, p.id \in Nat,
         GoodState(p.state, p.id),
         \A i \in DOMAIN saved : Follows(SavedState(i), p.state),
         p.new \subseteq Channels, \A c \in p.new : p.state.ver[c] > 0,
         p.parent \in {0} \cup DOMAIN saved,
         \A c \in Channels \ p.new :
            /\ p.parent = 0 => p.state.ver[c] = 0
            /\ p.parent \in DOMAIN saved => p.state.ver[c] = saved[p.parent].ver[c]
  PROVE  /\ DOMAIN saved' = DOMAIN saved \cup {p.id}
         /\ \A i \in DOMAIN saved : saved'[i] = saved[i] /\ SavedState(i)' = SavedState(i)
         /\ saved'[p.id].upd = p.upd /\ saved'[p.id].ver = p.state.ver
         /\ SavedState(p.id)'.ver = p.state.ver /\ SavedState(p.id)'.seen = p.state.seen
         /\ SavedState(p.id)'.val = p.state.val
         /\ \A c \in Channels : <<c, 0>> \notin DOMAIN blobs'
<1> DEFINE keys == {<<c, p.state.ver[c]>> : c \in p.new}
<1>1. /\ blobs' = [key \in DOMAIN blobs \cup keys |->
                     IF key \in keys THEN p.state.val[key[1]] ELSE blobs[key]]
      /\ DOMAIN saved' = DOMAIN saved \cup {p.id}
      /\ \A i \in DOMAIN saved : saved'[i] = saved[i]
      /\ saved'[p.id].ver = p.state.ver /\ saved'[p.id].seen = p.state.seen
      /\ saved'[p.id].upd = p.upd
  BY DEF Put, With
<1>2. \A c, v : <<c, v>> \in keys <=> c \in p.new /\ v = p.state.ver[c]
  OBVIOUS
<1>3. /\ \A c \in Channels : p.state.ver[c] \in Nat /\ (p.state.ver[c] = 0 => p.state.val[c] = {})
      /\ p.state.val = [c \in Channels |-> p.state.val[c]]
  BY DEF GoodState
<1> HIDE DEF keys
<1>4. \A c, v : <<c, v>> \in keys => <<c, v>> \in DOMAIN blobs' /\ blobs'[<<c, v>>] = p.state.val[c]
  BY <1>1
<1>5. \A c, v : <<c, v>> \notin keys =>
         /\ <<c, v>> \in DOMAIN blobs' <=> <<c, v>> \in DOMAIN blobs
         /\ <<c, v>> \in DOMAIN blobs => blobs'[<<c, v>>] = blobs[<<c, v>>]
  BY <1>1
<1>6. ASSUME NEW i \in DOMAIN saved, NEW c \in Channels
      PROVE  LoadBlobs(saved[i].ver)'[c] = LoadBlobs(saved[i].ver)[c]
  <2> DEFINE v == saved[i].ver[c]
  <2>1. /\ LoadBlobs(saved[i].ver)[c] = IF <<c, v>> \in DOMAIN blobs THEN blobs[<<c, v>>] ELSE {}
        /\ LoadBlobs(saved[i].ver)'[c] = IF <<c, v>> \in DOMAIN blobs' THEN blobs'[<<c, v>>] ELSE {}
    BY <1>1 DEF LoadBlobs
  <2>2. v = p.state.ver[c] => LoadBlobs(saved[i].ver)[c] = p.state.val[c]
    BY DEF Follows, SavedState
  <2> HIDE DEF v
  <2>3. CASE <<c, v>> \in keys
    BY <1>2, <1>4, <2>1, <2>2, <2>3
  <2>4. CASE <<c, v>> \notin keys
    BY <1>5, <2>1, <2>4
  <2> QED BY <2>3, <2>4
<1>7. ASSUME NEW i \in DOMAIN saved PROVE SavedState(i)' = SavedState(i)
  <2>1. LoadBlobs(saved[i].ver)' = LoadBlobs(saved[i].ver)
    BY <1>6 DEF LoadBlobs
  <2> QED BY <1>1, <2>1 DEF SavedState, LoadBlobs
<1>8. ASSUME NEW c \in Channels PROVE LoadBlobs(p.state.ver)'[c] = p.state.val[c]
  <2> DEFINE v == p.state.ver[c]
  <2>1. LoadBlobs(p.state.ver)'[c] = IF <<c, v>> \in DOMAIN blobs' THEN blobs'[<<c, v>>] ELSE {}
    BY DEF LoadBlobs
  <2>2. CASE c \in p.new
    BY <1>2, <1>4, <2>1, <2>2
  <2>3. CASE c \notin p.new /\ p.parent = 0
    <3>1. v = 0 /\ p.state.val[c] = {} /\ <<c, v>> \notin keys /\ <<c, v>> \notin DOMAIN blobs
      BY <1>2, <1>3, <2>3 DEF SnapshotInv, BlobsInv
    <3> QED BY <1>5, <2>1, <3>1
  <2>4. CASE c \notin p.new /\ p.parent \in DOMAIN saved
    <3>1. v = saved[p.parent].ver[c]
      BY <2>4
    <3>2. LoadBlobs(saved[p.parent].ver)[c] = p.state.val[c]
      BY <2>4, <3>1 DEF Follows, SavedState
    <3>3. LoadBlobs(saved[p.parent].ver)[c] = IF <<c, v>> \in DOMAIN blobs THEN blobs[<<c, v>>] ELSE {}
      BY <3>1 DEF LoadBlobs
    <3>4. <<c, v>> \notin keys
      BY <1>2, <2>4
    <3> HIDE DEF v
    <3> QED BY <1>5, <2>1, <3>2, <3>3, <3>4
  <2> QED BY <2>2, <2>3, <2>4
<1>9. LoadBlobs(p.state.ver)' = p.state.val
  BY <1>3, <1>8 DEF LoadBlobs
<1>10. /\ SavedState(p.id)'.ver = p.state.ver /\ SavedState(p.id)'.seen = p.state.seen
       /\ SavedState(p.id)'.val = p.state.val
  BY <1>1, <1>9 DEF SavedState, LoadBlobs
<1>11. \A c \in Channels : <<c, 0>> \notin DOMAIN blobs'
  <2>1. \A c \in Channels : <<c, 0>> \notin keys
    BY <1>2, <1>3
  <2> QED BY <1>5, <2>1 DEF SnapshotInv, BlobsInv
<1> QED BY <1>1, <1>7, <1>10, <1>11

\* The parts of the invariant that speak of states.
LineParts == StatesInv /\ LineInv /\ BlobsInv /\ TakenInv

\* A checkpoint is taken after a state that everything saved or waiting precedes.
LEMMA CheckpointTaken ==
  ASSUME SnapshotInv, NEW id \in 0 .. lastId, NEW st, NEW old, NEW k, NEW consumed,
         NEW src, NEW u,
         GoodState(old, id), IsState(k), GoodState(k, lastId + 1), Follows(old, k),
         \A i \in DOMAIN saved : Follows(SavedState(i), old),
         \A p \in puts : Follows(p.state, old) /\ p.alias = {},
         id = 0 => old.ver = Unwritten,
         id \in DOMAIN saved => old.ver = saved[id].ver,
         \A p \in puts : p.id = id => p.state.ver = old.ver,
         PutCheckpoint(id, st, old, k, consumed, src, u), UNCHANGED <<saved, blobs>>
  PROVE  /\ LineParts'
         /\ cp'.id = lastId + 1 /\ cp'.state = k /\ upd' = u /\ lastId' = lastId + 1
         /\ \A p \in puts' : \/ p \in puts
                             \/ /\ p.id = lastId + 1 /\ p.parent = id /\ p.state = k /\ p.upd = u
                                /\ p.alias = Barriers(k)
         /\ DOMAIN taken' = DOMAIN taken \cup {lastId + 1}
         /\ \A i \in DOMAIN taken : taken'[i] = taken[i]
         /\ taken'[lastId + 1] = Snapshot(k)
<1> DEFINE ck == [id |-> lastId + 1, step |-> st + 1, src |-> src, state |-> k]
           sub == Submission(ck, id, old, u)
           new == IF Durability = "exit" THEN {} ELSE {sub}
<1> USE DEF SnapshotInv
<1>1. lastId \in Nat /\ DOMAIN saved \subseteq 1 .. lastId
  BY DEF LoopInv, PutsInv, TypeOK
<1>2. \A p \in puts : IsSave(p) /\ GoodState(p.state, p.id) /\ p.id \in 1 .. lastId
                      /\ p.parent \in Nat /\ p.parent < p.id
  BY DEF StatesInv, LoopInv, PutsInv, GoodPut
<1>3. {Aliased(p, k, consumed) : p \in puts} = puts
  <2>1. \A p \in puts : Aliased(p, k, consumed) = p
    BY <1>2, NotAliased
  <2> QED BY <2>1
<1>4. /\ puts' = puts \cup new /\ cp' = ck /\ upd' = u /\ lastId' = lastId + 1
      /\ taken' = With(taken, lastId + 1, Snapshot(k))
  BY <1>3 DEF PutCheckpoint
<1>5. /\ sub.id = lastId + 1 /\ sub.parent = id /\ sub.state = k /\ sub.upd = u
      /\ sub.new = NewVersions(old.ver, k.ver) /\ sub.alias = Barriers(k) /\ IsSave(sub)
  BY DEF Submission, IsSave
<1>6. ck.id = lastId + 1 /\ ck.state = k
  OBVIOUS
<1> HIDE DEF ck, sub
<1>7. lastId + 1 \notin DOMAIN taken /\ lastId + 1 \notin DOMAIN saved
  BY <1>1 DEF TakenInv
<1>8. /\ DOMAIN taken' = DOMAIN taken \cup {lastId + 1}
      /\ \A i \in DOMAIN taken : taken'[i] = taken[i]
      /\ taken'[lastId + 1] = Snapshot(k)
  BY <1>4, <1>7 DEF With
<1>9. \A i : SavedState(i)' = SavedState(i)
  BY DEF SavedState, LoadBlobs
<1>10. \A i \in DOMAIN saved : Follows(SavedState(i), k)
  <2> SUFFICES ASSUME NEW i \in DOMAIN saved PROVE Follows(SavedState(i), k)
    OBVIOUS
  <2>1. i \in Nat /\ id \in Nat /\ lastId + 1 \in Nat /\ GoodState(SavedState(i), i)
    BY <1>1 DEF StatesInv
  <2> QED BY <2>1, FollowsTrans
<1>11. \A p \in puts : Follows(p.state, k)
  <2> SUFFICES ASSUME NEW p \in puts PROVE Follows(p.state, k)
    OBVIOUS
  <2>1. p.id \in Nat /\ id \in Nat /\ lastId + 1 \in Nat /\ GoodState(p.state, p.id)
    BY <1>1, <1>2
  <2> QED BY <2>1, FollowsTrans
<1>12. StatesInv'
  <2>1. \A p \in puts' : IsSave(p) /\ GoodState(p.state, p.id)
    BY <1>2, <1>4, <1>5
  <2> QED BY <1>4, <1>6, <1>9, <2>1 DEF StatesInv
<1>13. LineInv'
  <2>1. \A i, j \in DOMAIN saved' : i < j => Follows(SavedState(i)', SavedState(j)')
    BY <1>9 DEF LineInv
  <2>2. \A i \in DOMAIN saved', p \in puts' : i < p.id /\ Follows(SavedState(i)', p.state)
    BY <1>1, <1>4, <1>5, <1>9, <1>10 DEF LineInv
  <2>3. \A p, q \in puts' : /\ p.id < q.id => Follows(p.state, q.state)
                            /\ p.id = q.id => p = q
    BY <1>1, <1>2, <1>4, <1>5, <1>11 DEF LineInv
  <2>4. Follows(k, k)
    BY DEF Follows, GoodState
  <2>5. /\ \A i \in DOMAIN saved' : i <= cp'.id /\ Follows(SavedState(i)', cp'.state)
        /\ \A p \in puts' : p.id <= cp'.id /\ Follows(p.state, cp'.state)
    BY <1>1, <1>2, <1>4, <1>5, <1>6, <1>9, <1>10, <1>11, <2>4
  <2>6. cp'.id \notin DOMAIN saved' /\ \A p \in puts' : p.id = cp'.id => p.state.ver = cp'.state.ver
    BY <1>1, <1>2, <1>4, <1>5, <1>6, <1>7
  <2> QED BY <2>1, <2>2, <2>3, <2>5, <2>6 DEF LineInv
<1>14. BlobsInv'
  <2>1. \A c \in Channels : k.ver[c] \in Nat /\ old.ver[c] \in Nat /\ old.ver[c] <= k.ver[c]
    BY DEF GoodState, Follows
  <2>2. /\ sub.new \subseteq Channels
        /\ \A c \in sub.new : sub.state.ver[c] > 0
        /\ \A c \in Channels \ sub.new : sub.state.ver[c] = old.ver[c]
    BY <1>5, <2>1 DEF NewVersions
  <2>3. \A c \in Channels \ sub.new :
          /\ sub.parent = 0 => sub.state.ver[c] = 0
          /\ sub.parent \in DOMAIN saved' => sub.state.ver[c] = saved'[sub.parent].ver[c]
          /\ \A q \in puts' : q.id = sub.parent => sub.state.ver[c] = q.state.ver[c]
    BY <1>1, <1>4, <1>5, <2>2 DEF Unwritten
  <2>4. \A p \in puts :
          /\ p.new \subseteq Channels
          /\ \A c \in p.new : p.state.ver[c] > 0
          /\ \A c \in Channels \ p.new :
               /\ p.parent = 0 => p.state.ver[c] = 0
               /\ p.parent \in DOMAIN saved' => p.state.ver[c] = saved'[p.parent].ver[c]
               /\ \A q \in puts' : q.id = p.parent => p.state.ver[c] = q.state.ver[c]
    BY <1>1, <1>2, <1>4, <1>5 DEF BlobsInv
  <2> QED BY <1>4, <2>2, <2>3, <2>4 DEF BlobsInv
<1>15. TakenInv'
  <2>1. DOMAIN taken' \subseteq 1 .. lastId'
    BY <1>1, <1>4, <1>8 DEF TakenInv
  <2>2. \A i \in DOMAIN saved' : i \in DOMAIN taken' /\ taken'[i] = Snapshot(SavedState(i)')
    BY <1>8, <1>9 DEF TakenInv
  <2>3. \A p \in puts' : p.id \in DOMAIN taken' /\ taken'[p.id] = Snapshot(p.state)
    BY <1>4, <1>5, <1>8 DEF TakenInv
  <2> QED BY <1>4, <1>6, <1>8, <2>1, <2>2, <2>3 DEF TakenInv, Snapshot, FullScan, Triggered
<1> QED BY <1>4, <1>5, <1>6, <1>8, <1>12, <1>13, <1>14, <1>15 DEF LineParts

-----------------------------------------------------------------------------
(* The steps                                                               *)

\* The newest checkpoint is a good one that every checkpoint saved precedes.
LEMMA NewestIsGood ==
  ASSUME SnapshotInv
  PROVE  /\ lastId \in Nat /\ NewestId \in 0 .. lastId /\ NewestId \in {0} \cup DOMAIN saved
         /\ IsState(NewestState) /\ GoodState(NewestState, NewestId)
         /\ NewestId \in DOMAIN saved => NewestState = SavedState(NewestId)
         /\ NewestId = 0 => NewestState = EmptyState /\ DOMAIN saved = {}
         /\ \A i \in DOMAIN saved : i <= NewestId /\ Follows(SavedState(i), NewestState)
<1> USE DEF SnapshotInv
<1>1. lastId \in Nat /\ DOMAIN saved \subseteq 1 .. lastId
  BY DEF LoopInv, PutsInv, TypeOK
<1>2. /\ DOMAIN saved # {} => NewestId \in DOMAIN saved
      /\ NewestId \in 0 .. lastId /\ NewestId \in {0} \cup DOMAIN saved
      /\ \A i \in DOMAIN saved : i <= NewestId
  BY <1>1, NewestIsSaved
<1>3. CASE DOMAIN saved = {}
  <2>1. NewestState = EmptyState /\ NewestId = 0
    BY <1>3 DEF NewestState, NewestId
  <2>2. GoodState(EmptyState, 0)
    BY EmptyIsGood
  <2>3. IsState(EmptyState)
    BY DEF IsState, EmptyState
  <2> QED BY <1>1, <1>2, <1>3, <2>1, <2>2, <2>3
<1>4. CASE DOMAIN saved # {}
  <2>1. NewestState = SavedState(NewestId) /\ NewestId \in DOMAIN saved /\ NewestId # 0
    BY <1>1, <1>2, <1>4 DEF NewestState
  <2>2. GoodState(NewestState, NewestId)
    BY <2>1 DEF StatesInv
  <2>3. IsState(NewestState)
    BY <2>1 DEF IsState, SavedState
  <2>4. Follows(NewestState, NewestState)
    BY <2>2 DEF Follows, GoodState
  <2>5. \A i \in DOMAIN saved : Follows(SavedState(i), NewestState)
    <3> SUFFICES ASSUME NEW i \in DOMAIN saved PROVE Follows(SavedState(i), NewestState)
      OBVIOUS
    <3>1. i < NewestId \/ i = NewestId
      BY <1>1, <1>2, <2>1
    <3> QED BY <2>1, <2>4, <3>1 DEF LineInv
  <2> QED BY <1>1, <1>2, <2>1, <2>2, <2>3, <2>5
<1> QED BY <1>3, <1>4

\* The empty checkpoint precedes every other.
LEMMA EmptyPrecedes ==
  ASSUME NEW k, NEW n \in Nat, GoodState(k, n) PROVE Follows(EmptyState, k)
BY DEF Follows, GoodState, EmptyState, Unwritten

\* While tasks run, the saves that wait hold no live set, whatever lets SavesAreOwn
\* hold.
LEMMA NothingShared ==
  ASSUME SavesAreOwn, SnapshotInv, pc = "run"
  PROVE  \A p \in puts : p.alias = {}
BY DEF SavesAreOwn, SnapshotInv, ShareInv, LoopInv, ExitInv, InHand

\* What a step may do to the bounds.
Spent ==
  \/ budget' = budget
  \/ budget' = [budget EXCEPT !.inputs = @ - 1]
  \/ budget' = [budget EXCEPT !.resumes = @ - 1]
  \/ budget' = [budget EXCEPT !.updates = @ - 1]
  \/ budget' = [budget EXCEPT !.failures = @ - 1]
  \/ budget' = [budget EXCEPT !.crashes = @ - 1]

LEMMA SpentKeeps ==
  ASSUME ShareInv, Spent
  PROVE  /\ budget' \in [inputs : Int, resumes : Int, updates : Int,
                          failures : Int, crashes : Int]
         /\ budget.inputs \in Int /\ budget'.inputs \in Int
         /\ OneSyncInput =>
              /\ budget'.updates <= 0 /\ budget'.inputs <= 1
              /\ budget'.inputs > 0 => budget.inputs > 0
<1>1. budget \in [inputs : Int, resumes : Int, updates : Int, failures : Int, crashes : Int]
  BY DEF ShareInv
<1>2. CASE budget' = budget
  BY <1>1, <1>2 DEF ShareInv
<1>3. CASE budget' = [budget EXCEPT !.inputs = @ - 1]
  BY <1>1, <1>3 DEF ShareInv
<1>4. CASE budget' = [budget EXCEPT !.resumes = @ - 1]
  BY <1>1, <1>4 DEF ShareInv
<1>5. CASE budget' = [budget EXCEPT !.updates = @ - 1]
  BY <1>1, <1>5 DEF ShareInv
<1>6. CASE budget' = [budget EXCEPT !.failures = @ - 1]
  BY <1>1, <1>6 DEF ShareInv
<1>7. CASE budget' = [budget EXCEPT !.crashes = @ - 1]
  BY <1>1, <1>7 DEF ShareInv
<1> QED BY <1>2, <1>3, <1>4, <1>5, <1>6, <1>7 DEF Spent

\* A step that takes and saves no checkpoint; it may drop the saves that wait.
LEMMA QuietKeepsLine ==
  ASSUME SnapshotInv, LoopInv', UNCHANGED <<saved, blobs, taken, lastId>>,
         puts' \in SUBSET puts,
         Current' => Current /\ cp' = cp,
         pc' \in {"tick", "run"} => pc \in {"tick", "run"} \/ puts' = {},
         pc' = "update" => pc = "update" \/ ~OneSyncInput,
         Spent
  PROVE  SnapshotInv'
<1> USE DEF SnapshotInv
<1>1. \A i : SavedState(i)' = SavedState(i)
  BY DEF SavedState, LoadBlobs
<1>2. StatesInv'
  BY <1>1 DEF StatesInv
<1>3. LineInv'
  BY <1>1 DEF LineInv
<1>4. BlobsInv'
  BY DEF BlobsInv
<1>5. TakenInv'
  BY <1>1 DEF TakenInv, Snapshot, FullScan, Triggered
<1>6. ShareInv'
  BY SpentKeeps DEF ShareInv
<1> QED BY <1>2, <1>3, <1>4, <1>5, <1>6

\* The first checkpoint of a thread has given a version to its input channel only.
LEMMA FirstInput ==
  \A c \in Channels : Apply(EmptyState, {}, FromInput(0)).ver[c] > 0 => c = InputChannel
<1> DEFINE received == FromInput(0)
           val == Settled(EmptyState, {}, received)
<1> SUFFICES ASSUME NEW c \in Channels, c # InputChannel
             PROVE  ~ (Apply(EmptyState, {}, received).ver[c] > 0)
  OBVIOUS
<1>1. received[c] = {} /\ EmptyState.val[c] = {} /\ EmptyState.ver[c] = 0
  BY DEF FromInput, EmptyState, Unwritten
<1>2. val[c] = {}
  BY <1>1 DEF Settled, Written
<1>3. c \notin Consumed(EmptyState, {})
  BY DEF Consumed, Read
<1>4. c \notin Moved(EmptyState, {}, received, val)
  BY <1>1, <1>2, <1>3 DEF Moved
<1>5. Apply(EmptyState, {}, received).ver[c] = 0
  BY <1>1, <1>4 DEF Apply, NewState
<1> QED BY <1>5

\* A thread's new input.
LEMMA InvokeTakes ==
  ASSUME SavesAreOwn, SnapshotInv, LoopInv', InvokeWithInput
  PROVE  /\ SnapshotInv'
         /\ \A p \in puts' : \/ p \in puts
                             \/ /\ p.id = cp'.id /\ p.parent = NewestId
                                /\ p.state = cp'.state /\ p.upd = upd'
<1> USE DEF SnapshotInv
<1> DEFINE k == Apply(NewestState, FullScan(NewestState), FromInput(NewestId))
           u == UpdatedChannels(NewestState, FullScan(NewestState), FromInput(NewestId))
           gone == Consumed(NewestState, FullScan(NewestState))
<1>1. /\ pc = "off" /\ pc' = "tick" /\ UNCHANGED <<saved, blobs>>
      /\ budget.inputs > 0 /\ budget' = [budget EXCEPT !.inputs = @ - 1]
      /\ PutCheckpoint(NewestId, NewestStep, NewestState, k, gone, "input", u)
  BY DEF InvokeWithInput, Begin, store
<1>2. puts = {}
  BY <1>1 DEF LoopInv, OffInv, InHand
<1>3. /\ lastId \in Nat /\ NewestId \in 0 .. lastId /\ NewestId \in {0} \cup DOMAIN saved
      /\ IsState(NewestState) /\ GoodState(NewestState, NewestId)
      /\ NewestId \in DOMAIN saved => NewestState = SavedState(NewestId)
      /\ NewestId = 0 => NewestState = EmptyState /\ DOMAIN saved = {}
      /\ \A i \in DOMAIN saved : i <= NewestId /\ Follows(SavedState(i), NewestState)
  BY NewestIsGood
<1>4. /\ IsState(k) /\ GoodState(k, lastId + 1) /\ Follows(NewestState, k)
  <2>1. NewestId \in Nat /\ lastId + 1 \in Nat /\ NewestId < lastId + 1
    BY <1>3
  <2> HIDE DEF k
  <2> QED BY <1>3, <2>1, ApplyFollows DEF k
<1>5. /\ NewestId = 0 => NewestState.ver = Unwritten
      /\ NewestId \in DOMAIN saved => NewestState.ver = saved[NewestId].ver
  BY <1>3 DEF EmptyState, SavedState
<1> HIDE DEF k, u, gone
<1>6. /\ LineParts' /\ lastId' = lastId + 1
      /\ \A p \in puts' : \/ p \in puts
                          \/ /\ p.alias = Barriers(k) /\ p.id = cp'.id
                             /\ p.parent = NewestId /\ p.state = cp'.state /\ p.upd = upd'
  BY <1>1, <1>2, <1>3, <1>4, <1>5, CheckpointTaken
<1>7. OneSyncInput => Barriers(k) = {}
  <2> SUFFICES ASSUME OneSyncInput PROVE Barriers(k) = {}
    OBVIOUS
  <2>1. NewestId = 0 /\ NewestState = EmptyState
    BY <1>1, <1>3 DEF ShareInv
  <2>2. FullScan(EmptyState) = {}
    BY EmptyIsGood
  <2>3. k = Apply(EmptyState, {}, FromInput(0))
    BY <2>1, <2>2 DEF k
  <2> QED BY <2>3, FirstInput DEF Barriers, OneSyncInput
<1>8. ShareInv'
  <2>1. (\A c \in Channels : Kind[c] # "barrier") => Barriers(k) = {}
    BY DEF Barriers
  <2>2. \A p \in puts' : p.alias = Barriers(k)
    BY <1>2, <1>6
  <2>3. OneSyncInput => ~ (budget'.inputs > 0)
    <3>1. budget \in [inputs : Int, resumes : Int, updates : Int, failures : Int, crashes : Int]
      BY DEF ShareInv
    <3> QED BY <1>1, <3>1 DEF ShareInv
  <2>4. Spent
    BY <1>1 DEF Spent
  <2> QED BY <1>1, <1>7, <2>1, <2>2, <2>3, <2>4, SpentKeeps DEF ShareInv
<1> QED BY <1>6, <1>8 DEF LineParts

\* A thread resumed.
LEMMA ResumeTakes ==
  ASSUME SnapshotInv, LoopInv', Resume
  PROVE  /\ SnapshotInv' /\ FullScan(cp'.state) = FullScan(NewestState)
         /\ cp'.state.ver = NewestState.ver /\ cp'.state.seen = NewestState.seen
         /\ cp'.state.val = NewestState.val
<1> USE DEF SnapshotInv
<1>1. /\ pc = "off" /\ pc' = "tick" /\ DOMAIN saved # {}
      /\ cp'.id = NewestId
      /\ cp'.state = [NewestState EXCEPT !.seenI = NewestState.ver]
      /\ UNCHANGED <<saved, blobs, puts, taken, lastId>>
      /\ budget' = [budget EXCEPT !.resumes = @ - 1]
  BY DEF Resume, Begin, store, background
<1>2. puts = {}
  BY <1>1 DEF LoopInv, OffInv, InHand
<1>3. /\ lastId \in Nat /\ NewestId \in DOMAIN saved
      /\ IsState(NewestState) /\ GoodState(NewestState, NewestId)
      /\ NewestState = SavedState(NewestId)
      /\ \A i \in DOMAIN saved : i <= NewestId /\ Follows(SavedState(i), NewestState)
  BY <1>1, NewestIsGood
<1>4. /\ cp'.state.ver = NewestState.ver /\ cp'.state.seen = NewestState.seen
      /\ cp'.state.val = NewestState.val /\ IsState(cp'.state)
  <2> DEFINE r == [ver |-> NewestState.ver, seen |-> NewestState.seen,
                   seenI |-> NewestState.seenI, val |-> NewestState.val]
  <2>1. cp'.state = [r EXCEPT !.seenI = NewestState.ver]
    BY <1>1, <1>3 DEF IsState
  <2> QED BY <2>1 DEF IsState
<1>5. \A i : SavedState(i)' = SavedState(i)
  BY <1>1 DEF SavedState, LoadBlobs
<1>6. StatesInv'
  BY <1>1, <1>2, <1>3, <1>4, <1>5 DEF StatesInv, GoodState
<1>7. LineInv'
  <2>1. \A i \in DOMAIN saved' : i <= cp'.id /\ Follows(SavedState(i)', cp'.state)
    BY <1>1, <1>3, <1>4, <1>5 DEF Follows
  <2>2. cp'.state.ver = saved'[cp'.id].ver
    BY <1>1, <1>3, <1>4 DEF SavedState
  <2> QED BY <1>1, <1>2, <1>5, <2>1, <2>2 DEF LineInv
<1>8. BlobsInv'
  BY <1>1 DEF BlobsInv
<1>9. TakenInv'
  <2>1. Snapshot(cp'.state) = Snapshot(NewestState)
    BY <1>4, ScanDepends
  <2>2. /\ \A i \in DOMAIN saved' : i \in DOMAIN taken' /\ taken'[i] = Snapshot(SavedState(i)')
        /\ NewestId \in DOMAIN taken /\ taken[NewestId] = Snapshot(NewestState)
    BY <1>1, <1>3, <1>5 DEF TakenInv
  <2> QED BY <1>1, <1>2, <2>1, <2>2 DEF TakenInv, Snapshot, FullScan, Triggered
<1>10. ShareInv'
  BY <1>1, <1>2, SpentKeeps DEF ShareInv, Spent
<1>11. FullScan(cp'.state) = FullScan(NewestState)
  BY <1>4, ScanDepends
<1> QED BY <1>4, <1>6, <1>7, <1>8, <1>9, <1>10, <1>11

\* A superstep whose writes are refused leaves nothing that is saved.
LEMMA RefuseTakes ==
  ASSUME SavesAreOwn, SnapshotInv, LoopInv', RefuseWrites
  PROVE  SnapshotInv' /\ puts' = puts /\ ~ Current'
<1> USE DEF SnapshotInv
<1>1. PICK k : puts' = {Aliased(p, k, Consumed(cp.state, tasks)) : p \in puts}
  BY DEF RefuseWrites
<1>2. /\ pc = "run" /\ pc' = WayOut /\ Conflict(Received(tasks, writes, cp.id))
      /\ UNCHANGED <<saved, blobs, taken, lastId, budget>>
  BY DEF RefuseWrites, AllWritten, store, ghosts
<1>3. Durability # "exit"
  BY <1>2 DEF SavesAreOwn, OneSyncInput, Conflict
<1>4. puts' = puts
  <2>1. \A p \in puts : IsSave(p) /\ GoodState(p.state, p.id) /\ p.alias = {}
    BY <1>2, NothingShared DEF StatesInv
  <2>2. \A p \in puts : Aliased(p, k, Consumed(cp.state, tasks)) = p
    BY <2>1, NotAliased
  <2> QED BY <1>1, <2>2
<1>5. pc' = "exit" /\ Spent
  BY <1>2, <1>3 DEF WayOut, Spent
<1>6. ~ Current'
  BY <1>5 DEF Current
<1>7. SnapshotInv'
  BY <1>2, <1>4, <1>5, <1>6, QuietKeepsLine
<1> QED BY <1>4, <1>6, <1>7

\* A superstep is taken.
LEMMA AfterTickTakes ==
  ASSUME SavesAreOwn, SnapshotInv, LoopInv', AfterTick
  PROVE  /\ SnapshotInv'
         /\ \A p \in puts' : \/ p \in puts
                             \/ /\ p.id = cp'.id /\ p.parent = cp.id
                                /\ p.state = cp'.state /\ p.upd = upd'
<1> USE DEF SnapshotInv
<1> DEFINE received == Received(tasks, writes, cp.id)
           k == Apply(cp.state, tasks, received)
           u == UpdatedChannels(cp.state, tasks, received)
           gone == Consumed(cp.state, tasks)
<1>1. /\ pc = "run" /\ pc' \in {WayOut, "wait", "tick"}
      /\ Durability = "sync" => pc' \in {WayOut, "wait"}
      /\ UNCHANGED <<saved, blobs, budget>>
      /\ PutCheckpoint(cp.id, cp.step, cp.state, k, gone, "loop", u)
  BY DEF AfterTick, AllWritten, store
<1>2. /\ lastId \in Nat /\ cp.id \in 0 .. lastId /\ DOMAIN saved \subseteq 1 .. lastId
      /\ GoodState(cp.state, cp.id)
      /\ \A i \in DOMAIN saved : Follows(SavedState(i), cp.state)
      /\ \A p \in puts : Follows(p.state, cp.state) /\ (p.id = cp.id => p.state.ver = cp.state.ver)
      /\ cp.id \in DOMAIN saved => cp.state.ver = saved[cp.id].ver
  BY <1>1 DEF LoopInv, PutsInv, TypeOK, StatesInv, LineInv, Current
<1>3. IsState(k) /\ GoodState(k, lastId + 1) /\ Follows(cp.state, k)
  <2>1. cp.id \in Nat /\ lastId + 1 \in Nat /\ cp.id < lastId + 1
    BY <1>2
  <2> HIDE DEF k
  <2> QED BY <1>2, <2>1, ApplyFollows DEF k
<1>4. cp.id = 0 => cp.state.ver = Unwritten
  <2> SUFFICES ASSUME cp.id = 0 PROVE cp.state.ver = Unwritten
    OBVIOUS
  <2>1. cp.state.ver \in [Channels -> 0 .. 0]
    BY <1>2 DEF GoodState
  <2> QED BY <2>1 DEF Unwritten
<1>5. \A p \in puts : p.alias = {}
  BY <1>1, NothingShared
<1> HIDE DEF k, u, gone
<1>6. /\ LineParts' /\ lastId' = lastId + 1
      /\ \A p \in puts' : \/ p \in puts
                          \/ /\ p.alias = Barriers(k) /\ p.id = cp'.id
                             /\ p.parent = cp.id /\ p.state = cp'.state /\ p.upd = upd'
  BY <1>1, <1>2, <1>3, <1>4, <1>5, CheckpointTaken
<1>7. ShareInv'
  <2>1. (\A c \in Channels : Kind[c] # "barrier") => Barriers(k) = {}
    BY DEF Barriers
  <2>2. OneSyncInput => pc' \notin {"tick", "run", "update"} /\ ~ (budget.inputs > 0)
    <3> SUFFICES ASSUME OneSyncInput
                 PROVE  pc' \notin {"tick", "run", "update"} /\ ~ (budget.inputs > 0)
      OBVIOUS
    <3>1. pc' \notin {"tick", "run", "update"}
      BY <1>1 DEF OneSyncInput, WayOut
    <3>2. cp.id \in DOMAIN saved \cup PutIds
      BY <1>1 DEF OneSyncInput, LoopInv, HeadInv, InHand
    <3>3. \A p \in puts : p.id \in 1 .. lastId
      BY DEF LoopInv, PutsInv, GoodPut
    <3>4. lastId # 0
      BY <1>2, <3>2, <3>3 DEF PutIds
    <3> QED BY <3>1, <3>4 DEF ShareInv
  <2> QED BY <1>1, <1>6, <2>1, <2>2 DEF ShareInv
<1> QED BY <1>6, <1>7 DEF LineParts

\* A checkpoint is saved.
LEMMA SaveCheckpointTakes ==
  ASSUME SnapshotInv, LoopInv', NEW p \in puts, SaveCheckpoint(p)
  PROVE  /\ SnapshotInv'
         /\ DOMAIN saved' = DOMAIN saved \cup {p.id}
         /\ \A i \in DOMAIN saved : saved'[i] = saved[i] /\ SavedState(i)' = SavedState(i)
         /\ saved'[p.id].upd = p.upd
         /\ SavedState(p.id)'.ver = p.state.ver /\ SavedState(p.id)'.seen = p.state.seen
         /\ SavedState(p.id)'.val = p.state.val
         /\ \A i \in DOMAIN saved : i < p.id
<1> USE DEF SnapshotInv
<1>1. /\ puts' = puts \ {p} /\ \A q \in puts : p.id <= q.id
      /\ Put(p) /\ UNCHANGED <<process, lastId, taken, budget>>
  BY DEF SaveCheckpoint, SaveBody, ghosts
<1>2. /\ \A q \in puts : q.id \in 1 .. lastId /\ GoodState(q.state, q.id)
      /\ p.parent \in Nat /\ p.parent < p.id /\ lastId \in Nat
      /\ p.parent \in {0} \cup DOMAIN saved \cup PutIds /\ DOMAIN saved \subseteq 1 .. lastId
  BY DEF LoopInv, TypeOK, PutsInv, GoodPut, StatesInv
<1>3. p.parent \in {0} \cup DOMAIN saved
  <2> SUFFICES ASSUME NEW q \in puts, p.parent = q.id PROVE FALSE
    BY <1>2 DEF PutIds
  <2> QED BY <1>1, <1>2
<1>4. p.id \notin DOMAIN saved
  BY <1>2 DEF LineInv
<1>5. /\ DOMAIN saved' = DOMAIN saved \cup {p.id}
      /\ \A i \in DOMAIN saved : saved'[i] = saved[i] /\ SavedState(i)' = SavedState(i)
      /\ saved'[p.id].upd = p.upd /\ saved'[p.id].ver = p.state.ver
      /\ SavedState(p.id)'.ver = p.state.ver /\ SavedState(p.id)'.seen = p.state.seen
      /\ SavedState(p.id)'.val = p.state.val
      /\ \A c \in Channels : <<c, 0>> \notin DOMAIN blobs'
  BY <1>1, <1>2, <1>3, <1>4, PutSaves DEF LineInv, BlobsInv
<1>6. \A q \in puts' : q \in puts /\ q # p /\ p.id < q.id
  BY <1>1, <1>2 DEF LineInv
<1>7. Current' <=> Current
  BY <1>1 DEF Current, process
<1>8. cp' = cp
  BY <1>1 DEF process
<1>9. StatesInv'
  <2>1. GoodState(SavedState(p.id)', p.id)
    BY <1>2, <1>5 DEF GoodState
  <2>2. \A i \in DOMAIN saved' : GoodState(SavedState(i)', i)
    BY <1>5, <2>1 DEF StatesInv
  <2> QED BY <1>6, <1>7, <1>8, <2>2 DEF StatesInv
<1>10. LineInv'
  <2>1. \A k : Follows(p.state, k) => Follows(SavedState(p.id)', k)
    BY <1>5 DEF Follows
  <2>2. \A i \in DOMAIN saved : i < p.id /\ Follows(SavedState(i)', SavedState(p.id)')
    BY <1>5 DEF LineInv, Follows
  <2>3. \A i, j \in DOMAIN saved' : i < j => Follows(SavedState(i)', SavedState(j)')
    BY <1>2, <1>5, <2>2 DEF LineInv
  <2>4. \A i \in DOMAIN saved', q \in puts' : i < q.id /\ Follows(SavedState(i)', q.state)
    BY <1>5, <1>6, <2>1 DEF LineInv
  <2>5. Current => \A i \in DOMAIN saved' : i <= cp.id /\ Follows(SavedState(i)', cp.state)
    BY <1>5, <2>1 DEF LineInv
  <2>6. Current => (cp.id \in DOMAIN saved' => cp.state.ver = saved'[cp.id].ver)
    BY <1>5 DEF LineInv
  <2> QED BY <1>6, <1>7, <1>8, <2>3, <2>4, <2>5, <2>6 DEF LineInv
<1>11. BlobsInv'
  <2>1. \A q \in puts' : /\ q.new \subseteq Channels
                         /\ \A c \in q.new : q.state.ver[c] > 0
                         /\ \A c \in Channels \ q.new :
                              /\ q.parent = 0 => q.state.ver[c] = 0
                              /\ q.parent \in DOMAIN saved' => q.state.ver[c] = saved'[q.parent].ver[c]
                              /\ \A r \in puts' : r.id = q.parent => q.state.ver[c] = r.state.ver[c]
    BY <1>4, <1>5, <1>6 DEF BlobsInv
  <2> QED BY <1>5, <2>1 DEF BlobsInv
<1>12. TakenInv'
  <2>1. Snapshot(SavedState(p.id)') = Snapshot(p.state)
    BY <1>5, ScanDepends
  <2>2. \A i \in DOMAIN saved' : i \in DOMAIN taken' /\ taken'[i] = Snapshot(SavedState(i)')
    BY <1>1, <1>5, <2>1 DEF TakenInv
  <2> QED BY <1>1, <1>6, <1>7, <1>8, <2>2 DEF TakenInv, Snapshot, FullScan, Triggered
<1>13. ShareInv'
  BY <1>1, <1>6 DEF ShareInv, process
<1> QED BY <1>5, <1>9, <1>10, <1>11, <1>12, <1>13 DEF LineInv

\* With durability "exit" the block is left: the checkpoint in hand goes to the saver.
LEMMA LeaveBlockTakes ==
  ASSUME SnapshotInv, LoopInv', LeaveBlock
  PROVE  /\ SnapshotInv'
         /\ \A p \in puts' : p.state = cp.state /\ p.upd = upd
         /\ Current
<1> USE DEF SnapshotInv
<1> DEFINE sub == Submission(cp, NewestId, NewestState, upd)
<1>1. /\ pc = "leave" /\ pc' = "exit"
      /\ puts' = puts \cup IF cp.id = NewestId THEN {} ELSE {sub}
      /\ UNCHANGED <<cp, saved, blobs, taken, lastId, budget>>
  BY DEF LeaveBlock, store, ghosts
<1>2. Durability = "exit" /\ puts = {} /\ Current
  BY <1>1 DEF LoopInv, ExitInv, InHand, Current
<1>3. /\ lastId \in Nat /\ NewestId \in 0 .. lastId /\ NewestId \in {0} \cup DOMAIN saved
      /\ GoodState(NewestState, NewestId)
      /\ NewestId \in DOMAIN saved => NewestState = SavedState(NewestId)
      /\ NewestId = 0 => NewestState = EmptyState
      /\ \A i \in DOMAIN saved : i <= NewestId
  BY NewestIsGood
<1>4. /\ sub.id = cp.id /\ sub.parent = NewestId /\ sub.state = cp.state /\ sub.upd = upd
      /\ sub.new = NewVersions(NewestState.ver, cp.state.ver)
      /\ sub.alias = Barriers(cp.state)
      /\ sub = [id |-> sub.id, parent |-> sub.parent, step |-> sub.step, src |-> sub.src,
                upd |-> sub.upd, state |-> sub.state, new |-> sub.new, alias |-> sub.alias]
  BY DEF Submission
<1> HIDE DEF sub
<1>5. \A i : SavedState(i)' = SavedState(i)
  BY <1>1 DEF SavedState, LoadBlobs
<1>6. ASSUME cp.id # NewestId PROVE SnapshotInv' /\ puts' = {sub}
  <2>1. puts' = {sub} /\ cp.id \in 0 .. lastId
    BY <1>1, <1>2, <1>6 DEF LoopInv, TypeOK
  <2>2. IsState(cp.state) /\ GoodState(cp.state, cp.id)
    BY <1>2 DEF StatesInv
  <2>3. Follows(NewestState, cp.state) /\ (NewestId \in DOMAIN saved => NewestId < cp.id)
    <3>1. CASE NewestId \in DOMAIN saved
      BY <1>2, <1>3, <1>6, <2>1, <3>1 DEF LineInv
    <3>2. CASE NewestId \notin DOMAIN saved
      <4>1. NewestState = EmptyState /\ cp.id \in Nat
        BY <1>3, <2>1, <3>2
      <4> QED BY <2>2, <3>2, <4>1, EmptyPrecedes
    <3> QED BY <3>1, <3>2
  <2>4. StatesInv'
    BY <1>1, <1>4, <1>5, <2>1, <2>2 DEF StatesInv, IsSave, Current
  <2>5. LineInv'
    <3>1. \A i \in DOMAIN saved : i < cp.id /\ Follows(SavedState(i), cp.state)
      <4>1. \A i \in DOMAIN saved : i \in Nat /\ i <= NewestId
        BY <1>3 DEF LoopInv, TypeOK
      <4> QED BY <1>2, <1>3, <2>1, <2>3, <4>1 DEF LineInv
    <3> QED BY <1>1, <1>4, <1>5, <2>1, <3>1 DEF LineInv, Current
  <2>6. BlobsInv'
    <3>1. \A c \in Channels : /\ NewestState.ver[c] \in Nat /\ cp.state.ver[c] \in Nat
                              /\ NewestState.ver[c] <= cp.state.ver[c]
      BY <1>3, <2>1, <2>2, <2>3 DEF GoodState, Follows
    <3>2. /\ sub.new \subseteq Channels
          /\ \A c \in sub.new : sub.state.ver[c] > 0
          /\ \A c \in Channels \ sub.new : sub.state.ver[c] = NewestState.ver[c]
      BY <1>4, <3>1 DEF NewVersions
    <3>3. /\ NewestId = 0 => NewestState.ver = Unwritten
          /\ NewestId \in DOMAIN saved => NewestState.ver = saved[NewestId].ver
      BY <1>3 DEF EmptyState, SavedState
    <3> QED BY <1>1, <1>4, <1>6, <2>1, <3>2, <3>3 DEF BlobsInv, Unwritten
  <2>7. TakenInv'
    <3>1. \A i \in DOMAIN saved' : i \in DOMAIN taken' /\ taken'[i] = Snapshot(SavedState(i)')
      BY <1>1, <1>5 DEF TakenInv
    <3>2. cp.id \in DOMAIN taken /\ taken[cp.id] = Snapshot(cp.state)
      BY <1>2 DEF TakenInv
    <3>3. \A p \in puts' : p.id \in DOMAIN taken' /\ taken'[p.id] = Snapshot(p.state)
      BY <1>1, <1>4, <2>1, <3>2
    <3>4. DOMAIN taken' \subseteq 1 .. lastId' /\ ~ Current'
      BY <1>1 DEF TakenInv, Current
    <3> QED BY <3>1, <3>3, <3>4 DEF TakenInv, Snapshot, FullScan, Triggered
  <2>8. ShareInv'
    <3>1. (\A c \in Channels : Kind[c] # "barrier") => sub.alias = {}
      BY <1>4 DEF Barriers
    <3>2. ~OneSyncInput
      BY <1>2 DEF OneSyncInput
    <3> QED BY <1>1, <2>1, <3>1, <3>2 DEF ShareInv
  <2> QED BY <2>1, <2>4, <2>5, <2>6, <2>7, <2>8
<1>7. SnapshotInv' /\ (puts' = {} \/ puts' = {sub})
  <2>1. CASE cp.id = NewestId
    BY <1>1, <1>2, <2>1, QuietKeepsLine DEF Current, Spent
  <2> QED BY <1>1, <1>2, <1>6, <2>1
<1> QED BY <1>1, <1>2, <1>4, <1>7

\* update_state: the checkpoint it makes is saved at once.
LEMMA UpdatePutTakes ==
  ASSUME SnapshotInv, LoopInv', UpdatePut
  PROVE  /\ SnapshotInv'
         /\ DOMAIN saved' = DOMAIN saved \cup {lastId + 1}
         /\ \A i \in DOMAIN saved : saved'[i] = saved[i] /\ SavedState(i)' = SavedState(i)
         /\ saved'[lastId + 1].upd = {}
         /\ puts' = {} /\ ~ Current'
         /\ \A i \in DOMAIN taken : i \in DOMAIN taken' /\ taken'[i] = taken[i]
<1> USE DEF SnapshotInv
<1>1. PICK n, st :
        LET k == Apply(NewestState, {AsNode}, Received({n}, writes, NewestId))
        IN  /\ Put(Submission([id |-> lastId + 1, step |-> st, src |-> "update",
                               state |-> k], NewestId, NewestState, {}))
            /\ taken' = With(taken, lastId + 1, Snapshot(k))
  BY DEF UpdatePut
<1> DEFINE k == Apply(NewestState, {AsNode}, Received({n}, writes, NewestId))
           ck == [id |-> lastId + 1, step |-> st, src |-> "update", state |-> k]
           p == Submission(ck, NewestId, NewestState, {})
<1>2. /\ pc = "update" /\ pc' = "off" /\ lastId' = lastId + 1
      /\ UNCHANGED <<cp, puts, budget>>
      /\ Put(p) /\ taken' = With(taken, lastId + 1, Snapshot(k))
  BY <1>1 DEF UpdatePut, background
<1>3. puts = {}
  BY <1>2 DEF LoopInv, OffInv, InHand
<1>4. /\ lastId \in Nat /\ NewestId \in 0 .. lastId /\ NewestId \in {0} \cup DOMAIN saved
      /\ GoodState(NewestState, NewestId)
      /\ NewestId \in DOMAIN saved => NewestState = SavedState(NewestId)
      /\ NewestId = 0 => NewestState = EmptyState
      /\ \A i \in DOMAIN saved : i <= NewestId /\ Follows(SavedState(i), NewestState)
  BY NewestIsGood
<1>5. DOMAIN saved \subseteq 1 .. lastId
  BY DEF LoopInv, TypeOK
<1>6. GoodState(k, lastId + 1) /\ Follows(NewestState, k)
  <2>1. NewestId \in Nat /\ lastId + 1 \in Nat /\ NewestId < lastId + 1
    BY <1>4
  <2> HIDE DEF k
  <2> QED BY <1>4, <2>1, ApplyFollows DEF k
<1>7. /\ p.id = lastId + 1 /\ p.parent = NewestId /\ p.state = k /\ p.upd = {}
      /\ p.new = NewVersions(NewestState.ver, k.ver)
  BY DEF Submission
<1> PICK q : q = p
  OBVIOUS
<1> HIDE DEF k, ck, p
<1>8. \A i \in DOMAIN saved : Follows(SavedState(i), k)
  <2> SUFFICES ASSUME NEW i \in DOMAIN saved PROVE Follows(SavedState(i), k)
    OBVIOUS
  <2>1. i \in Nat /\ NewestId \in Nat /\ lastId + 1 \in Nat /\ GoodState(SavedState(i), i)
    BY <1>4, <1>5 DEF StatesInv
  <2> QED BY <1>4, <1>6, <2>1, FollowsTrans
<1>9. /\ p.new \subseteq Channels
      /\ \A c \in p.new : p.state.ver[c] > 0
      /\ \A c \in Channels \ p.new :
           /\ p.parent = 0 => p.state.ver[c] = 0
           /\ p.parent \in DOMAIN saved => p.state.ver[c] = saved[p.parent].ver[c]
  <2>1. \A c \in Channels : /\ NewestState.ver[c] \in Nat /\ k.ver[c] \in Nat
                            /\ NewestState.ver[c] <= k.ver[c]
    BY <1>4, <1>6 DEF GoodState, Follows
  <2>2. /\ p.new \subseteq Channels
        /\ \A c \in p.new : p.state.ver[c] > 0
        /\ \A c \in Channels \ p.new : p.state.ver[c] = NewestState.ver[c]
    BY <1>7, <2>1 DEF NewVersions
  <2>3. /\ NewestId = 0 => NewestState.ver = Unwritten
        /\ NewestId \in DOMAIN saved => NewestState.ver = saved[NewestId].ver
    BY <1>4 DEF EmptyState, SavedState
  <2> QED BY <1>7, <2>2, <2>3 DEF Unwritten
<1>10. PICK id : id = lastId + 1
  OBVIOUS
<1>11. lastId + 1 \notin DOMAIN saved /\ lastId + 1 \in Nat /\ lastId + 1 \notin DOMAIN taken
  BY <1>4, <1>5 DEF TakenInv
<1>12. /\ DOMAIN saved' = DOMAIN saved \cup {id}
       /\ \A i \in DOMAIN saved : saved'[i] = saved[i] /\ SavedState(i)' = SavedState(i)
       /\ saved'[id].upd = {}
       /\ SavedState(id)'.ver = k.ver /\ SavedState(id)'.seen = k.seen
       /\ SavedState(id)'.val = k.val
       /\ \A c \in Channels : <<c, 0>> \notin DOMAIN blobs'
  <2>1. /\ DOMAIN saved' = DOMAIN saved \cup {q.id}
        /\ \A i \in DOMAIN saved : saved'[i] = saved[i] /\ SavedState(i)' = SavedState(i)
        /\ saved'[q.id].upd = q.upd
        /\ SavedState(q.id)'.ver = q.state.ver /\ SavedState(q.id)'.seen = q.state.seen
        /\ SavedState(q.id)'.val = q.state.val
        /\ \A c \in Channels : <<c, 0>> \notin DOMAIN blobs'
    BY <1>2, <1>4, <1>6, <1>7, <1>8, <1>9, <1>11, PutSaves
  <2> QED BY <1>7, <1>10, <2>1
<1>13. /\ DOMAIN taken' = DOMAIN taken \cup {lastId + 1}
       /\ \A i \in DOMAIN taken : taken'[i] = taken[i]
       /\ taken'[lastId + 1] = Snapshot(k)
  BY <1>2, <1>11 DEF With
<1>14. ~ Current' /\ puts' = {}
  BY <1>2, <1>3 DEF Current
<1>15. StatesInv'
  <2>1. GoodState(SavedState(id)', id)
    BY <1>10, <1>6, <1>12 DEF GoodState
  <2> QED BY <1>12, <1>14, <2>1 DEF StatesInv
<1>16. LineInv'
  <2>1. \A i \in DOMAIN saved : i < id /\ Follows(SavedState(i)', SavedState(id)')
    BY <1>4, <1>5, <1>8, <1>12, <1>10 DEF Follows
  <2>2. \A i, j \in DOMAIN saved' : i < j => Follows(SavedState(i)', SavedState(j)')
    BY <1>4, <1>5, <1>12, <1>10, <2>1 DEF LineInv
  <2> QED BY <1>14, <2>2 DEF LineInv
<1>17. BlobsInv'
  BY <1>12, <1>14 DEF BlobsInv
<1>18. TakenInv'
  <2>1. Snapshot(SavedState(id)') = Snapshot(k)
    BY <1>12, ScanDepends
  <2>2. \A i \in DOMAIN saved' : i \in DOMAIN taken' /\ taken'[i] = Snapshot(SavedState(i)')
    BY <1>12, <1>13, <1>10, <2>1 DEF TakenInv
  <2>3. DOMAIN taken' \subseteq 1 .. lastId'
    BY <1>2, <1>4, <1>13 DEF TakenInv
  <2> QED BY <1>14, <2>2, <2>3 DEF TakenInv, Snapshot, FullScan, Triggered
<1>19. ShareInv'
  <2>1. ~OneSyncInput
    BY <1>2 DEF ShareInv
  <2> QED BY <1>2, <1>14, <2>1 DEF ShareInv
<1> QED BY <1>10, <1>12, <1>13, <1>14, <1>15, <1>16, <1>17, <1>18, <1>19

\* The other actions take and save no checkpoint.
Quiet ==
  \/ OutOfSteps \/ Done \/ StopBefore \/ Tick \/ Panic \/ AwaitSave \/ Return \/ Crash
  \/ \E n \in Nodes : Task(n) \/ UpdateWrites(n)
  \/ \E w \in wputs : SaveWrites(w)
  \/ UNCHANGED vars

LEMMA QuietTakes ==
  ASSUME SnapshotInv, LoopInv', Quiet PROVE SnapshotInv'
<1> USE DEF store, background, ghosts, process, Current
<1>1. CASE OutOfSteps \/ Done \/ StopBefore \/ Panic
  BY <1>1, QuietKeepsLine DEF OutOfSteps, Done, StopBefore, Panic, Leave, WayOut, Spent
<1>2. CASE Tick
  BY <1>2, QuietKeepsLine DEF Tick, Spent
<1>3. CASE AwaitSave
  BY <1>3, QuietKeepsLine DEF AwaitSave, Spent
<1>4. CASE Return \/ Crash
  BY <1>4, QuietKeepsLine DEF Return, Crash, Gone, Spent
<1>5. ASSUME NEW n \in Nodes, Task(n) PROVE SnapshotInv'
  <2>1. /\ UNCHANGED <<saved, blobs, taken, lastId, puts, pc, cp>>
        /\ budget' = budget \/ budget' = [budget EXCEPT !.failures = @ - 1]
    BY <1>5 DEF Task, StartTask, RetryTask, FinishTask, FailTask, Attempt, Commit
  <2> QED BY <2>1, QuietKeepsLine DEF Spent
<1>6. ASSUME NEW n \in Nodes, UpdateWrites(n) PROVE SnapshotInv'
  <2>1. budget.updates > 0
    BY <1>6 DEF UpdateWrites
  <2>2. ~OneSyncInput
    <3>1. budget.updates \in Int
      BY DEF SnapshotInv, ShareInv
    <3> QED BY <2>1, <3>1 DEF SnapshotInv, ShareInv
  <2> QED BY <1>6, <2>2, QuietKeepsLine DEF UpdateWrites, Spent
<1>7. ASSUME NEW w \in wputs, SaveWrites(w) PROVE SnapshotInv'
  BY <1>7, QuietKeepsLine DEF SaveWrites, Spent
<1>8. CASE UNCHANGED vars
  BY <1>8, QuietKeepsLine DEF vars, Spent
<1> QED BY <1>1, <1>2, <1>3, <1>4, <1>5, <1>6, <1>7, <1>8 DEF Quiet

\* What a step of the loop may be.
LEMMA StepIs ==
  ASSUME [Next]_vars
  PROVE  \/ InvokeWithInput \/ Resume \/ RefuseWrites \/ AfterTick \/ LeaveBlock
         \/ UpdatePut \/ (\E p \in puts : SaveCheckpoint(p)) \/ Quiet
BY DEF Next, Loop, Quiet

LEMMA SnapshotInit == Init => SnapshotInv
<1> SUFFICES ASSUME Init PROVE SnapshotInv
  OBVIOUS
<1> USE DEF Init, Current
<1>1. DOMAIN saved = {} /\ DOMAIN blobs = {} /\ DOMAIN taken = {} /\ puts = {}
  OBVIOUS
<1>2. LoopInv
  BY InitHolds
<1>3. StatesInv /\ LineInv /\ BlobsInv /\ TakenInv
  BY <1>1 DEF StatesInv, LineInv, BlobsInv, TakenInv
<1>4. ShareInv
  BY <1>1, LoopAssumption DEF ShareInv, OneSyncInput
<1> QED BY <1>2, <1>3, <1>4 DEF SnapshotInv

LEMMA SnapshotInductive ==
  ASSUME SavesAreOwn, SnapshotInv, [Next]_vars PROVE SnapshotInv'
<1>1. LoopInv'
  BY LoopInductive DEF SnapshotInv
<1>2. CASE \E p \in puts : SaveCheckpoint(p)
  BY <1>1, <1>2, SaveCheckpointTakes
<1> QED
  BY <1>1, <1>2, StepIs, InvokeTakes, ResumeTakes, RefuseTakes, AfterTickTakes,
     LeaveBlockTakes, UpdatePutTakes, QuietTakes

\* A saved checkpoint is the one that was taken: whatever crashes, resumes, retries
\* and saves still under way there were in between, get_tuple puts together, from
\* blobs that many saves brought, the values the channels had at its creation, with
\* the same nodes due.
THEOREM SavedAreSnapshots == SavesAreOwn => (Spec => []SavedIsSnapshot)
<1> SUFFICES ASSUME SavesAreOwn PROVE Spec => []SavedIsSnapshot
  OBVIOUS
<1>1. SnapshotInv => SavedIsSnapshot
  BY DEF SnapshotInv, TakenInv, SavedIsSnapshot
<1>2. SnapshotInv /\ [Next]_vars => SnapshotInv'
  BY SnapshotInductive
<1> QED BY <1>1, <1>2, SnapshotInit, PTL DEF Spec

-----------------------------------------------------------------------------
(* The list of updated channels                                            *)

\* A step that takes and saves no checkpoint keeps the lists as they are.
LEMMA QuietKeepsListed ==
  ASSUME ListedInv, UNCHANGED <<saved, blobs>>, puts' \in SUBSET puts,
         Current' => Current /\ cp' = cp /\ upd' = upd,
         pc' = "run" => tasks' = FullScan(cp.state)
  PROVE  ListedInv'
<1>1. \A i : SavedState(i)' = SavedState(i)
  BY DEF SavedState, LoadBlobs
<1>2. \A i \in DOMAIN saved' : Listed(SavedState(i)', saved'[i].upd)
  BY <1>1 DEF ListedInv
<1>3. \A p \in puts' : Listed(p.state, p.upd)
  BY DEF ListedInv
<1>4. Current' => Listed(cp'.state, upd')
  BY DEF ListedInv
<1>5. pc' = "run" => cp' = cp
  BY DEF Current
<1> QED BY <1>2, <1>3, <1>4, <1>5 DEF ListedInv, Listed, FullScan, Triggered

LEMMA QuietListed ==
  ASSUME SnapshotInv, ListedInv, Quiet PROVE ListedInv'
<1> USE DEF store, background, ghosts, process, Current
<1>1. CASE OutOfSteps \/ Done \/ StopBefore \/ Panic
  BY <1>1, QuietKeepsListed DEF OutOfSteps, Done, StopBefore, Panic, Leave, WayOut
<1>2. CASE Tick
  <2>1. GoodState(cp.state, cp.id) /\ Listed(cp.state, upd) /\ cp.id \in Nat
    BY <1>2 DEF Tick, SnapshotInv, StatesInv, ListedInv, LoopInv, PutsInv, TypeOK
  <2>2. Due = FullScan(cp.state)
    BY <2>1, ListedIsEnough DEF Due
  <2> QED BY <1>2, <2>2, QuietKeepsListed DEF Tick
<1>3. CASE AwaitSave
  BY <1>3, QuietKeepsListed DEF AwaitSave
<1>4. CASE Return \/ Crash
  BY <1>4, QuietKeepsListed DEF Return, Crash, Gone
<1>5. ASSUME NEW n \in Nodes, Task(n) PROVE ListedInv'
  <2>1. UNCHANGED <<saved, blobs, puts, pc, cp, upd, tasks>>
    BY <1>5 DEF Task, StartTask, RetryTask, FinishTask, FailTask, Attempt, Commit
  <2> QED BY <2>1, QuietKeepsListed DEF ListedInv
<1>6. ASSUME NEW n \in Nodes, UpdateWrites(n) PROVE ListedInv'
  BY <1>6, QuietKeepsListed DEF UpdateWrites
<1>7. ASSUME NEW w \in wputs, SaveWrites(w) PROVE ListedInv'
  BY <1>7, QuietKeepsListed DEF SaveWrites, ListedInv
<1>8. CASE UNCHANGED vars
  BY <1>8, QuietKeepsListed DEF vars, ListedInv
<1> QED BY <1>1, <1>2, <1>3, <1>4, <1>5, <1>6, <1>7, <1>8 DEF Quiet

\* The list a superstep leaves is right because every node due was in its tasks.
LEMMA TakenListed ==
  ASSUME SavesAreOwn, SnapshotInv, ListedInv, LoopInv', InvokeWithInput \/ AfterTick
  PROVE  ListedInv'
<1>1. UNCHANGED <<saved, blobs>> /\ pc' # "run"
  BY DEF InvokeWithInput, AfterTick, Begin, store, WayOut
<1>2. \A p \in puts' : p \in puts \/ (p.state = cp'.state /\ p.upd = upd')
  BY InvokeTakes, AfterTickTakes
<1>3. Listed(cp'.state, upd')
  <2>1. CASE InvokeWithInput
    <3> DEFINE received == FromInput(NewestId)
    <3>1. /\ cp'.state = Apply(NewestState, FullScan(NewestState), received)
          /\ upd' = UpdatedChannels(NewestState, FullScan(NewestState), received)
      BY <2>1 DEF InvokeWithInput, PutCheckpoint
    <3>2. NewestId \in Nat /\ GoodState(NewestState, NewestId)
      BY NewestIsGood
    <3> HIDE DEF received
    <3>3. \A n \in FullScan(Apply(NewestState, FullScan(NewestState), received)) :
             Triggers[n] \cap UpdatedChannels(NewestState, FullScan(NewestState), received) # {}
      BY <3>2, ListedAfterStep
    <3> QED BY <3>1, <3>3 DEF Listed
  <2>2. CASE AfterTick
    <3> DEFINE received == Received(tasks, writes, cp.id)
    <3>1. /\ cp'.state = Apply(cp.state, tasks, received)
          /\ upd' = UpdatedChannels(cp.state, tasks, received)
      BY <2>2 DEF AfterTick, PutCheckpoint
    <3>2. pc = "run" /\ tasks = FullScan(cp.state)
      BY <2>2 DEF AfterTick, AllWritten, ListedInv
    <3>3. cp.id \in Nat /\ GoodState(cp.state, cp.id)
      BY <3>2 DEF SnapshotInv, StatesInv, LoopInv, PutsInv, TypeOK, Current
    <3> HIDE DEF received
    <3>4. \A n \in FullScan(Apply(cp.state, FullScan(cp.state), received)) :
             Triggers[n] \cap UpdatedChannels(cp.state, FullScan(cp.state), received) # {}
      BY <3>3, ListedAfterStep
    <3> QED BY <3>1, <3>2, <3>4 DEF Listed
  <2> QED BY <2>1, <2>2
<1>4. \A i : SavedState(i)' = SavedState(i)
  BY <1>1 DEF SavedState, LoadBlobs
<1>5. \A i \in DOMAIN saved' : Listed(SavedState(i)', saved'[i].upd)
  BY <1>1, <1>4 DEF ListedInv
<1>6. \A p \in puts' : Listed(p.state, p.upd)
  BY <1>2, <1>3 DEF ListedInv
<1> QED BY <1>1, <1>3, <1>5, <1>6 DEF ListedInv, Listed, FullScan, Triggered

LEMMA ListedInductive ==
  ASSUME SavesAreOwn, SnapshotInv, ListedInv, [Next]_vars PROVE ListedInv'
<1>1. LoopInv'
  BY LoopInductive DEF SnapshotInv
<1>2. CASE Resume
  <2>1. /\ pc' = "tick" /\ upd' = saved[NewestId].upd /\ UNCHANGED <<saved, blobs, puts>>
        /\ DOMAIN saved # {}
    BY <1>2 DEF Resume, Begin, store, background
  <2>2. NewestId \in DOMAIN saved /\ NewestState = SavedState(NewestId)
    BY <2>1, NewestIsGood
  <2>3. Listed(cp'.state, upd')
    BY <1>1, <1>2, <2>1, <2>2, ResumeTakes DEF ListedInv, Listed
  <2>4. \A i : SavedState(i)' = SavedState(i)
    BY <2>1 DEF SavedState, LoadBlobs
  <2>5. \A i \in DOMAIN saved' : Listed(SavedState(i)', saved'[i].upd)
    BY <2>1, <2>4 DEF ListedInv
  <2>6. \A p \in puts' : Listed(p.state, p.upd)
    BY <2>1 DEF ListedInv
  <2> QED BY <2>1, <2>3, <2>5, <2>6 DEF ListedInv, Listed, FullScan, Triggered
<1>3. CASE RefuseWrites
  <2>1. puts' = puts /\ ~ Current' /\ UNCHANGED <<saved, blobs>>
    BY <1>1, <1>3, RefuseTakes DEF RefuseWrites, store
  <2> QED BY <2>1, QuietKeepsListed DEF Current
<1>4. CASE LeaveBlock
  <2>1. pc' = "exit" /\ UNCHANGED <<saved, blobs>>
    BY <1>4 DEF LeaveBlock, store
  <2>2. \A p \in puts' : Listed(p.state, p.upd)
    BY <1>1, <1>4, LeaveBlockTakes DEF ListedInv
  <2>3. \A i : SavedState(i)' = SavedState(i)
    BY <2>1 DEF SavedState, LoadBlobs
  <2>4. \A i \in DOMAIN saved' : Listed(SavedState(i)', saved'[i].upd)
    BY <2>1, <2>3 DEF ListedInv
  <2> QED BY <2>1, <2>2, <2>4 DEF ListedInv, Listed, FullScan, Triggered, Current
<1>5. CASE UpdatePut
  <2>1. /\ DOMAIN saved' = DOMAIN saved \cup {lastId + 1}
        /\ \A i \in DOMAIN saved : saved'[i] = saved[i] /\ SavedState(i)' = SavedState(i)
        /\ saved'[lastId + 1].upd = {} /\ puts' = {} /\ ~ Current'
    BY <1>1, <1>5, UpdatePutTakes
  <2>2. \A i \in DOMAIN saved' : Listed(SavedState(i)', saved'[i].upd)
    BY <2>1 DEF ListedInv, Listed
  <2>3. pc' # "run"
    BY <2>1 DEF Current
  <2> QED BY <2>1, <2>2, <2>3 DEF ListedInv, Listed, FullScan, Triggered
<1>6. ASSUME NEW p \in puts, SaveCheckpoint(p) PROVE ListedInv'
  <2>1. /\ DOMAIN saved' = DOMAIN saved \cup {p.id}
        /\ \A i \in DOMAIN saved : saved'[i] = saved[i] /\ SavedState(i)' = SavedState(i)
        /\ saved'[p.id].upd = p.upd
        /\ SavedState(p.id)'.ver = p.state.ver /\ SavedState(p.id)'.seen = p.state.seen
        /\ SavedState(p.id)'.val = p.state.val
        /\ \A i \in DOMAIN saved : i < p.id
    BY <1>1, <1>6, SaveCheckpointTakes
  <2>2. puts' \subseteq puts /\ UNCHANGED <<pc, cp, upd, tasks>>
    BY <1>6 DEF SaveCheckpoint, SaveBody, process
  <2>3. Listed(SavedState(p.id)', saved'[p.id].upd)
    BY <2>1, ScanDepends DEF ListedInv, Listed
  <2>4. \A i \in DOMAIN saved' : Listed(SavedState(i)', saved'[i].upd)
    BY <2>1, <2>3 DEF ListedInv
  <2> QED BY <2>2, <2>4 DEF ListedInv, Listed, FullScan, Triggered, Current
<1> QED
  BY <1>1, <1>2, <1>3, <1>4, <1>5, <1>6, StepIs, TakenListed, QuietListed

\* The optimisation of prepare_next_tasks is sound: looking only at the nodes
\* subscribed to a channel of the list, be it in memory or brought back from the
\* saver, finds every node that a look at all of them would.
THEOREM NoNodeIsMissed == SavesAreOwn => (Spec => []NoTriggeredNodeMissed)
<1> SUFFICES ASSUME SavesAreOwn PROVE Spec => []NoTriggeredNodeMissed
  OBVIOUS
<1>1. Init => SnapshotInv /\ ListedInv
  <2>1. Init => ListedInv
    BY DEF Init, ListedInv, Current
  <2> QED BY <2>1, SnapshotInit
<1>2. (SnapshotInv /\ ListedInv) /\ [Next]_vars => (SnapshotInv /\ ListedInv)'
  BY SnapshotInductive, ListedInductive
<1>3. SnapshotInv /\ ListedInv => NoTriggeredNodeMissed
  <2> SUFFICES ASSUME SnapshotInv, ListedInv, pc = "tick" PROVE Due = FullScan(cp.state)
    BY DEF NoTriggeredNodeMissed
  <2>1. GoodState(cp.state, cp.id) /\ Listed(cp.state, upd) /\ cp.id \in Nat
    BY DEF Current, SnapshotInv, StatesInv, ListedInv, LoopInv, PutsInv, TypeOK
  <2> QED BY <2>1, ListedIsEnough DEF Due
<1> QED BY <1>1, <1>2, <1>3, PTL DEF Spec

-----------------------------------------------------------------------------
(* Pending writes                                                          *)

\* What a checkpoint was when it was taken stays on record.
LEMMA TakenGrows ==
  ASSUME SnapshotInv, [Next]_vars
  PROVE  \A i \in DOMAIN taken : i \in DOMAIN taken' /\ taken'[i] = taken[i]
<1>1. CASE taken' = taken
  BY <1>1
<1>2. CASE \E k : taken' = With(taken, lastId + 1, Snapshot(k))
  <2>1. lastId \in Nat /\ DOMAIN taken \subseteq 1 .. lastId
    BY DEF SnapshotInv, LoopInv, PutsInv, TakenInv
  <2>2. lastId + 1 \notin DOMAIN taken
    BY <2>1
  <2> QED BY <1>2, <2>2 DEF With
<1>3. taken' = taken \/ \E k : taken' = With(taken, lastId + 1, Snapshot(k))
  <2>1. CASE Quiet
    BY <2>1 DEF Quiet, OutOfSteps, Done, StopBefore, Panic, Leave, Tick, AwaitSave, Return,
                Crash, Gone, Task, StartTask, RetryTask, FinishTask, FailTask, Attempt, Commit,
                UpdateWrites, SaveWrites, vars, ghosts
  <2>2. CASE Resume \/ RefuseWrites \/ LeaveBlock \/ \E p \in puts : SaveCheckpoint(p)
    BY <2>2 DEF Resume, RefuseWrites, LeaveBlock, SaveCheckpoint, SaveBody, ghosts
  <2>3. CASE InvokeWithInput \/ AfterTick
    BY <2>3 DEF InvokeWithInput, AfterTick, PutCheckpoint
  <2>4. CASE UpdatePut
    BY <2>4 DEF UpdatePut
  <2> QED BY <2>1, <2>2, <2>3, <2>4, StepIs
<1> QED BY <1>1, <1>2, <1>3

LEMMA DueStays ==
  ASSUME SnapshotInv, [Next]_vars PROVE \A i, n : DueAt(i, n) => DueAt(i, n)'
BY TakenGrows DEF DueAt

\* Only the nodes due at the checkpoint in hand are run there, and so complete, fail
\* or leave writes there; update_state leaves those of a node due at the newest.
LEMMA PendingInductive ==
  ASSUME SnapshotInv, ListedInv, PendingInv, LoopInv', [Next]_vars PROVE PendingInv'
<1> USE DEF SnapshotInv
<1>1. \A i, n : DueAt(i, n) => DueAt(i, n)'
  BY DueStays
<1>2. ASSUME UNCHANGED <<pwrites, wputs>> \/ (UNCHANGED pwrites /\ wputs' = {}), ~ InHand'
      PROVE  PendingInv'
  BY <1>1, <1>2 DEF PendingInv
<1>3. ASSUME UNCHANGED <<pwrites, wputs>>, running' = running, writes' = writes,
             InHand' => InHand, cp'.id = cp.id
      PROVE  PendingInv'
  BY <1>1, <1>3 DEF PendingInv
<1>4. ASSUME UNCHANGED <<pwrites, wputs>>, running' = Idle, writes' = NoTasks
      PROVE  PendingInv'
  BY <1>1, <1>4 DEF PendingInv, Idle, NoTasks
<1>5. CASE InvokeWithInput
  BY <1>4, <1>5 DEF InvokeWithInput, Begin, store
<1>6. CASE AfterTick
  BY <1>4, <1>6 DEF AfterTick, AllWritten, store
<1>7. CASE UpdatePut \/ Return \/ Crash
  BY <1>2, <1>7 DEF UpdatePut, Return, Crash, Gone, store, background, InHand
<1>8. CASE OutOfSteps \/ Done \/ StopBefore \/ Tick \/ Panic \/ AwaitSave
  BY <1>3, <1>8 DEF OutOfSteps, Done, StopBefore, Tick, Panic, Leave, AwaitSave, InHand,
                    store, background
<1>9. CASE RefuseWrites
  <2>1. cp'.id = cp.id
    BY <1>9 DEF RefuseWrites, LoopInv, HeadInv
  <2> QED BY <1>3, <1>9, <2>1 DEF RefuseWrites, AllWritten, InHand, store
<1>10. CASE Resume
  <2>1. /\ UNCHANGED <<pwrites, wputs>> /\ running' = Idle /\ cp'.id = NewestId
        /\ writes' = PendingWrites(NewestId)
    BY <1>10 DEF Resume, Begin, store, background
  <2>2. \A n \in Nodes : running'[n] > 0 \/ writes'[n] # {} => <<cp'.id, n>> \in DOMAIN pwrites
    BY <2>1 DEF Idle, PendingWrites
  <2> QED BY <1>1, <2>1, <2>2 DEF PendingInv
<1>11. CASE LeaveBlock
  <2>1. /\ pc = "leave" /\ wputs' = wputs \cup PendingSaves
        /\ UNCHANGED <<cp, running, writes, pwrites>>
    BY <1>11 DEF LeaveBlock, store
  <2>2. \A w \in PendingSaves : DueAt(w.id, w.node)
    BY <2>1 DEF PendingSaves, PendingInv, InHand
  <2> QED BY <1>1, <2>1, <2>2 DEF PendingInv, InHand
<1>12. ASSUME NEW n \in Nodes, StartTask(n) \/ RetryTask(n) PROVE PendingInv'
  <2>1. DueAt(cp.id, n) /\ InHand
    <3>1. CASE StartTask(n)
      <4>1. pc = "run" /\ n \in FullScan(cp.state)
        BY <3>1 DEF StartTask, ListedInv
      <4> QED BY <4>1 DEF TakenInv, Current, DueAt, Snapshot, InHand
    <3>2. CASE RetryTask(n)
      <4>1. running[n] > 0
        BY <3>2, LoopAssumption DEF RetryTask
      <4>2. InHand
        BY <4>1 DEF LoopInv, OffInv, Idle
      <4> QED BY <4>1, <4>2 DEF PendingInv
    <3> QED BY <1>12, <3>1, <3>2
  <2>2. PICK k : Attempt(n, k)
    BY <1>12 DEF StartTask, RetryTask
  <2>3. \A m \in Nodes \ {n} : running'[m] = running[m] /\ writes'[m] = writes[m]
    BY <2>2 DEF Attempt, LoopInv, TypeOK, WritesInv
  <2>4. UNCHANGED <<pc, cp, pwrites, wputs>>
    BY <2>2 DEF Attempt, store, background
  <2> QED BY <1>1, <2>1, <2>3, <2>4 DEF PendingInv, InHand
<1>13. ASSUME NEW n \in Nodes, FinishTask(n) \/ FailTask(n) PROVE PendingInv'
  <2>1. DueAt(cp.id, n) /\ InHand
    <3>1. running[n] > 0
      BY <1>13 DEF FinishTask, FailTask
    <3>2. InHand
      BY <3>1 DEF LoopInv, OffInv, Idle
    <3> QED BY <3>1, <3>2 DEF PendingInv
  <2>2. PICK ws : Commit(n, ws)
    BY <1>13 DEF FinishTask, FailTask
  <2>3. \A m \in Nodes \ {n} : running'[m] = running[m] /\ writes'[m] = writes[m]
    BY <2>2 DEF Commit, LoopInv, TypeOK, WritesInv
  <2>4. /\ UNCHANGED <<pc, cp, pwrites>>
        /\ \A w \in wputs' : w \in wputs \/ (w.id = cp.id /\ w.node = n)
    BY <2>2 DEF Commit, store
  <2> QED BY <1>1, <2>1, <2>3, <2>4 DEF PendingInv, InHand
<1>14. ASSUME NEW n \in Nodes, UpdateWrites(n) PROVE PendingInv'
  <2>1. PICK route \in Routes[n] :
           IF route # {} /\ DOMAIN saved # {} /\ n \in FullScan(NewestState)
           THEN PutWrites(<<NewestId, n>>, Write(route, 0)) ELSE UNCHANGED pwrites
    BY <1>14 DEF UpdateWrites
  <2>2. ~ InHand' /\ UNCHANGED wputs
    BY <1>14 DEF UpdateWrites, background, InHand
  <2>3. \A key \in DOMAIN pwrites' : key \in DOMAIN pwrites \/ (key = <<NewestId, n>> /\ DueAt(NewestId, n))
    <3>1. CASE UNCHANGED pwrites
      BY <3>1
    <3>2. CASE /\ DOMAIN saved # {} /\ n \in FullScan(NewestState)
               /\ PutWrites(<<NewestId, n>>, Write(route, 0))
      <4>1. DOMAIN pwrites' = DOMAIN pwrites \cup {<<NewestId, n>>}
        BY <3>2 DEF PutWrites, With
      <4>2. NewestId \in DOMAIN saved /\ NewestState = SavedState(NewestId)
        BY <3>2, NewestIsGood
      <4>3. NewestId \in DOMAIN taken /\ taken[NewestId] = Snapshot(NewestState)
        BY <4>2 DEF TakenInv
      <4>4. DueAt(NewestId, n)
        BY <3>2, <4>3 DEF DueAt, Snapshot
      <4> QED BY <4>1, <4>4
    <3> QED BY <2>1, <3>1, <3>2
  <2> QED BY <1>1, <2>2, <2>3 DEF PendingInv
<1>15. ASSUME NEW w \in wputs, SaveWrites(w) PROVE PendingInv'
  <2>1. /\ wputs' \subseteq wputs /\ UNCHANGED <<pc, cp, running, writes>>
        /\ PutWrites(<<w.id, w.node>>, w.writes)
    BY <1>15 DEF SaveWrites, process
  <2>2. DOMAIN pwrites' = DOMAIN pwrites \cup {<<w.id, w.node>>} /\ DueAt(w.id, w.node)
    BY <2>1 DEF PutWrites, With, PendingInv
  <2> QED BY <1>1, <2>1, <2>2 DEF PendingInv, InHand
<1>16. ASSUME NEW p \in puts, SaveCheckpoint(p) PROVE PendingInv'
  BY <1>3, <1>16 DEF SaveCheckpoint, SaveBody, process, InHand
<1>17. CASE UNCHANGED vars
  BY <1>3, <1>17 DEF vars, process, background, store, InHand
<1> QED
  BY <1>5, <1>6, <1>7, <1>8, <1>9, <1>10, <1>11, <1>12, <1>13, <1>14, <1>15, <1>16, <1>17,
     StepIs DEF Quiet, Task

\* The writes that wait in the saver at the newest checkpoint are of nodes due there,
\* so that a resume takes them over instead of running those nodes again.
THEOREM PendingWritesAreDue == SavesAreOwn => (Spec => []PendingAreDue)
<1> SUFFICES ASSUME SavesAreOwn PROVE Spec => []PendingAreDue
  OBVIOUS
<1>1. Init => ResumeInv
  <2>1. Init => ListedInv /\ PendingInv
    BY DEF Init, ListedInv, PendingInv, Current, InHand
  <2> QED BY <2>1, SnapshotInit DEF ResumeInv
<1>2. ResumeInv /\ [Next]_vars => ResumeInv'
  <2> SUFFICES ASSUME ResumeInv, [Next]_vars PROVE ResumeInv'
    OBVIOUS
  <2>1. SnapshotInv' /\ ListedInv'
    BY SnapshotInductive, ListedInductive DEF ResumeInv
  <2>2. PendingInv'
    BY <2>1, PendingInductive DEF ResumeInv, SnapshotInv
  <2> QED BY <2>1, <2>2 DEF ResumeInv
<1>3. ResumeInv => PendingAreDue
  <2> SUFFICES ASSUME ResumeInv, NEW n \in Nodes, <<NewestId, n>> \in DOMAIN pwrites
               PROVE  n \in FullScan(NewestState)
    BY DEF PendingAreDue
  <2>1. NewestId \in DOMAIN taken /\ n \in taken[NewestId].due
    BY DEF ResumeInv, PendingInv, DueAt
  <2>2. NewestId \in DOMAIN saved /\ NewestState = SavedState(NewestId)
    <3>1. NewestId \in {0} \cup DOMAIN saved /\ NewestId # 0
      BY <2>1, NewestIsGood DEF ResumeInv, SnapshotInv, TakenInv
    <3> QED BY <3>1, NewestIsGood DEF ResumeInv
  <2>3. taken[NewestId] = Snapshot(NewestState)
    BY <2>2 DEF ResumeInv, SnapshotInv, TakenInv
  <2> QED BY <2>1, <2>3 DEF Snapshot
<1> QED BY <1>1, <1>2, <1>3, PTL DEF Spec

-----------------------------------------------------------------------------
(* What a run leaves with the saver                                        *)

Known == DOMAIN saved \cup PutIds

\* The checkpoint in hand is the newest the saver has, or will have once what is on its
\* way has arrived.
Delivered == cp.id \in Known /\ cp.id \in DOMAIN taken /\ \A i \in Known : i <= cp.id

DeliveredInv == pc = "exit" => Delivered

LEMMA SaveKeepsKnown == ASSUME NEW p \in puts, SaveCheckpoint(p) PROVE Known' = Known
<1>1. puts' = puts \ {p} /\ DOMAIN saved' = DOMAIN saved \cup {p.id}
  BY DEF SaveCheckpoint, SaveBody, Put, With
<1>2. PutIds = PutIds' \cup {p.id}
  BY <1>1 DEF PutIds
<1> QED BY <1>1, <1>2 DEF Known

\* Leaving the block with durability "exit" hands over the checkpoint in hand.
LEMMA LeaveDelivers ==
  ASSUME SnapshotInv, LeaveBlock
  PROVE  Delivered' /\ \A p \in puts' : p.id = cp'.id
<1> USE DEF SnapshotInv
<1>1. /\ pc = "leave" /\ UNCHANGED <<cp, saved, taken>>
      /\ puts' = puts \cup IF cp.id = NewestId THEN {}
                           ELSE {Submission(cp, NewestId, NewestState, upd)}
  BY DEF LeaveBlock, store, ghosts
<1>2. Durability = "exit" /\ puts = {} /\ Current
  BY <1>1 DEF LoopInv, ExitInv, InHand, Current
<1>3. /\ \A i \in DOMAIN saved : i <= cp.id
      /\ cp.id \in DOMAIN taken /\ cp.id \in 1 .. lastId
  BY <1>2 DEF LineInv, TakenInv
<1>4. NewestId \in {0} \cup DOMAIN saved
  BY NewestIsGood
<1>5. CASE cp.id = NewestId
  <2>1. puts' = {}
    BY <1>1, <1>2, <1>5
  <2> QED BY <1>1, <1>3, <1>4, <1>5, <2>1 DEF Delivered, Known, PutIds
<1>6. CASE cp.id # NewestId
  <2>1. \A q \in puts' : q.id = cp.id
    BY <1>1, <1>2, <1>6, SubmissionShape
  <2>2. PutIds' = {cp.id}
    <3>1. puts' # {}
      BY <1>1, <1>6
    <3> QED BY <2>1, <3>1 DEF PutIds
  <2>3. cp.id <= cp.id
    BY <1>3
  <2> QED BY <1>1, <1>3, <2>1, <2>2, <2>3 DEF Delivered, Known
<1> QED BY <1>5, <1>6

\* A run that is over has left its last checkpoint with the saver.
LEMMA DeliveredInductive ==
  ASSUME SavesAreOwn, SnapshotInv, DeliveredInv, [Next]_vars PROVE DeliveredInv'
<1> USE DEF SnapshotInv
<1>1. LoopInv'
  BY LoopInductive
<1> SUFFICES ASSUME pc' = "exit" PROVE Delivered'
  BY DEF DeliveredInv
<1>2. CASE pc = "exit"
  <2>1. \/ \E p \in puts : SaveCheckpoint(p)
        \/ UNCHANGED <<cp, taken, saved, puts>>
    BY <1>2, StepIs DEF InvokeWithInput, Resume, Begin, AfterTick, RefuseWrites, AllWritten,
       LeaveBlock, UpdatePut, Quiet, OutOfSteps, Done, StopBefore, Tick, Panic, AwaitSave, Leave,
       Return, Crash, Gone, Task, StartTask, RetryTask, FinishTask, FailTask, Attempt, Commit,
       UpdateWrites, SaveWrites, vars, process, background, store, ghosts
  <2>2. CASE \E p \in puts : SaveCheckpoint(p)
    <3>1. UNCHANGED <<cp, taken, Known>>
      BY <2>2, SaveKeepsKnown DEF SaveCheckpoint, SaveBody, process, ghosts
    <3> QED BY <1>2, <3>1 DEF DeliveredInv, Delivered
  <2>3. CASE UNCHANGED <<cp, taken, saved, puts>>
    BY <1>2, <2>3 DEF DeliveredInv, Delivered, Known, PutIds
  <2> QED BY <2>1, <2>2, <2>3
<1>3. CASE LeaveBlock
  BY <1>3, LeaveDelivers
<1>4. CASE AfterTick
  <2>1. PICK k : /\ cp'.id = lastId + 1 /\ cp'.state = k /\ lastId' = lastId + 1
                 /\ taken' = With(taken, lastId + 1, Snapshot(k))
    BY <1>4 DEF AfterTick, PutCheckpoint
  <2>2. Durability # "exit"
    BY <1>4 DEF AfterTick, WayOut
  <2>3. cp'.id \in Known'
    BY <1>1, <2>2 DEF LoopInv, HeadInv, InHand, Known
  <2>4. /\ DOMAIN saved' \subseteq 1 .. lastId'
        /\ \A p \in puts' : p.id \in 1 .. lastId'
    BY <1>1 DEF LoopInv, TypeOK, PutsInv, GoodPut
  <2>5. \A i \in Known' : i <= cp'.id
    BY <2>1, <2>4 DEF Known, PutIds
  <2>6. cp'.id \in DOMAIN taken'
    BY <2>1 DEF With
  <2> QED BY <2>3, <2>5, <2>6 DEF Delivered
<1>5. CASE OutOfSteps \/ Done \/ StopBefore \/ Panic \/ RefuseWrites
  <2>1. /\ Current /\ Durability # "exit" /\ UNCHANGED <<taken, saved, puts>> /\ cp'.id = cp.id
    <3>1. CASE OutOfSteps \/ Done \/ StopBefore \/ Panic
      BY <3>1 DEF OutOfSteps, Done, StopBefore, Panic, Leave, WayOut, Current, background, store,
         ghosts
    <3>2. CASE RefuseWrites
      BY <1>1, <3>2, RefuseTakes
      DEF RefuseWrites, AllWritten, WayOut, Current, store, ghosts, LoopInv, HeadInv
    <3> QED BY <1>5, <3>1, <3>2
  <2>2. cp.id \in Known
    BY <2>1 DEF LoopInv, HeadInv, InHand, Current, Known
  <2>3. (\A i \in Known : i <= cp.id) /\ cp.id \in DOMAIN taken
    BY <2>1 DEF LineInv, TakenInv, Known, PutIds
  <2> QED BY <2>1, <2>2, <2>3 DEF Delivered, Known, PutIds
<1>6. CASE pc # "exit" /\ ~ LeaveBlock /\ ~ AfterTick
           /\ ~ (OutOfSteps \/ Done \/ StopBefore \/ Panic \/ RefuseWrites)
  BY <1>6, StepIs DEF InvokeWithInput, Resume, Begin, UpdatePut, Quiet, Tick, AwaitSave,
     Return, Crash, Gone, Task, StartTask, RetryTask, FinishTask, FailTask, Attempt, Commit,
     UpdateWrites, SaveCheckpoint, SaveBody, SaveWrites, vars, process
<1> QED BY <1>2, <1>3, <1>4, <1>5, <1>6

NoCrashLeft == ~ (budget.crashes > 0)

\* A process that may not crash does not.
LEMMA NoCrashInductive ==
  ASSUME ShareInv, NoCrashLeft, [Next]_vars PROVE NoCrashLeft' /\ ~ Crash
<1>1. budget \in [inputs : Int, resumes : Int, updates : Int, failures : Int, crashes : Int]
  BY DEF ShareInv
<1>2. ~ Crash
  BY DEF Crash, NoCrashLeft
<1>3. budget'.crashes = budget.crashes
  <2>1. \/ budget' = budget
        \/ budget' = [budget EXCEPT !.inputs = @ - 1]
        \/ budget' = [budget EXCEPT !.resumes = @ - 1]
        \/ budget' = [budget EXCEPT !.updates = @ - 1]
        \/ budget' = [budget EXCEPT !.failures = @ - 1]
    BY <1>2 DEF Next, Loop, InvokeWithInput, Resume, OutOfSteps, Done, StopBefore, Tick, Panic,
       RefuseWrites, AfterTick, AwaitSave, Leave, LeaveBlock, Return, UpdateWrites, UpdatePut, Task,
       StartTask, RetryTask, FinishTask, FailTask, Attempt, SaveCheckpoint, SaveBody, SaveWrites, vars
  <2> QED BY <1>1, <2>1
<1> QED BY <1>2, <1>3 DEF NoCrashLeft

-----------------------------------------------------------------------------
(* Interrupts before a node                                                *)

\* A resume has seen no version a channel does not have.
SeenI(k) == \A c \in Channels : k.seenI[c] \in Nat /\ k.seenI[c] <= k.ver[c]

SeenInv ==
    /\ \A id \in DOMAIN saved : SeenI(saved[id])
    /\ \A p \in puts : SeenI(p.state)
    /\ Current => SeenI(cp.state)

Newer(k) == \E c \in Channels : k.ver[c] > k.seenI[c]

\* No node that is due at the checkpoint in hand is to be interrupted before, or the
\* invocation resumed at it.
MayPass == FullScan(cp.state) \cap InterruptBefore = {} \/ cp.id = resumed

\* Until tick has decided about the interrupt, something is new since the last resume
\* wherever an interrupt is needed; tasks run only where none is.
StopInv ==
    /\ pc \in {"tick", "wait"} => Newer(cp.state) \/ MayPass
    /\ pc = "run" => MayPass

PassInv == SnapshotInv /\ ListedInv /\ SeenInv /\ StopInv

\* A superstep, or an update, takes no version back and has seen none.
LEMMA ApplySeen ==
  ASSUME NEW id \in Nat, NEW k, GoodState(k, id), SeenI(k), NEW ts, NEW received
  PROVE  LET new == Apply(k, ts, received)
         IN  /\ SeenI(new)
             /\ \A c \in Changed(k, ts, received) \cap Channels : new.ver[c] > new.seenI[c]
<1> DEFINE new == Apply(k, ts, received)
           moved == Changed(k, ts, received)
<1>1. /\ new.seenI = k.seenI
      /\ new.ver = [c \in Channels |-> IF c \in moved THEN MaxVersion(k.ver) + 1 ELSE k.ver[c]]
  BY DEF Apply, NewState, Changed
<1>2. MaxVersion(k.ver) \in 0 .. id /\ \A c \in Channels : k.ver[c] <= MaxVersion(k.ver)
  BY MaxVersionOf DEF GoodState
<1>3. \A c \in Channels : /\ k.ver[c] \in Nat /\ k.seenI[c] \in Nat
                          /\ k.seenI[c] <= k.ver[c]
  BY DEF GoodState, SeenI
<1> HIDE DEF new, moved
<1>4. ASSUME NEW c \in Channels
      PROVE  /\ new.seenI[c] \in Nat /\ new.seenI[c] <= new.ver[c]
             /\ c \in moved => new.ver[c] > new.seenI[c]
  <2>1. new.ver[c] = IF c \in moved THEN MaxVersion(k.ver) + 1 ELSE k.ver[c]
    BY <1>1
  <2> QED BY <1>1, <1>2, <1>3, <2>1
<1>5. SeenI(new) /\ \A c \in moved \cap Channels : new.ver[c] > new.seenI[c]
  BY <1>4 DEF SeenI
<1> QED BY <1>5 DEF new, moved

\* Whoever is due after a superstep is so because of a channel that moved.
LEMMA DueIsNewer ==
  ASSUME NEW id \in Nat, NEW k, GoodState(k, id), SeenI(k), NEW received,
         FullScan(Apply(k, FullScan(k), received)) # {}
  PROVE  Newer(Apply(k, FullScan(k), received))
<1>1. PICK n \in FullScan(Apply(k, FullScan(k), received)) : TRUE
  OBVIOUS
<1>2. PICK c \in Triggers[n] : c \in Changed(k, FullScan(k), received)
  BY <1>1, DueByStep
<1>3. c \in Channels
  BY <1>1, <1>2, GraphAssumption DEF FullScan
<1>4. Apply(k, FullScan(k), received).ver[c] > Apply(k, FullScan(k), received).seenI[c]
  BY <1>2, <1>3, ApplySeen
<1> QED BY <1>3, <1>4 DEF Newer

LEMMA NewestSeen == ASSUME SnapshotInv, SeenInv PROVE SeenI(NewestState)
<1>1. CASE DOMAIN saved = {}
  BY <1>1 DEF NewestState, EmptyState, Unwritten, SeenI
<1>2. CASE DOMAIN saved # {}
  <2>1. NewestId \in DOMAIN saved
    BY <1>2, NewestIsGood
  <2>2. NewestState.ver = saved[NewestId].ver /\ NewestState.seenI = saved[NewestId].seenI
    BY <1>2 DEF NewestState, SavedState
  <2> QED BY <2>1, <2>2 DEF SeenInv, SeenI
<1> QED BY <1>1, <1>2

\* What is put in the saver has seen what its submission has.
LEMMA PutSeen ==
  ASSUME NEW p, Put(p), SeenI(p.state), \A id \in DOMAIN saved : SeenI(saved[id])
  PROVE  \A id \in DOMAIN saved' : SeenI(saved'[id])
<1>1. saved' = With(saved, p.id,
               [parent |-> p.parent, step |-> p.step, src |-> p.src, upd |-> p.upd,
                ver |-> p.state.ver, seen |-> p.state.seen, seenI |-> p.state.seenI])
  BY DEF Put
<1>2. saved'[p.id].ver = p.state.ver /\ saved'[p.id].seenI = p.state.seenI
  BY <1>1 DEF With
<1>3. \A id \in DOMAIN saved' : id = p.id \/ (id \in DOMAIN saved /\ saved'[id] = saved[id])
  BY <1>1 DEF With
<1>4. SeenI(saved'[p.id])
  BY <1>2 DEF SeenI
<1> QED BY <1>3, <1>4

LEMMA SeenInductive ==
  ASSUME SavesAreOwn, SnapshotInv, SeenInv, [Next]_vars PROVE SeenInv'
<1> USE DEF SnapshotInv
<1>1. LoopInv'
  BY LoopInductive
<1>2. ASSUME UNCHANGED saved, puts' \in SUBSET puts, Current' => Current /\ cp' = cp
      PROVE  SeenInv'
  BY <1>2 DEF SeenInv, SeenI
<1>3. CASE Quiet
  BY <1>2, <1>3 DEF Quiet, OutOfSteps, Done, StopBefore, Panic, Leave, WayOut, Tick, AwaitSave,
     Return, Crash, Gone, Task, StartTask, RetryTask, FinishTask, FailTask, Attempt, Commit,
     UpdateWrites, SaveWrites, vars, process, store, background, Current
<1>4. CASE RefuseWrites
  BY <1>1, <1>2, <1>4, RefuseTakes DEF RefuseWrites, store
<1>5. ASSUME UNCHANGED saved, SeenI(cp'.state),
             \A p \in puts' : p \in puts \/ p.state = cp'.state
      PROVE  SeenInv'
  BY <1>5 DEF SeenInv, SeenI
<1>6. CASE InvokeWithInput
  <2>1. UNCHANGED saved /\ cp'.state = Apply(NewestState, FullScan(NewestState), FromInput(NewestId))
    BY <1>6 DEF InvokeWithInput, PutCheckpoint, store
  <2>2. NewestId \in Nat /\ GoodState(NewestState, NewestId) /\ SeenI(NewestState)
    BY NewestIsGood, NewestSeen
  <2>3. SeenI(cp'.state)
    BY <2>1, <2>2, ApplySeen
  <2>4. \A p \in puts' : p \in puts \/ p.state = cp'.state
    BY <1>1, <1>6, InvokeTakes
  <2> QED BY <1>5, <2>1, <2>3, <2>4
<1>7. CASE AfterTick
  <2>1. /\ UNCHANGED saved /\ pc = "run"
        /\ cp'.state = Apply(cp.state, tasks, Received(tasks, writes, cp.id))
    BY <1>7 DEF AfterTick, AllWritten, PutCheckpoint, store
  <2>2. cp.id \in Nat /\ GoodState(cp.state, cp.id) /\ SeenI(cp.state)
    BY <2>1 DEF LoopInv, TypeOK, PutsInv, StatesInv, SeenInv, Current
  <2>3. SeenI(cp'.state)
    BY <2>1, <2>2, ApplySeen
  <2>4. \A p \in puts' : p \in puts \/ p.state = cp'.state
    BY <1>1, <1>7, AfterTickTakes
  <2> QED BY <1>5, <2>1, <2>3, <2>4
<1>8. CASE Resume
  <2>1. UNCHANGED <<saved, puts>> /\ cp'.state = [NewestState EXCEPT !.seenI = NewestState.ver]
    BY <1>8 DEF Resume, store, background
  <2>2. IsState(NewestState) /\ \A c \in Channels : NewestState.ver[c] \in Nat
    BY NewestIsGood DEF GoodState
  <2>3. cp'.state.ver = NewestState.ver /\ cp'.state.seenI = NewestState.ver
    BY <2>1, <2>2 DEF IsState
  <2>4. SeenI(cp'.state)
    BY <2>2, <2>3 DEF SeenI
  <2> QED BY <1>5, <2>1, <2>4
<1>9. CASE LeaveBlock
  <2>1. UNCHANGED saved /\ ~ Current' /\ SeenI(cp.state)
    BY <1>1, <1>9, LeaveBlockTakes DEF LeaveBlock, store, Current, SeenInv
  <2>2. \A p \in puts' : p.state = cp.state
    BY <1>1, <1>9, LeaveBlockTakes
  <2> QED BY <2>1, <2>2 DEF SeenInv, SeenI
<1>10. ASSUME NEW p \in puts, SaveCheckpoint(p) PROVE SeenInv'
  <2>1. Put(p) /\ puts' \subseteq puts /\ UNCHANGED <<pc, cp>>
    BY <1>10 DEF SaveCheckpoint, SaveBody, process
  <2>2. \A id \in DOMAIN saved' : SeenI(saved'[id])
    BY <2>1, PutSeen DEF SeenInv
  <2> QED BY <2>1, <2>2 DEF SeenInv, SeenI, Current
<1>11. CASE UpdatePut
  <2>1. PICK n, st :
          LET k == Apply(NewestState, {AsNode}, Received({n}, writes, NewestId))
          IN  Put(Submission([id |-> lastId + 1, step |-> st, src |-> "update",
                              state |-> k], NewestId, NewestState, {}))
    BY <1>11 DEF UpdatePut
  <2> DEFINE k == Apply(NewestState, {AsNode}, Received({n}, writes, NewestId))
             p == Submission([id |-> lastId + 1, step |-> st, src |-> "update",
                              state |-> k], NewestId, NewestState, {})
  <2>2. NewestId \in Nat /\ GoodState(NewestState, NewestId) /\ SeenI(NewestState)
    BY NewestIsGood, NewestSeen
  <2>3. p.state = k
    BY DEF Submission
  <2>4. Put(p)
    BY <2>1
  <2>5. SeenI(k)
    BY <2>2, ApplySeen
  <2> HIDE DEF k, p
  <2>6. \A id \in DOMAIN saved' : SeenI(saved'[id])
    BY <2>3, <2>4, <2>5, PutSeen DEF SeenInv
  <2>7. puts' = {} /\ ~ Current'
    BY <1>1, <1>11, UpdatePutTakes
  <2> QED BY <2>6, <2>7 DEF SeenInv, SeenI
<1> QED
  BY <1>3, <1>4, <1>6, <1>7, <1>8, <1>9, <1>10, <1>11, StepIs

\* What is not the start of a tick, a step or an invocation leaves the checkpoint in
\* hand, and so what is due there.
LEMMA StopKept ==
  ASSUME StopInv, UNCHANGED <<cp, resumed>>,
         pc' \in {"tick", "wait"} => pc \in {"tick", "wait"}, pc' = "run" => pc = "run"
  PROVE  StopInv'
BY DEF StopInv, MayPass, Newer, FullScan, Triggered

\* tick goes on to run tasks only where the interrupt is not needed.
LEMMA TickStops == ASSUME SnapshotInv, ListedInv, StopInv, Tick PROVE StopInv'
<1> USE DEF SnapshotInv
<1>1. pc = "tick" /\ pc' = "run" /\ UNCHANGED <<cp, resumed>>
  BY DEF Tick, ghosts
<1>2. GoodState(cp.state, cp.id) /\ Listed(cp.state, upd) /\ cp.id \in Nat
  BY <1>1 DEF Current, StatesInv, ListedInv, LoopInv, PutsInv, TypeOK
<1>3. Due = FullScan(cp.state)
  BY <1>2, ListedIsEnough DEF Due
<1>4. Newer(cp.state) \/ MayPass
  BY <1>1 DEF StopInv
<1>5. MayPass
  BY <1>3, <1>4 DEF Tick, ShouldInterrupt, Newer, MayPass
<1> QED BY <1>1, <1>5 DEF StopInv, MayPass, FullScan, Triggered

\* A superstep, or an input, that makes a node due moves a channel.
LEMMA StepIsNew ==
  ASSUME NEW id \in Nat, NEW k, NEW received, GoodState(k, id), SeenI(k),
         cp'.state = Apply(k, FullScan(k), received), pc' # "run"
  PROVE  StopInv'
<1>1. CASE FullScan(cp'.state) = {}
  BY <1>1 DEF StopInv, MayPass, FullScan, Triggered
<1>2. CASE FullScan(cp'.state) # {}
  <2>1. Newer(cp'.state)
    BY <1>2, DueIsNewer
  <2> QED BY <2>1 DEF StopInv, Newer
<1> QED BY <1>1, <1>2

LEMMA StopInductive == ASSUME SavesAreOwn, PassInv, [Next]_vars PROVE StopInv'
<1> USE DEF PassInv, SnapshotInv
<1>1. LoopInv'
  BY LoopInductive
<1>2. CASE Tick
  BY <1>2, TickStops
<1>3. CASE InvokeWithInput
  <2>1. /\ pc' = "tick"
        /\ cp'.state = Apply(NewestState, FullScan(NewestState), FromInput(NewestId))
    BY <1>3 DEF InvokeWithInput, Begin, PutCheckpoint
  <2>2. NewestId \in Nat /\ GoodState(NewestState, NewestId) /\ SeenI(NewestState)
    BY NewestIsGood, NewestSeen
  <2> QED BY <2>1, <2>2, StepIsNew
<1>4. CASE AfterTick
  <2>1. /\ pc = "run" /\ tasks = FullScan(cp.state)
        /\ cp'.state = Apply(cp.state, tasks, Received(tasks, writes, cp.id))
    BY <1>4 DEF AfterTick, AllWritten, PutCheckpoint, ListedInv
  <2>2. pc' # "run"
    BY <1>4 DEF AfterTick, WayOut
  <2>3. cp.id \in Nat /\ GoodState(cp.state, cp.id) /\ SeenI(cp.state)
    BY <2>1 DEF LoopInv, TypeOK, PutsInv, StatesInv, SeenInv, Current
  <2> QED BY <2>1, <2>2, <2>3, StepIsNew
<1>5. CASE Resume
  <2>1. pc' = "tick" /\ cp'.id = NewestId /\ resumed' = NewestId
    BY <1>5 DEF Resume, Begin
  <2> QED BY <2>1 DEF StopInv, MayPass
<1>6. ASSUME pc' \notin {"tick", "wait", "run"} PROVE StopInv'
  BY <1>6 DEF StopInv
<1>7. CASE \/ OutOfSteps \/ Done \/ StopBefore \/ Panic \/ RefuseWrites \/ LeaveBlock
           \/ Return \/ Crash \/ UpdatePut \/ \E n \in Nodes : UpdateWrites(n)
  BY <1>6, <1>7 DEF OutOfSteps, Done, StopBefore, Panic, RefuseWrites, LeaveBlock, Return, Crash,
     UpdatePut, UpdateWrites, Leave, WayOut, Gone
<1>8. CASE \/ AwaitSave \/ UNCHANGED vars \/ (\E w \in wputs : SaveWrites(w))
           \/ (\E n \in Nodes : Task(n)) \/ (\E p \in puts : SaveCheckpoint(p))
  <2>1. CASE AwaitSave \/ UNCHANGED vars
    BY <2>1, StopKept DEF AwaitSave, vars, process, ghosts
  <2>2. ASSUME NEW w \in wputs, SaveWrites(w) PROVE StopInv'
    BY <2>2, StopKept DEF SaveWrites, process, ghosts
  <2>3. ASSUME NEW p \in puts, SaveCheckpoint(p) PROVE StopInv'
    BY <2>3, StopKept DEF SaveCheckpoint, SaveBody, process, ghosts
  <2>4. ASSUME NEW n \in Nodes, Task(n) PROVE StopInv'
    <3>1. UNCHANGED <<pc, cp, resumed>>
      BY <2>4 DEF Task, StartTask, RetryTask, FinishTask, FailTask, Attempt, Commit, ghosts
    <3> QED BY <3>1, StopKept
  <2> QED BY <1>8, <2>1, <2>2, <2>3, <2>4
<1> QED
  BY <1>2, <1>3, <1>4, <1>5, <1>7, <1>8 DEF Next, Loop

\* No invocation goes on into a node of interrupt_before, although tick asks only whether
\* any channel has changed since the last resume: whatever the inputs, updates, failures,
\* crashes and stops before, such a node runs only in an invocation that resumed at the
\* checkpoint the node is due at.
THEOREM InterruptsStopRuns == SavesAreOwn => (Spec => InterruptStops)
<1> SUFFICES ASSUME SavesAreOwn PROVE Spec => InterruptStops
  OBVIOUS
<1> DEFINE Stopped == \A n \in InterruptBefore :
                         (running[n] = 0 /\ running'[n] = 1) => cp.id = resumed
<1>1. Init => PassInv
  <2> SUFFICES ASSUME Init PROVE PassInv
    OBVIOUS
  <2>1. SnapshotInv
    BY SnapshotInit
  <2>2. ListedInv /\ SeenInv /\ StopInv
    BY DEF Init, ListedInv, SeenInv, StopInv, Current
  <2> QED BY <2>1, <2>2 DEF PassInv
<1>2. PassInv /\ [Next]_vars => PassInv'
  <2> SUFFICES ASSUME PassInv, [Next]_vars PROVE PassInv'
    OBVIOUS
  <2>1. SnapshotInv /\ ListedInv /\ SeenInv /\ ShareInv
    BY DEF PassInv, SnapshotInv
  <2>2. SnapshotInv' /\ ListedInv' /\ SeenInv'
    BY <2>1, SnapshotInductive, ListedInductive, SeenInductive
  <2>3. StopInv'
    BY StopInductive
  <2> QED BY <2>2, <2>3 DEF PassInv
<1>3. PassInv /\ [Next]_vars => [Stopped]_vars
  <2> SUFFICES ASSUME PassInv, [Next]_vars, NEW n \in InterruptBefore, running[n] = 0, running'[n] = 1
               PROVE  cp.id = resumed
    OBVIOUS
  <2>1. n \in Nodes /\ StartTask(n)
    BY LoopAssumption, StartsByStartTask DEF PassInv, SnapshotInv
  <2>2. pc = "run" /\ n \in FullScan(cp.state)
    BY <2>1 DEF StartTask, PassInv, ListedInv
  <2> QED BY <2>2 DEF PassInv, StopInv, MayPass
<1> HIDE DEF PassInv
<1> QED BY <1>1, <1>2, <1>3, PTL DEF Spec, InterruptStops

-----------------------------------------------------------------------------
(* PregelLoop implements Supersteps, for every graph: what the saver shows   *)
(* of a thread moves by whole supersteps only, each of every node that was   *)
(* due and of one completed attempt of each, whatever is saved when, and     *)
(* whatever fails, is retried, crashes or is resumed on the way.             *)

\* What the theorems need of a graph and its settings, besides what SavedIsSnapshot
\* does: no node raises after it wrote something (Partials: such writes count as a
\* result when the run is resumed), and nobody calls update_state (which may add to
\* the writes of a finished task).
OwnSteps ==
    /\ SavesAreOwn /\ MaxUpdates = 0
    /\ \A n \in Nodes : Partials[n] \subseteq {{}}

\* Every superstep is submitted to the saver.
WholeSteps == OwnSteps /\ Durability # "exit"

\* How often a node may be attempted at one checkpoint.
MostTries == MaxFailures + MaxResumes + 1

-----------------------------------------------------------------------------
(* The inductive invariant                                                 *)

\* The values of checkpoint "id" were written at older ones, and no node has seen
\* a version a channel does not have.
OldTags(k, id) ==
    \A c \in Channels : /\ \A t \in k.val[c] : t.at \in Nat /\ t.at < id
                        /\ \A n \in Nodes : k.seen[n][c] <= k.ver[c]

AgeInv ==
    /\ \A id \in DOMAIN saved : OldTags(SavedState(id), id)
    /\ \A p \in puts : OldTags(p.state, p.id)
    /\ Current => OldTags(cp.state, cp.id)

\* What is left of the bounds covers the attempts still to come.
Startable(n) == InHand /\ writes[n] = {} /\ running[n] = 0

TriesInv ==
    /\ tries \in [Nodes -> Nat]
    /\ budget.resumes \in 0 .. MaxResumes /\ budget.failures \in 0 .. MaxFailures
    /\ budget.updates = 0 /\ pc # "update"
    /\ \A n \in Nodes :
         tries[n] + budget.resumes + budget.failures + (IF Startable(n) THEN 1 ELSE 0)
            <= MostTries

\* Writes that count are those of one completed attempt.
Whole(n, ws) ==
    \/ Matched(ws) = {}
    \/ \E route \in Routes[n], try \in 0 .. MostTries :
          Matched(ws) = Committed(Write(route, try))

WholeInv ==
    /\ \A key \in DOMAIN pwrites : Whole(key[2], pwrites[key])
    /\ \A w \in wputs : Whole(w.node, w.writes)
    /\ InHand => \A n \in Nodes : /\ Whole(n, writes[n])
                                  /\ Error \in Chans(writes[n]) => n \in failed
    /\ pc = "run" => tasks # {}

\* A node that has a result at a checkpoint, saved, on its way or in hand, gets no
\* other (with durability "exit" the one a resume loaded is sent again).
Saved(id, n) == <<id, n>> \in DOMAIN pwrites /\ Matched(pwrites[<<id, n>>]) # {}
Sent(w, id, n) == w \in wputs /\ w.id = id /\ w.node = n /\ Matched(w.writes) # {}

OnceInv ==
    /\ InHand => \A n \in Nodes :
         /\ Saved(cp.id, n) =>
              running[n] = 0 /\ Matched(writes[n]) = Matched(pwrites[<<cp.id, n>>])
         /\ \A w \in wputs : Sent(w, cp.id, n) =>
              running[n] = 0 /\ Matched(writes[n]) = Matched(w.writes)
    /\ \A w \in wputs : Sent(w, w.id, w.node) /\ Saved(w.id, w.node)
         => Matched(pwrites[<<w.id, w.node>>]) = Matched(w.writes)
    /\ \A v, w \in wputs : Sent(v, w.id, w.node) /\ Sent(w, w.id, w.node)
         => Matched(v.writes) = Matched(w.writes)

\* What the tasks of "due" nodes send at checkpoint "id", each by one of its routes.
FromRoutes(due, id, received) ==
    \E route \in [due -> UNION {Routes[n] : n \in due}], try \in [due -> 0 .. MostTries] :
        /\ \A n \in due : route[n] \in Routes[n]
        /\ received = [c \in Channels |->
                          {[node |-> n, at |-> id, try |-> try[n]] :
                              n \in {m \in due : c \in route[m]}}]

\* "to" is what a superstep, or a new input, makes of "from", taken at checkpoint "id".
Leads(from, id, to) ==
    \E received :
        /\ received = FromInput(id) \/ (from.due # {} /\ FromRoutes(from.due, id, received))
        /\ ~Conflict(received)
        /\ to.val = Settled(from, from.due, received)
        /\ to.due = {n \in Nodes : \E c \in Triggers[n] :
                        /\ received[c] # {} /\ to.val[c] # from.val[c]
                        /\ Available(to.val, c)}

Origin(id) == IF id = 0 THEN Snapshot(EmptyState) ELSE taken[id]

\* The saves that wait form a chain on top of the newest checkpoint, of one superstep
\* or input a link.
ChainInv ==
    \A p \in puts :
        /\ \A i \in DOMAIN saved : i <= p.parent
        /\ \A q \in puts : q.id < p.id => q.id <= p.parent
        /\ Leads(Origin(p.parent), p.parent, taken[p.id])

StepsInv == AgeInv /\ TriesInv /\ WholeInv /\ OnceInv /\ ChainInv

-----------------------------------------------------------------------------
(* Facts about the operators                                               *)

\* Writes tagged with the id of the checkpoint they were made at.
MadeAt(received, id) == \A c \in Channels : \A t \in received[c] : t.at = id

\* A channel holds what it held or was given; and holds something new once it has
\* been written to, unless it is a barrier that is neither full nor changed.
LEMMA SettledIs ==
  ASSUME NEW id \in Nat, NEW k, OldTags(k, id), NEW ts, NEW received, MadeAt(received, id),
         NEW c \in Channels
  PROVE  /\ Settled(k, ts, received)[c] \subseteq k.val[c] \cup received[c]
         /\ received[c] # {} /\ c \in Changed(k, ts, received)
               => Settled(k, ts, received)[c] # k.val[c]
<1> DEFINE held == IF c \in Consumed(k, ts) THEN {} ELSE k.val[c]
           val == Settled(k, ts, received)
<1>1. received[c] = {} => val[c] \subseteq held
  BY DEF Settled, Written
<1>2. received[c] # {} => val[c] = Updated(c, held, received[c])
  BY DEF Settled, Written
<1>3. /\ Kind[c] \in {"last", "ephemeral"} => Updated(c, held, received[c]) = received[c]
      /\ Kind[c] = "binop" => Updated(c, held, received[c]) = held \cup received[c]
      /\ Kind[c] = "barrier" => Updated(c, held, received[c])
            = held \cup {t \in received[c] : t.node \notin Writers(held)}
      /\ Kind[c] \in {"last", "ephemeral", "binop", "barrier"}
  BY GraphAssumption DEF Updated
<1>4. held \subseteq k.val[c]
  OBVIOUS
<1>5. c \in Consumed(k, ts) => Kind[c] = "barrier" /\ held = {}
  BY DEF Consumed
<1>6. c \in Changed(k, ts, received) =>
         c \in Consumed(k, ts) \/ Kind[c] # "barrier" \/ val[c] # k.val[c]
  BY DEF Changed, Moved
<1>7. \A t \in received[c] : t \notin k.val[c]
  <2>1. id \in Nat /\ (\A t \in k.val[c] : t.at \in Nat /\ t.at < id) /\ (\A t \in received[c] : t.at = id)
    BY DEF OldTags, MadeAt
  <2> QED BY <2>1
<1> HIDE DEF held, val
<1>8. val[c] \subseteq k.val[c] \cup received[c]
  BY <1>1, <1>2, <1>3, <1>4
<1>9. ASSUME received[c] # {}, c \in Changed(k, ts, received) PROVE val[c] # k.val[c]
  <2>1. CASE Kind[c] # "barrier"
    <3>1. received[c] \subseteq val[c]
      BY <1>2, <1>3, <1>9, <2>1
    <3> QED BY <1>7, <1>9, <3>1
  <2>2. CASE c \in Consumed(k, ts)
    <3>1. Writers(held) = {}
      BY <1>5, <2>2 DEF Writers
    <3>2. val[c] = received[c]
      BY <1>2, <1>3, <1>5, <1>9, <2>2, <3>1
    <3> QED BY <1>7, <1>9, <3>2
  <2> QED BY <1>6, <1>9, <2>1, <2>2
<1> QED BY <1>8, <1>9 DEF val

\* After a superstep that ran every node due, the nodes due are those that have a
\* trigger among the channels it changed by a write.
LEMMA StepLeads ==
  ASSUME NEW id \in Nat, NEW m \in Nat, id < m, NEW k, GoodState(k, id), OldTags(k, id),
         NEW received, MadeAt(received, id)
  PROVE  LET new == Apply(k, FullScan(k), received)
         IN  /\ OldTags(new, m)
             /\ new.val = Settled(k, FullScan(k), received)
             /\ FullScan(new) = {n \in Nodes : \E c \in Triggers[n] :
                    /\ received[c] # {} /\ new.val[c] # k.val[c] /\ Available(new.val, c)}
<1> DEFINE ts == FullScan(k)
           val == Settled(k, ts, received)
           moved == Changed(k, ts, received)
           new == Apply(k, ts, received)
<1>1. /\ new.ver = [c \in Channels |-> IF c \in moved THEN MaxVersion(k.ver) + 1 ELSE k.ver[c]]
      /\ new.seen = SeenBy(k, ts)
      /\ new.val = val
  BY DEF Apply, NewState, Changed
<1>2. MaxVersion(k.ver) \in 0 .. id /\ \A c \in Channels : k.ver[c] <= MaxVersion(k.ver)
  BY MaxVersionOf DEF GoodState
<1>3. \A c \in Channels : k.ver[c] \in Nat /\ \A n \in Nodes : k.seen[n][c] \in Nat
  BY DEF GoodState
<1>4. \A c \in Channels, n \in Nodes : new.seen[n][c] \in Nat /\ new.seen[n][c] <= k.ver[c]
  BY <1>1, <1>3 DEF SeenBy, OldTags
<1>5. \A c \in Channels : /\ val[c] \subseteq k.val[c] \cup received[c]
                          /\ received[c] # {} /\ c \in moved => val[c] # k.val[c]
                          /\ val[c] # k.val[c] => c \in moved
  BY SettledIs DEF Changed, Moved
<1>6. \A n \in FullScan(new) : \E c \in Triggers[n] :
         received[c] # {} /\ c \in moved /\ Available(val, c)
  BY DueByStep
<1>7. \A c \in Channels : c \in moved => new.ver[c] = MaxVersion(k.ver) + 1
  BY <1>1
<1>8. \A c \in Channels : c \notin moved => new.ver[c] = k.ver[c]
  BY <1>1
<1>9. \A n \in Nodes : Triggers[n] \subseteq Channels
  BY GraphAssumption
<1> HIDE DEF val, moved, new
<1>10. OldTags(new, m)
  <2>1. ASSUME NEW c \in Channels, NEW t \in val[c] PROVE t.at \in Nat /\ t.at < m
    <3>1. CASE t \in k.val[c]
      BY <3>1 DEF OldTags
    <3>2. CASE t \in received[c]
      BY <3>2 DEF MadeAt
    <3> QED BY <1>5, <3>1, <3>2
  <2>2. ASSUME NEW c \in Channels, NEW n \in Nodes PROVE new.seen[n][c] <= new.ver[c]
    <3>1. new.seen[n][c] \in Nat /\ new.seen[n][c] <= k.ver[c] /\ k.ver[c] \in Nat
      BY <1>3, <1>4
    <3>2. k.ver[c] <= new.ver[c] /\ new.ver[c] \in Nat
      BY <1>2, <1>3, <1>7, <1>8
    <3> QED BY <3>1, <3>2
  <2> QED BY <1>1, <2>1, <2>2 DEF OldTags
<1>11. \A n \in Nodes, c \in Channels : c \in moved => new.ver[c] > new.seen[n][c]
  <2> SUFFICES ASSUME NEW n \in Nodes, NEW c \in Channels, c \in moved
               PROVE  new.ver[c] > new.seen[n][c]
    OBVIOUS
  <2>1. new.seen[n][c] \in Nat /\ new.seen[n][c] <= k.ver[c] /\ k.ver[c] \in Nat
    BY <1>3, <1>4
  <2> QED BY <1>2, <1>7, <2>1
<1>12. FullScan(new) = {n \in Nodes : \E c \in Triggers[n] :
                           received[c] # {} /\ val[c] # k.val[c] /\ Available(val, c)}
  <2>1. ASSUME NEW n \in FullScan(new)
        PROVE  n \in Nodes /\ \E c \in Triggers[n] :
                  received[c] # {} /\ val[c] # k.val[c] /\ Available(val, c)
    <3>1. n \in Nodes
      BY DEF FullScan
    <3> QED BY <1>5, <1>6, <1>9, <3>1
  <2>2. ASSUME NEW n \in Nodes, NEW c \in Triggers[n], received[c] # {},
               val[c] # k.val[c], Available(val, c)
        PROVE  n \in FullScan(new)
    <3>1. c \in Channels /\ c \in moved
      BY <1>5, <1>9, <2>2
    <3>2. new.ver[c] > new.seen[n][c] /\ Available(new.val, c)
      BY <1>1, <1>11, <2>2, <3>1
    <3> QED BY <3>2 DEF FullScan, Triggered
  <2> QED BY <2>1, <2>2
<1> QED BY <1>1, <1>10, <1>12 DEF new, val

\* What settles depends on the values only.
LEMMA SettledDepends ==
  ASSUME NEW j, NEW k, j.val = k.val, NEW ts, NEW received
  PROVE  Settled(j, ts, received) = Settled(k, ts, received)
BY DEF Settled, Written, Consumed

\* Writes by themselves are no error.
LEMMA CommittedCounts ==
  ASSUME NEW chans \in SUBSET Channels, NEW try
  PROVE  LET ws == Committed(Write(chans, try))
         IN  Matched(ws) = ws /\ Error \notin Chans(ws) /\ ws # {}
<1> DEFINE ws == Committed(Write(chans, try))
<1>1. Error # NoWrites /\ Error \notin Channels
  BY MarkerAssumption DEF Error, NoWrites
<1>2. \A w \in Write(chans, try) : w.chan \in chans
  BY DEF Write
<1>3. \A w \in Write({NoWrites}, 1) : w.chan = NoWrites
  BY DEF Write
<1>4. \A w \in ws : w.chan # Error
  BY <1>1, <1>2, <1>3 DEF Committed
<1>5. Write({NoWrites}, 1) # {}
  BY DEF Write
<1>6. ws # {}
  BY <1>5 DEF Committed
<1> HIDE DEF ws
<1> QED BY <1>4, <1>6 DEF Matched, Chans, ws

\* Of writes saved over others, those that count are those that counted in either,
\* when not both had any, or both had the same.
Agree(old, new) == Matched(old) = {} \/ Matched(new) = {} \/ Matched(old) = Matched(new)

LEMMA MergesMatch ==
  ASSUME NEW old, NEW new, NEW merged \in Merges(old, new), Agree(old, new)
  PROVE  Matched(merged) = Matched(old) \cup Matched(new)
<1> DEFINE kept == Matched(old)
           fresh == Matched(new)
           errors == IF fresh = new THEN old \ kept ELSE new \ fresh
<1>1. PICK added \in SUBSET fresh :
        /\ merged = kept \cup added \cup errors
        /\ kept = {} => added = fresh
  BY DEF Merges
<1>2. kept \cup added = kept \cup fresh
  <2>1. kept = {} \/ fresh = {} \/ kept = fresh
    BY DEF Agree
  <2> HIDE DEF kept, fresh, errors
  <2> QED BY <1>1, <2>1
<1>3. \A w \in errors : w.chan = Error
  BY DEF Matched
<1>4. \A w \in kept \cup fresh : w.chan # Error
  BY DEF Matched
<1> HIDE DEF kept, fresh, errors
<1>5. Matched(merged) = kept \cup fresh
  BY <1>1, <1>2, <1>3, <1>4 DEF Matched
<1> QED BY <1>5 DEF kept, fresh

-----------------------------------------------------------------------------
(* The steps                                                               *)

\* The thread in stream moves on, and nothing else changes.
MovesOn ==
    /\ UNCHANGED <<cp, upd, writes, running, failed, puts, wputs, saved, blobs, pwrites,
                   lastId, tries, taken, budget>>
    /\ InHand' <=> InHand
    /\ Current' => Current
    /\ pc' # "update"
    /\ pc' = "run" => tasks' # {}

\* What a step may be when nobody calls update_state.
LEMMA StepCases ==
  ASSUME TriesInv, WholeInv, [Next]_vars
  PROVE  \/ InvokeWithInput \/ Resume \/ RefuseWrites \/ AfterTick \/ MovesOn
         \/ LeaveBlock \/ Return \/ Crash
         \/ (\E p \in puts : SaveCheckpoint(p)) \/ (\E w \in wputs : SaveWrites(w))
         \/ (\E n \in Nodes : Task(n))
<1>1. pc # "update" /\ ~ (budget.updates > 0)
  BY DEF TriesInv
<1>2. ~ UpdatePut /\ \A n \in Nodes : ~ UpdateWrites(n)
  BY <1>1 DEF UpdatePut, UpdateWrites
<1>3. OutOfSteps \/ Done \/ StopBefore \/ Panic => MovesOn
  BY DEF OutOfSteps, Done, StopBefore, Panic, Leave, MovesOn, WayOut, InHand, Current,
         background, store, ghosts
<1>4. Tick \/ AwaitSave => MovesOn
  BY DEF Tick, AwaitSave, MovesOn, InHand, Current, background, store, ghosts
<1>5. UNCHANGED vars => MovesOn
  BY <1>1 DEF vars, process, background, store, ghosts, MovesOn, InHand, Current, WholeInv
<1> QED BY <1>2, <1>3, <1>4, <1>5 DEF Next, Loop

\* Only with durability "exit" is anything left to do on the way out.
LEMMA LeavesOnExit == ASSUME LoopInv, LeaveBlock PROVE Durability = "exit"
BY DEF LeaveBlock, LoopInv, ExitInv

\* Which checkpoints are saved, and as what, is the same unless one is.
LEMMA SavedStay ==
  ASSUME UNCHANGED <<saved, blobs>>
  PROVE  /\ \A i : SavedState(i)' = SavedState(i)
         /\ NewestId' = NewestId /\ NewestState'.val = NewestState.val
         /\ FullScan(NewestState)' = FullScan(NewestState)
BY DEF SavedState, LoadBlobs, NewestId, NewestState, FullScan, Triggered

LEMMA OldTagsDepend ==
  ASSUME NEW j, NEW k, NEW id, j.ver = k.ver, j.seen = k.seen, j.val = k.val, OldTags(k, id)
  PROVE  OldTags(j, id)
BY DEF OldTags

LEMMA InputMadeAt == \A id : MadeAt(FromInput(id), id)
BY DEF MadeAt, FromInput

LEMMA ReceivedMadeAt == \A ts, ws, id : MadeAt(Received(ts, ws, id), id)
BY DEF MadeAt, Received

\* What is written at a checkpoint is younger than what it was given.
LEMMA AgeInductive ==
  ASSUME OwnSteps, SnapshotInv, ListedInv, TriesInv, WholeInv, AgeInv, [Next]_vars
  PROVE  AgeInv'
<1> USE DEF OwnSteps
<1>1. LoopInv /\ LoopInv'
  BY LoopInductive DEF SnapshotInv
<1>2. ASSUME UNCHANGED <<saved, blobs>>, puts' \in SUBSET puts, Current' => Current /\ cp' = cp
      PROVE  AgeInv'
  BY <1>2, SavedStay DEF AgeInv
<1>3. CASE MovesOn
  BY <1>2, <1>3 DEF MovesOn
<1>4. CASE Return \/ Crash
  BY <1>2, <1>4 DEF Return, Crash, Gone, store, background, Current
<1>5. CASE RefuseWrites
  BY <1>1, <1>2, <1>5, RefuseTakes DEF RefuseWrites, store
<1>6. CASE (\E w \in wputs : SaveWrites(w)) \/ (\E n \in Nodes : Task(n))
  BY <1>2, <1>6 DEF SaveWrites, Task, StartTask, RetryTask, FinishTask, FailTask, Attempt, Commit,
                    store, background, process, Current
<1>7. CASE InvokeWithInput \/ AfterTick
  <2>1. UNCHANGED <<saved, blobs>> /\ lastId \in Nat /\ cp'.id = lastId + 1
    BY <1>1, <1>7 DEF InvokeWithInput, AfterTick, PutCheckpoint, store, LoopInv, PutsInv
  <2>2. \A p \in puts' : p \in puts \/ (p.id = cp'.id /\ p.state = cp'.state)
    BY <1>1, <1>7, InvokeTakes, AfterTickTakes
  <2>3. OldTags(cp'.state, cp'.id)
    <3>1. CASE InvokeWithInput
      <4>1. cp'.state = Apply(NewestState, FullScan(NewestState), FromInput(NewestId))
        BY <3>1 DEF InvokeWithInput, PutCheckpoint
      <4>2. NewestId \in 0 .. lastId /\ GoodState(NewestState, NewestId)
        BY NewestIsGood
      <4>3. OldTags(NewestState, NewestId)
        <5>1. CASE NewestId \in DOMAIN saved
          BY <5>1, NewestIsGood DEF AgeInv
        <5>2. CASE NewestId = 0
          BY <5>2, NewestIsGood DEF OldTags, EmptyState, Unwritten
        <5> QED BY <5>1, <5>2, NewestIsGood
      <4>4. NewestId \in Nat /\ lastId + 1 \in Nat /\ NewestId < lastId + 1
        BY <2>1, <4>2
      <4> QED BY <2>1, <4>1, <4>2, <4>3, <4>4, InputMadeAt, StepLeads
    <3>2. CASE AfterTick
      <4>1. /\ cp'.state = Apply(cp.state, tasks, Received(tasks, writes, cp.id))
            /\ pc = "run" /\ tasks = FullScan(cp.state)
        BY <3>2 DEF AfterTick, AllWritten, PutCheckpoint, ListedInv
      <4>2. cp.id \in 0 .. lastId /\ GoodState(cp.state, cp.id) /\ OldTags(cp.state, cp.id)
        BY <4>1, <1>1 DEF SnapshotInv, StatesInv, AgeInv, Current, LoopInv, TypeOK
      <4>3. cp.id \in Nat /\ lastId + 1 \in Nat /\ cp.id < lastId + 1
        BY <2>1, <4>2
      <4> QED BY <2>1, <4>1, <4>2, <4>3, ReceivedMadeAt, StepLeads
    <3> QED BY <1>7, <3>1, <3>2
  <2> QED BY <2>1, <2>2, <2>3, SavedStay DEF AgeInv
<1>8. CASE Resume
  <2>1. UNCHANGED <<saved, blobs, puts>> /\ cp'.id = NewestId /\ DOMAIN saved # {}
    BY <1>8 DEF Resume, store, background
  <2>2. OldTags(NewestState, NewestId)
    BY <2>1, NewestIsGood DEF AgeInv
  <2>3. OldTags(cp'.state, cp'.id)
    BY <1>1, <1>8, <2>1, <2>2, ResumeTakes, OldTagsDepend
  <2> QED BY <2>1, <2>3, SavedStay DEF AgeInv
<1>9. ASSUME NEW p \in puts, SaveCheckpoint(p) PROVE AgeInv'
  <2>1. /\ DOMAIN saved' = DOMAIN saved \cup {p.id}
        /\ \A i \in DOMAIN saved : SavedState(i)' = SavedState(i)
        /\ SavedState(p.id)'.ver = p.state.ver /\ SavedState(p.id)'.seen = p.state.seen
        /\ SavedState(p.id)'.val = p.state.val
        /\ \A i \in DOMAIN saved : i < p.id
    BY <1>1, <1>9, SaveCheckpointTakes
  <2>2. puts' \subseteq puts /\ UNCHANGED <<pc, cp>>
    BY <1>9 DEF SaveCheckpoint, SaveBody, process
  <2>3. OldTags(SavedState(p.id)', p.id)
    BY <2>1, OldTagsDepend DEF AgeInv
  <2> QED BY <2>1, <2>2, <2>3 DEF AgeInv, Current
<1>10. CASE LeaveBlock
  <2>1. /\ UNCHANGED <<saved, blobs, cp>> /\ ~ Current'
        /\ puts' = puts \cup IF cp.id = NewestId THEN {}
                             ELSE {Submission(cp, NewestId, NewestState, upd)}
    BY <1>10 DEF LeaveBlock, store, Current
  <2>2. OldTags(cp.state, cp.id)
    BY <1>10 DEF LeaveBlock, AgeInv, Current
  <2>3. \A p \in puts' : p \in puts \/ (p.id = cp.id /\ p.state = cp.state)
    BY <2>1 DEF Submission
  <2> QED BY <2>1, <2>2, <2>3, SavedStay DEF AgeInv
<1> QED BY <1>1, <1>3, <1>4, <1>5, <1>6, <1>7, <1>8, <1>9, <1>10, StepCases

LEMMA WriteIs ==
  ASSUME NEW chans, NEW try
  PROVE  /\ chans # {} => Write(chans, try) # {}
         /\ \A w \in Write(chans, try) : w.chan \in chans
<1>1. ASSUME NEW c \in chans PROVE [chan |-> c, try |-> try] \in Write(chans, try)
  BY DEF Write
<1>2. ASSUME NEW w \in Write(chans, try) PROVE w.chan \in chans
  <2>1. PICK c \in chans : w = [chan |-> c, try |-> try]
    BY DEF Write
  <2> QED BY <2>1
<1> QED BY <1>1, <1>2

\* A task that returns commits the writes of this attempt; one that raises, an error.
LEMMA TaskCommits ==
  ASSUME OwnSteps, LoopInv, TriesInv, ShareInv, NEW n \in Nodes, FinishTask(n) \/ FailTask(n)
  PROVE  \E ws : /\ Commit(n, ws) /\ ws # {} /\ Whole(n, ws)
                 /\ Error \in Chans(ws) => n \in failed'
<1>1. writes[n] = {} /\ running[n] > 0
  BY LoopAssumption DEF FinishTask, FailTask, LoopInv, WritesInv, TypeOK
<1>2. CASE FinishTask(n)
  <2>1. PICK route \in Routes[n] : Commit(n, Committed(writes[n] \cup Write(route, tries[n])))
    BY <1>2 DEF FinishTask
  <2>2. writes[n] \cup Write(route, tries[n]) = Write(route, tries[n])
    BY <1>1
  <2>3. route \in SUBSET Channels
    BY LoopAssumption
  <2> DEFINE ws == Committed(Write(route, tries[n]))
  <2>4. Matched(ws) = ws /\ Error \notin Chans(ws) /\ ws # {}
    BY <2>3, CommittedCounts
  <2>5. tries[n] \in 0 .. MostTries
    <3>1. /\ tries[n] \in Nat /\ budget.resumes \in 0 .. MaxResumes
          /\ budget.failures \in 0 .. MaxFailures
          /\ tries[n] + budget.resumes + budget.failures + (IF Startable(n) THEN 1 ELSE 0)
                <= MostTries
          /\ MaxResumes \in Nat /\ MaxFailures \in Nat
      BY LoopAssumption DEF TriesInv
    <3> QED BY <3>1 DEF MostTries
  <2>6. Commit(n, ws)
    BY <2>1, <2>2
  <2>7. Whole(n, ws)
    BY <2>4, <2>5 DEF Whole
  <2> HIDE DEF ws
  <2> QED BY <2>4, <2>6, <2>7
<1>3. CASE FailTask(n)
  <2>1. PICK part \in Partials[n] : Commit(n, writes[n] \cup Write(part \cup {Error}, tries[n]))
    BY <1>3 DEF FailTask
  <2>2. part = {}
    BY DEF OwnSteps
  <2>3. writes[n] \cup Write(part \cup {Error}, tries[n]) = Write({Error}, tries[n])
    BY <1>1, <2>2
  <2> DEFINE ws == Write({Error}, tries[n])
  <2>4. ws # {} /\ Matched(ws) = {}
    <3>1. ws # {} /\ \A w \in ws : w.chan = Error
      BY WriteIs
    <3> HIDE DEF ws
    <3> QED BY <3>1 DEF Matched
  <2>5. Commit(n, ws) /\ n \in failed'
    BY <1>3, <2>1, <2>3 DEF FailTask
  <2> HIDE DEF ws
  <2> QED BY <2>4, <2>5 DEF Whole
<1> QED BY <1>2, <1>3

\* No node is attempted more often than the bounds allow.
LEMMA TriesInductive ==
  ASSUME OwnSteps, LoopInv, ShareInv, TriesInv, WholeInv, [Next]_vars
  PROVE  TriesInv'
<1> USE DEF OwnSteps, MostTries
<1>1. /\ budget \in [inputs : Int, resumes : Int, updates : Int, failures : Int, crashes : Int]
      /\ {MaxResumes, MaxFailures} \subseteq Nat
  BY LoopAssumption DEF ShareInv
<1>2. /\ budget.resumes \in 0 .. MaxResumes /\ budget.failures \in 0 .. MaxFailures
      /\ tries \in [Nodes -> Nat] /\ budget.updates = 0 /\ pc # "update"
  BY DEF TriesInv
<1>3. \A n \in Nodes :
        tries[n] + budget.resumes + budget.failures + (IF Startable(n) THEN 1 ELSE 0)
           <= MaxFailures + MaxResumes + 1
  BY DEF TriesInv
<1>4. ASSUME UNCHANGED <<tries, budget>>, pc' # "update",
             \A n \in Nodes : Startable(n)' => Startable(n)
      PROVE  TriesInv'
  <2>1. \A n \in Nodes :
          tries'[n] + budget'.resumes + budget'.failures + (IF Startable(n)' THEN 1 ELSE 0)
             <= MaxFailures + MaxResumes + 1
    <3> SUFFICES ASSUME NEW n \in Nodes
                 PROVE  tries[n] + budget.resumes + budget.failures + (IF Startable(n)' THEN 1 ELSE 0)
                           <= MaxFailures + MaxResumes + 1
      BY <1>4
    <3>1. tries[n] \in Nat
      BY <1>2
    <3> QED BY <1>1, <1>2, <1>3, <1>4, <3>1
  <2> QED BY <1>2, <1>4, <2>1 DEF TriesInv
<1>5. CASE MovesOn
  BY <1>4, <1>5 DEF MovesOn, Startable
<1>6. CASE \/ RefuseWrites \/ LeaveBlock
           \/ (\E p \in puts : SaveCheckpoint(p)) \/ (\E w \in wputs : SaveWrites(w))
  <2>1. UNCHANGED <<tries, budget, writes, running>> /\ pc' # "update" /\ (InHand' => InHand)
    BY <1>2, <1>6 DEF RefuseWrites, LeaveBlock, AllWritten, SaveCheckpoint, SaveBody, SaveWrites, process, ghosts,
                      WayOut, InHand
  <2> QED BY <1>4, <2>1 DEF Startable
<1>7. CASE Return \/ Crash
  <2>1. /\ pc' = "off" /\ UNCHANGED tries
        /\ budget' = budget \/ budget' = [budget EXCEPT !.crashes = @ - 1]
    BY <1>7 DEF Return, Crash, Gone, ghosts
  <2>2. \A n \in Nodes : ~ Startable(n)'
    BY <2>1 DEF Startable, InHand
  <2>3. /\ budget'.resumes = budget.resumes /\ budget'.failures = budget.failures
        /\ budget'.updates = budget.updates
    BY <1>1, <2>1
  <2>4. \A n \in Nodes :
          tries'[n] + budget'.resumes + budget'.failures + (IF Startable(n)' THEN 1 ELSE 0)
             <= MaxFailures + MaxResumes + 1
    <3> SUFFICES ASSUME NEW n \in Nodes
                 PROVE  tries[n] + budget.resumes + budget.failures + 0
                           <= MaxFailures + MaxResumes + 1
      BY <2>1, <2>2, <2>3
    <3>1. tries[n] \in Nat
      BY <1>2
    <3> QED BY <1>1, <1>2, <1>3, <3>1
  <2> QED BY <1>2, <2>1, <2>3, <2>4 DEF TriesInv
<1>8. ASSUME \A n \in Nodes : tries'[n] = 0 \/ tries'[n] = tries[n],
             tries' \in [Nodes -> Nat], pc' # "update",
             budget'.resumes \in 0 .. MaxResumes, budget'.failures = budget.failures,
             budget'.updates = 0,
             budget'.resumes = budget.resumes - 1 \/ (tries' = Idle /\ budget'.resumes = budget.resumes)
      PROVE  TriesInv'
  <2>1. ASSUME NEW n \in Nodes
        PROVE  tries'[n] + budget'.resumes + budget'.failures + 1 <= MaxFailures + MaxResumes + 1
    <3>1. tries[n] \in Nat /\ tries'[n] \in Nat
      BY <1>2, <1>8
    <3>2. CASE budget'.resumes = budget.resumes - 1
      <4>1. tries[n] + budget.resumes + budget.failures <= MaxFailures + MaxResumes + 1
        BY <1>1, <1>2, <1>3, <3>1
      <4>2. tries'[n] <= tries[n]
        BY <1>8, <3>1
      <4> QED BY <1>1, <1>2, <1>8, <3>1, <3>2, <4>1, <4>2
    <3>3. CASE tries' = Idle /\ budget'.resumes = budget.resumes
      BY <1>1, <1>2, <1>8, <3>1, <3>3 DEF Idle
    <3> QED BY <1>8, <3>2, <3>3
  <2>2. \A n \in Nodes :
          tries'[n] + budget'.resumes + budget'.failures + (IF Startable(n)' THEN 1 ELSE 0)
             <= MaxFailures + MaxResumes + 1
    <3>1. \A n \in Nodes : tries'[n] \in Nat
      BY <1>8
    <3> QED BY <1>1, <1>2, <1>8, <2>1, <3>1
  <2> QED BY <1>2, <1>8, <2>2 DEF TriesInv
<1>9. CASE InvokeWithInput \/ AfterTick
  <2>1. /\ tries' = Idle /\ pc' # "update"
        /\ budget' = budget \/ budget' = [budget EXCEPT !.inputs = @ - 1]
    BY <1>9 DEF InvokeWithInput, AfterTick, PutCheckpoint, Begin, WayOut
  <2>2. /\ budget'.resumes = budget.resumes /\ budget'.failures = budget.failures
        /\ budget'.updates = budget.updates
    BY <1>1, <2>1
  <2>3. tries' \in [Nodes -> Nat] /\ \A n \in Nodes : tries'[n] = 0
    BY <2>1 DEF Idle
  <2> QED BY <1>2, <1>8, <2>1, <2>2, <2>3
<1>10. CASE Resume
  <2>1. /\ tries' = tries \/ tries' = Idle
        /\ pc' = "tick" /\ budget.resumes > 0 /\ budget' = [budget EXCEPT !.resumes = @ - 1]
    BY <1>10 DEF Resume, Begin
  <2>2. /\ budget'.resumes = budget.resumes - 1 /\ budget'.failures = budget.failures
        /\ budget'.updates = budget.updates
    BY <1>1, <2>1
  <2>3. tries' \in [Nodes -> Nat] /\ \A n \in Nodes : tries'[n] = 0 \/ tries'[n] = tries[n]
    BY <1>2, <2>1 DEF Idle
  <2>4. budget'.resumes \in 0 .. MaxResumes
    BY <1>1, <1>2, <2>1, <2>2
  <2> QED BY <1>2, <1>8, <2>1, <2>2, <2>3, <2>4
<1>11. ASSUME NEW n \in Nodes, Task(n) PROVE TriesInv'
  <2>1. /\ running' = [running EXCEPT ![n] = running'[n]] /\ writes' = [writes EXCEPT ![n] = writes'[n]]
        /\ pc' = pc
    BY <1>11 DEF Task, StartTask, RetryTask, FinishTask, FailTask, Attempt, Commit, LoopInv, TypeOK,
                 WritesInv
  <2>2. \A m \in Nodes \ {n} : Startable(m)' <=> Startable(m)
    BY <2>1 DEF Startable, InHand, LoopInv, TypeOK, WritesInv
  <2>3. ~ Startable(n)'
    <3>1. running'[n] > 0 \/ writes'[n] # {}
      <4>1. CASE StartTask(n) \/ RetryTask(n)
        BY <4>1, LoopAssumption DEF StartTask, RetryTask, Attempt, LoopInv, TypeOK
      <4>2. CASE FinishTask(n) \/ FailTask(n)
        <5>1. PICK ws : ws # {} /\ writes' = [writes EXCEPT ![n] = ws]
          BY <4>2, TaskCommits DEF Commit
        <5> QED BY <5>1 DEF LoopInv, WritesInv
      <4> QED BY <1>11, <4>1, <4>2 DEF Task
    <3> QED BY <3>1 DEF Startable
  <2>4. CASE StartTask(n)
    <3>1. /\ Startable(n) /\ UNCHANGED budget /\ tries' = [tries EXCEPT ![n] = @ + 1]
      BY <2>4 DEF StartTask, Attempt, Startable, InHand
    <3>2. tries' \in [Nodes -> Nat]
      BY <1>2, <3>1
    <3>3. \A m \in Nodes :
            tries'[m] + budget'.resumes + budget'.failures + (IF Startable(m)' THEN 1 ELSE 0)
               <= MaxFailures + MaxResumes + 1
      <4> SUFFICES ASSUME NEW m \in Nodes
                   PROVE  tries'[m] + budget.resumes + budget.failures
                            + (IF Startable(m)' THEN 1 ELSE 0) <= MaxFailures + MaxResumes + 1
        BY <3>1
      <4>1. CASE m = n
        <5>1. tries'[m] = tries[n] + 1 /\ tries[n] \in Nat /\ ~Startable(m)'
          BY <1>2, <2>3, <3>1, <4>1
        <5>2. tries[n] + budget.resumes + budget.failures + 1 <= MaxFailures + MaxResumes + 1
          BY <1>3, <3>1
        <5> QED BY <1>1, <1>2, <5>1, <5>2
      <4>2. CASE m # n
        <5>1. tries'[m] = tries[m] /\ (Startable(m)' <=> Startable(m))
          BY <1>2, <2>2, <3>1, <4>2
        <5> QED BY <1>3, <5>1
      <4> QED BY <4>1, <4>2
    <3> QED BY <1>2, <2>1, <3>1, <3>2, <3>3 DEF TriesInv
  <2>5. CASE RetryTask(n) \/ FailTask(n)
    <3>1. /\ budget.failures > 0 /\ budget' = [budget EXCEPT !.failures = @ - 1]
          /\ tries' = tries \/ tries' = [tries EXCEPT ![n] = @ + 1]
      BY <2>5 DEF RetryTask, FailTask, Attempt, Commit, ghosts
    <3>2. tries' \in [Nodes -> Nat]
      BY <1>2, <3>1
    <3>3. /\ budget'.failures = budget.failures - 1 /\ budget'.resumes = budget.resumes
          /\ budget'.updates = budget.updates
      BY <1>1, <3>1
    <3>4. \A m \in Nodes :
            tries'[m] + budget'.resumes + budget'.failures + (IF Startable(m)' THEN 1 ELSE 0)
               <= MaxFailures + MaxResumes + 1
      <4> SUFFICES ASSUME NEW m \in Nodes
                   PROVE  tries'[m] + budget.resumes + (budget.failures - 1)
                            + (IF Startable(m)' THEN 1 ELSE 0) <= MaxFailures + MaxResumes + 1
        BY <3>3
      <4>1. tries[m] \in Nat
        BY <1>2
      <4>2. CASE m = n
        <5>1. tries'[m] \in {tries[m], tries[m] + 1} /\ ~Startable(m)'
          BY <1>2, <2>3, <3>1, <4>2
        <5> QED BY <1>1, <1>2, <1>3, <4>1, <5>1
      <4>3. CASE m # n
        <5>1. tries'[m] = tries[m] /\ (Startable(m)' <=> Startable(m))
          BY <1>2, <2>2, <3>1, <4>3
        <5> QED BY <1>1, <1>2, <1>3, <4>1, <5>1
      <4> QED BY <4>2, <4>3
    <3>5. budget'.failures \in 0 .. MaxFailures
      BY <1>1, <1>2, <3>1, <3>3
    <3> QED BY <1>2, <2>1, <3>2, <3>3, <3>4, <3>5 DEF TriesInv
  <2>6. CASE FinishTask(n)
    <3>1. UNCHANGED <<tries, budget>>
      BY <2>6 DEF FinishTask, Commit, ghosts
    <3> QED BY <1>2, <1>4, <2>1, <2>2, <2>3, <3>1
  <2> QED BY <1>11, <2>4, <2>5, <2>6 DEF Task
<1> QED BY <1>5, <1>6, <1>7, <1>9, <1>10, <1>11, StepCases

\* What put_writes leaves at a key, when only one of two lists counts there.
LEMMA PutWritesMatch ==
  ASSUME NEW key, NEW ws, PutWrites(key, ws),
         key \in DOMAIN pwrites => Agree(pwrites[key], ws)
  PROVE  /\ DOMAIN pwrites' = DOMAIN pwrites \cup {key}
         /\ \A other \in DOMAIN pwrites \ {key} : pwrites'[other] = pwrites[other]
         /\ Matched(pwrites'[key]) =
               (IF key \in DOMAIN pwrites THEN Matched(pwrites[key]) ELSE {}) \cup Matched(ws)
<1>1. PICK merged \in IF key \in DOMAIN pwrites THEN Merges(pwrites[key], ws) ELSE {ws} :
        pwrites' = With(pwrites, key, merged)
  BY DEF PutWrites
<1>2. /\ DOMAIN pwrites' = DOMAIN pwrites \cup {key}
      /\ \A other \in DOMAIN pwrites \ {key} : pwrites'[other] = pwrites[other]
      /\ pwrites'[key] = merged
  BY <1>1 DEF With
<1>3. CASE key \in DOMAIN pwrites
  <2>1. Matched(merged) = Matched(pwrites[key]) \cup Matched(ws)
    BY <1>1, <1>3, MergesMatch
  <2> QED BY <1>2, <1>3, <2>1
<1>4. CASE key \notin DOMAIN pwrites
  BY <1>1, <1>2, <1>4
<1> QED BY <1>3, <1>4

\* What is on its way from the checkpoint in hand is what is in hand.
LEMMA SentInHand ==
  ASSUME OnceInv, InHand, NEW n \in Nodes, NEW w \in wputs, Sent(w, cp.id, n)
  PROVE  running[n] = 0 /\ Matched(writes[n]) = Matched(w.writes)
BY DEF OnceInv

\* A node with a result at the checkpoint in hand has it in memory, and no thread.
LEMMA ResultInHand ==
  ASSUME OnceInv, InHand, NEW n \in Nodes,
         Saved(cp.id, n) \/ \E w \in wputs : Sent(w, cp.id, n)
  PROVE  running[n] = 0 /\ Matched(writes[n]) # {}
<1>1. CASE Saved(cp.id, n)
  <2>1. running[n] = 0 /\ Matched(writes[n]) = Matched(pwrites[<<cp.id, n>>])
    BY <1>1 DEF OnceInv
  <2> QED BY <1>1, <2>1 DEF Saved
<1>2. ASSUME NEW w \in wputs, Sent(w, cp.id, n) PROVE running[n] = 0 /\ Matched(writes[n]) # {}
  <2>1. running[n] = 0 /\ Matched(writes[n]) = Matched(w.writes)
    BY <1>2, SentInHand
  <2> QED BY <1>2, <2>1 DEF Sent
<1> QED BY <1>1, <1>2

\* The writes that count, in memory, on their way and in the saver, are always those
\* of one attempt that completed, and no node gets a second result at a checkpoint.
LEMMA WritesInductive ==
  ASSUME OwnSteps, SnapshotInv, TriesInv, WholeInv, OnceInv, [Next]_vars
  PROVE  WholeInv' /\ OnceInv'
<1> USE DEF OwnSteps, SnapshotInv
<1>1. PICK id : id = cp'.id
  OBVIOUS
<1>2. \A i, n : Saved(i, n) <=> <<i, n>> \in DOMAIN pwrites /\ Matched(pwrites[<<i, n>>]) # {}
  BY DEF Saved
<1>3. ASSUME UNCHANGED <<pwrites, wputs, running, writes, failed>>, InHand' => InHand, cp'.id = cp.id,
             pc' = "run" => tasks' # {}
      PROVE  WholeInv' /\ OnceInv'
  BY <1>3 DEF WholeInv, OnceInv, Saved, Sent
<1>4. CASE MovesOn
  BY <1>3, <1>4 DEF MovesOn
<1>5. CASE RefuseWrites
  <2>1. cp'.id = cp.id
    BY <1>5 DEF RefuseWrites, LoopInv, HeadInv
  <2> QED BY <1>3, <1>5, <2>1 DEF RefuseWrites, AllWritten, InHand, store, WayOut
<1>6. ASSUME NEW p \in puts, SaveCheckpoint(p) PROVE WholeInv' /\ OnceInv'
  BY <1>3, <1>6 DEF SaveCheckpoint, SaveBody, process, InHand, WholeInv
<1>7. CASE Return \/ Crash
  <2>1. /\ UNCHANGED pwrites /\ wputs' \in {wputs, {}} /\ ~ InHand' /\ pc' # "run"
    BY <1>7 DEF Return, Crash, Gone, store, background, InHand
  <2> QED BY <2>1 DEF WholeInv, OnceInv, Saved, Sent
<1>8. CASE InvokeWithInput \/ AfterTick
  <2>1. /\ UNCHANGED <<pwrites, wputs>> /\ running' = Idle /\ writes' = NoTasks
        /\ cp'.id = lastId + 1 /\ pc' # "run"
    BY <1>8 DEF InvokeWithInput, AfterTick, AllWritten, Begin, PutCheckpoint, store, WayOut
  <2>2. WholeInv'
    <3>1. \A n \in Nodes : writes'[n] = {} /\ Matched({}) = {} /\ Chans({}) = {}
      BY <2>1 DEF NoTasks, Matched, Chans
    <3>2. \A n \in Nodes : Whole(n, writes'[n]) /\ Error \notin Chans(writes'[n])
      BY <3>1 DEF Whole
    <3> QED BY <2>1, <3>2 DEF WholeInv
  <2>3. \A n : ~ Saved(id, n)' /\ \A w : ~ Sent(w, id, n)'
    <3>1. lastId \in Nat /\ id \notin 0 .. lastId
      BY <1>1, <2>1 DEF LoopInv, PutsInv
    <3> QED BY <2>1, <3>1 DEF Saved, Sent, LoopInv, WritesInv
  <2> QED BY <1>1, <2>1, <2>2, <2>3 DEF OnceInv, Saved, Sent
<1>9. CASE Resume
  <2>1. /\ UNCHANGED <<pwrites, wputs>> /\ running' = Idle /\ cp'.id = NewestId /\ pc' = "tick"
        /\ writes' = PendingWrites(NewestId) /\ wputs = {}
    BY <1>9 DEF Resume, Begin, store, background, LoopInv, OffInv, InHand
  <2>2. \A n \in Nodes : writes'[n] = IF <<NewestId, n>> \in DOMAIN pwrites
                                      THEN Matched(pwrites[<<NewestId, n>>]) ELSE {}
    BY <2>1 DEF PendingWrites
  <2>3. \A ws : Matched(Matched(ws)) = Matched(ws) /\ Error \notin Chans(Matched(ws))
    BY DEF Matched, Chans
  <2>4. Matched({}) = {} /\ Chans({}) = {}
    BY DEF Matched, Chans
  <2>5. \A n \in Nodes : Whole(n, writes'[n]) /\ Error \notin Chans(writes'[n])
    <3> SUFFICES ASSUME NEW n \in Nodes
                 PROVE  Whole(n, writes'[n]) /\ Error \notin Chans(writes'[n])
      OBVIOUS
    <3>1. CASE <<NewestId, n>> \in DOMAIN pwrites
      <4>1. Whole(n, pwrites[<<NewestId, n>>])
        BY <3>1 DEF WholeInv
      <4> QED BY <2>2, <2>3, <3>1, <4>1 DEF Whole
    <3>2. CASE <<NewestId, n>> \notin DOMAIN pwrites
      BY <2>2, <2>4, <3>2 DEF Whole
    <3> QED BY <3>1, <3>2
  <2>6. WholeInv'
    BY <2>1, <2>5 DEF WholeInv
  <2>7. \A n \in Nodes : Saved(id, n)' => /\ running'[n] = 0
                                        /\ Matched(writes'[n]) = Matched(pwrites'[<<id, n>>])
    BY <1>1, <2>1, <2>2, <2>3 DEF Saved, Idle
  <2> QED BY <1>1, <2>1, <2>6, <2>7 DEF OnceInv, Saved, Sent
<1>10. ASSUME NEW n \in Nodes, StartTask(n) \/ RetryTask(n) PROVE WholeInv' /\ OnceInv'
  <2>1. PICK k : Attempt(n, k)
    BY <1>10 DEF StartTask, RetryTask
  <2>2. /\ UNCHANGED <<pc, cp, failed, tasks, pwrites, wputs>>
        /\ \A m \in Nodes \ {n} : running'[m] = running[m] /\ writes'[m] = writes[m]
        /\ writes'[n] = {}
    BY <2>1 DEF Attempt, store, background, LoopInv, TypeOK, WritesInv
  <2>3. InHand /\ (writes[n] = {} \/ running[n] > 0)
    <3>1. CASE StartTask(n)
      BY <3>1 DEF StartTask, InHand
    <3>2. CASE RetryTask(n)
      <4>1. running[n] > 0
        BY <3>2, LoopAssumption DEF RetryTask
      <4> QED BY <4>1 DEF LoopInv, OffInv, Idle
    <3> QED BY <1>10, <3>1, <3>2
  <2>4. ~ Saved(cp.id, n) /\ ~ \E w \in wputs : Sent(w, cp.id, n)
    <3>1. Matched({}) = {}
      BY DEF Matched
    <3>2. Saved(cp.id, n) \/ (\E w \in wputs : Sent(w, cp.id, n))
             => running[n] = 0 /\ Matched(writes[n]) # {}
      BY <2>3, ResultInHand
    <3>3. writes[n] = {} => Matched(writes[n]) = {}
      BY <3>1
    <3>4. ~ (running[n] = 0 /\ Matched(writes[n]) # {})
      <4>1. CASE running[n] > 0
        <5>1. ~ (running[n] = 0)
          BY <4>1
        <5> QED BY <5>1
      <4> QED BY <2>3, <3>3, <4>1
    <3> QED BY <3>2, <3>4
  <2>5. WholeInv'
    <3>1. Whole(n, writes'[n]) /\ Error \notin Chans(writes'[n])
      <4>1. Matched({}) = {} /\ Chans({}) = {}
        BY DEF Matched, Chans
      <4> QED BY <2>2, <4>1 DEF Whole
    <3> QED BY <2>2, <3>1 DEF WholeInv, InHand
  <2>6. \A m \in Nodes :
          /\ Saved(id, m)' =>
               running'[m] = 0 /\ Matched(writes'[m]) = Matched(pwrites'[<<id, m>>])
          /\ \A w \in wputs' : Sent(w, id, m)' =>
               running'[m] = 0 /\ Matched(writes'[m]) = Matched(w.writes)
    <3>1. ASSUME NEW m \in Nodes
          PROVE  /\ Saved(id, m)' <=> Saved(cp.id, m)
                 /\ \A w \in wputs' : Sent(w, id, m)' <=> Sent(w, cp.id, m)
      BY <1>1, <2>2 DEF Saved, Sent
    <3> QED BY <1>1, <2>2, <2>3, <2>4, <3>1 DEF OnceInv
  <2> QED BY <1>1, <2>2, <2>5, <2>6 DEF OnceInv, Saved, Sent
<1>11. ASSUME NEW n \in Nodes, FinishTask(n) \/ FailTask(n) PROVE WholeInv' /\ OnceInv'
  <2>1. PICK ws : /\ Commit(n, ws) /\ ws # {} /\ Whole(n, ws)
                  /\ Error \in Chans(ws) => n \in failed'
    BY <1>11, TaskCommits
  <2> DEFINE sent == [id |-> cp.id, node |-> n, writes |-> ws]
  <2>2. /\ UNCHANGED <<pc, cp, tasks, pwrites>> /\ failed \subseteq failed'
        /\ \A m \in Nodes \ {n} : running'[m] = running[m] /\ writes'[m] = writes[m]
        /\ writes'[n] = ws /\ running'[n] = 0
        /\ wputs' = wputs \/ wputs' = wputs \cup {sent}
    BY <1>11, <2>1 DEF FinishTask, FailTask, Commit, store, LoopInv, TypeOK, WritesInv
  <2>3. running[n] > 0
    BY <1>11 DEF FinishTask, FailTask
  <2>4. InHand
    BY <2>3 DEF LoopInv, OffInv, Idle
  <2>5. ~ Saved(cp.id, n) /\ ~ \E w \in wputs : Sent(w, cp.id, n)
    BY <2>3, <2>4, ResultInHand
  <2>6. sent.id = cp.id /\ sent.node = n /\ sent.writes = ws
    OBVIOUS
  <2> HIDE DEF sent
  <2>7. WholeInv'
    BY <2>1, <2>2, <2>6 DEF WholeInv, InHand
  <2>8. \A m \in Nodes :
          /\ Saved(id, m)' =>
               running'[m] = 0 /\ Matched(writes'[m]) = Matched(pwrites'[<<id, m>>])
          /\ \A w \in wputs' : Sent(w, id, m)' =>
               running'[m] = 0 /\ Matched(writes'[m]) = Matched(w.writes)
    <3>1. ASSUME NEW m \in Nodes \ {n}
          PROVE  /\ Saved(id, m)' => Saved(cp.id, m)
                 /\ \A w \in wputs' : Sent(w, id, m)' => w \in wputs /\ Sent(w, cp.id, m)
      BY <1>1, <2>2, <2>6 DEF Saved, Sent
    <3>2. \A m \in Nodes \ {n} :
            /\ Saved(id, m)' =>
                 running'[m] = 0 /\ Matched(writes'[m]) = Matched(pwrites'[<<id, m>>])
            /\ \A w \in wputs' : Sent(w, id, m)' =>
                 running'[m] = 0 /\ Matched(writes'[m]) = Matched(w.writes)
      BY <1>1, <2>2, <2>4, <3>1 DEF OnceInv
    <3>3. ~ Saved(id, n)' /\ \A w \in wputs' : Sent(w, id, n)' => w = sent
      BY <1>1, <2>2, <2>5 DEF Saved, Sent
    <3> QED BY <2>2, <2>6, <3>2, <3>3
  <2>9. \A w \in wputs' : Sent(w, w.id, w.node)' /\ Saved(w.id, w.node)'
          => Matched(pwrites'[<<w.id, w.node>>]) = Matched(w.writes)
    BY <2>2, <2>5, <2>6 DEF OnceInv, Saved, Sent
  <2>10. \A v, w \in wputs' : Sent(v, w.id, w.node)' /\ Sent(w, w.id, w.node)'
           => Matched(v.writes) = Matched(w.writes)
    BY <2>2, <2>5, <2>6 DEF OnceInv, Sent
  <2> QED BY <1>1, <2>7, <2>8, <2>9, <2>10 DEF OnceInv, Saved, Sent
<1>12. ASSUME NEW w \in wputs, SaveWrites(w) PROVE WholeInv' /\ OnceInv'
  <2> DEFINE key == <<w.id, w.node>>
  <2>1. /\ wputs' = wputs \ {w} /\ PutWrites(key, w.writes) /\ UNCHANGED process
    BY <1>12 DEF SaveWrites
  <2>2. key \in DOMAIN pwrites => Agree(pwrites[key], w.writes)
    BY DEF OnceInv, Saved, Sent, Agree
  <2>3. /\ DOMAIN pwrites' = DOMAIN pwrites \cup {key}
        /\ \A other \in DOMAIN pwrites \ {key} : pwrites'[other] = pwrites[other]
        /\ Matched(pwrites'[key]) =
              (IF key \in DOMAIN pwrites THEN Matched(pwrites[key]) ELSE {}) \cup Matched(w.writes)
    <3> HIDE DEF key
    <3> QED BY <2>1, <2>2, PutWritesMatch
  <2>4. Whole(w.node, pwrites'[key])
    <3>1. Whole(w.node, w.writes) /\ (key \in DOMAIN pwrites => Whole(w.node, pwrites[key]))
      BY DEF WholeInv
    <3>2. \/ Matched(pwrites'[key]) = Matched(w.writes)
          \/ key \in DOMAIN pwrites /\ Matched(pwrites'[key]) = Matched(pwrites[key])
      BY <2>2, <2>3 DEF Agree
    <3> QED BY <3>1, <3>2 DEF Whole
  <2>5. WholeInv'
    <3>1. \A k \in DOMAIN pwrites' : Whole(k[2], pwrites'[k])
      <4> SUFFICES ASSUME NEW k \in DOMAIN pwrites' PROVE Whole(k[2], pwrites'[k])
        OBVIOUS
      <4>1. CASE k = key
        BY <2>4, <4>1
      <4>2. CASE k # key
        BY <2>3, <4>2 DEF WholeInv
      <4> QED BY <4>1, <4>2
    <3> QED BY <2>1, <3>1 DEF WholeInv, process, InHand
  <2>6. ASSUME NEW i, NEW n, Saved(i, n)'
        PROVE  \/ Saved(i, n) /\ Matched(pwrites'[<<i, n>>]) = Matched(pwrites[<<i, n>>])
               \/ Sent(w, i, n) /\ Matched(pwrites'[<<i, n>>]) = Matched(w.writes)
    <3>1. CASE <<i, n>> = key
      BY <2>2, <2>3, <2>6, <3>1 DEF Saved, Sent, Agree
    <3>2. CASE <<i, n>> # key
      BY <2>3, <2>6, <3>2 DEF Saved
    <3> QED BY <3>1, <3>2
  <2>7. \A v, i, n : Sent(v, i, n)' => Sent(v, i, n)
    BY <2>1 DEF Sent
  <2>8. \A v, i, n : Sent(v, i, n) => v \in wputs /\ v.id = i /\ v.node = n
    BY DEF Sent
  <2>9. InHand' => \A n \in Nodes :
          /\ Saved(id, n)' =>
               running'[n] = 0 /\ Matched(writes'[n]) = Matched(pwrites'[<<id, n>>])
          /\ \A v \in wputs' : Sent(v, id, n)' =>
               running'[n] = 0 /\ Matched(writes'[n]) = Matched(v.writes)
    <3>1. id = cp.id /\ UNCHANGED <<running, writes>> /\ (InHand' => InHand)
      BY <1>1, <2>1 DEF process, InHand
    <3> QED BY <2>6, <2>7, <2>8, <3>1 DEF OnceInv
  <2>10. \A v \in wputs' : Sent(v, v.id, v.node)' /\ Saved(v.id, v.node)'
           => Matched(pwrites'[<<v.id, v.node>>]) = Matched(v.writes)
    BY <2>6, <2>7, <2>8 DEF OnceInv
  <2>11. \A v, u \in wputs' : Sent(v, u.id, u.node)' /\ Sent(u, u.id, u.node)'
           => Matched(v.writes) = Matched(u.writes)
    BY <2>7, <2>8 DEF OnceInv
  <2> QED BY <1>1, <2>5, <2>9, <2>10, <2>11 DEF OnceInv, Saved, Sent
<1>13. CASE LeaveBlock
  <2>1. /\ pc = "leave" /\ pc' = "exit" /\ wputs' = wputs \cup PendingSaves
        /\ UNCHANGED <<cp, writes, running, failed, pwrites>>
    BY <1>13 DEF LeaveBlock, store
  <2>2. ASSUME NEW w \in PendingSaves
        PROVE  w.node \in Nodes /\ w.id = cp.id /\ w.writes = writes[w.node] /\ w.writes # {}
    BY DEF PendingSaves
  <2>3. \A n \in Nodes : running[n] > 0 => writes[n] = {}
    BY DEF LoopInv, WritesInv
  <2>4. InHand /\ \A n \in Nodes : running[n] \in Nat
    BY <2>1, LoopAssumption DEF InHand, LoopInv, TypeOK
  <2>5. WholeInv'
    BY <2>1, <2>2, <2>4 DEF WholeInv, InHand
  <2>6. \A w \in PendingSaves : running[w.node] = 0
    BY <2>2, <2>3, <2>4
  <2>7. \A n \in Nodes :
          /\ Saved(id, n)' =>
               running'[n] = 0 /\ Matched(writes'[n]) = Matched(pwrites'[<<id, n>>])
          /\ \A w \in wputs' : Sent(w, id, n)' =>
               running'[n] = 0 /\ Matched(writes'[n]) = Matched(w.writes)
    BY <1>1, <2>1, <2>2, <2>4, <2>6 DEF OnceInv, Saved, Sent
  <2>8. \A w \in wputs' : Sent(w, w.id, w.node)' /\ Saved(w.id, w.node)'
          => Matched(pwrites'[<<w.id, w.node>>]) = Matched(w.writes)
    BY <2>1, <2>2, <2>4 DEF OnceInv, Saved, Sent
  <2>9. \A v, w \in wputs' : Sent(v, w.id, w.node)' /\ Sent(w, w.id, w.node)'
          => Matched(v.writes) = Matched(w.writes)
    <3> SUFFICES ASSUME NEW v \in wputs', NEW w \in wputs',
                        Sent(v, w.id, w.node)', Sent(w, w.id, w.node)'
                 PROVE  Matched(v.writes) = Matched(w.writes)
      OBVIOUS
    <3>1. v.id = w.id /\ v.node = w.node /\ Matched(v.writes) # {} /\ Matched(w.writes) # {}
      BY DEF Sent
    <3>2. \A u \in wputs' : u \in wputs \/ u \in PendingSaves
      BY <2>1
    <3>3. \A u \in wputs : Matched(u.writes) # {} => Sent(u, u.id, u.node)
      BY DEF Sent
    <3>4. ASSUME NEW u \in wputs, NEW q \in PendingSaves, Matched(u.writes) # {},
                 u.id = q.id, u.node = q.node
          PROVE  Matched(u.writes) = Matched(q.writes)
      <4>1. q.node \in Nodes /\ q.id = cp.id /\ q.writes = writes[q.node]
        BY <2>2
      <4>2. Sent(u, cp.id, q.node)
        BY <3>4, <4>1 DEF Sent
      <4>3. Matched(writes[q.node]) = Matched(u.writes)
        BY <2>4, <4>1, <4>2, SentInHand
      <4> QED BY <4>1, <4>3
    <3>5. CASE v \in wputs /\ w \in wputs
      BY <3>1, <3>3, <3>5 DEF OnceInv, Sent
    <3>6. CASE v \in PendingSaves /\ w \in PendingSaves
      BY <2>2, <3>1, <3>6
    <3> QED BY <3>1, <3>2, <3>4, <3>5, <3>6
  <2> QED BY <1>1, <2>5, <2>7, <2>8, <2>9 DEF OnceInv, Saved, Sent
<1> QED
  BY <1>4, <1>5, <1>6, <1>7, <1>8, <1>9, <1>10, <1>11, <1>12, <1>13, StepCases DEF Task

-----------------------------------------------------------------------------
(* The chain of saves                                                      *)

\* A superstep or an input, as apply_writes works it out, leads from what the thread
\* was to what it becomes.
LEMMA ApplyLeads ==
  ASSUME NEW id \in Nat, NEW m \in Nat, id < m, NEW k, GoodState(k, id), OldTags(k, id),
         NEW received, MadeAt(received, id), ~Conflict(received),
         \/ received = FromInput(id)
         \/ FullScan(k) # {} /\ FromRoutes(FullScan(k), id, received)
  PROVE  Leads(Snapshot(k), id, Snapshot(Apply(k, FullScan(k), received)))
<1> DEFINE from == Snapshot(k)
           new == Apply(k, FullScan(k), received)
           to == Snapshot(new)
<1>1. from.val = k.val /\ from.due = FullScan(k) /\ to.val = new.val /\ to.due = FullScan(new)
  BY DEF Snapshot
<1>2. /\ new.val = Settled(k, FullScan(k), received)
      /\ FullScan(new) = {n \in Nodes : \E c \in Triggers[n] :
             /\ received[c] # {} /\ new.val[c] # k.val[c] /\ Available(new.val, c)}
  BY StepLeads
<1> HIDE DEF from, new, to
<1>3. Settled(k, FullScan(k), received) = Settled(from, from.due, received)
  BY <1>1, SettledDepends
<1>4. to.due = {n \in Nodes : \E c \in Triggers[n] :
             /\ received[c] # {} /\ to.val[c] # from.val[c] /\ Available(to.val, c)}
  BY <1>1, <1>2
<1>5. to.val = Settled(from, from.due, received)
  BY <1>1, <1>2, <1>3
<1>6. received = FromInput(id) \/ (from.due # {} /\ FromRoutes(from.due, id, received))
  BY <1>1
<1>7. Leads(from, id, to)
  BY <1>4, <1>5, <1>6 DEF Leads
<1> QED BY <1>7 DEF from, new, to

\* Nobody but the caller writes an input, and only once.
LEMMA InputAgrees == \A id : ~Conflict(FromInput(id))
<1> SUFFICES ASSUME NEW id, NEW c \in Channels, Cardinality(FromInput(id)[c]) > 1 PROVE FALSE
  BY DEF Conflict
<1> DEFINE tag == [node |-> Input, at |-> id, try |-> 1]
<1>1. FromInput(id)[c] = {tag} \/ FromInput(id)[c] = {}
  BY DEF FromInput
<1> HIDE DEF tag
<1>2. Cardinality({tag}) = 1 /\ Cardinality({}) = 0
  BY FS_Singleton, FS_EmptySet
<1> QED BY <1>1, <1>2

\* The writes of a route to one channel.
LEMMA CommittedTo ==
  ASSUME NEW chans, NEW try, NEW c \in Channels
  PROVE  {v \in Committed(Write(chans, try)) : v.chan = c}
            = IF c \in chans THEN {[chan |-> c, try |-> try]} ELSE {}
<1>1. NoWrites # c
  BY MarkerAssumption
<1>2. \A w \in Write({NoWrites}, 1) : w.chan = NoWrites
  BY WriteIs
<1>3. \A d \in chans : [chan |-> d, try |-> try].chan = d
  OBVIOUS
<1>4. {v \in Write(chans, try) : v.chan = c}
         = IF c \in chans THEN {[chan |-> c, try |-> try]} ELSE {}
  BY DEF Write
<1>5. CASE Write(chans, try) = {}
  <2>1. {v \in Committed(Write(chans, try)) : v.chan = c} = {}
    BY <1>1, <1>2, <1>5 DEF Committed
  <2>2. c \notin chans
    BY <1>5, WriteIs
  <2> QED BY <2>1, <2>2
<1>6. CASE Write(chans, try) # {}
  BY <1>4, <1>6 DEF Committed
<1> QED BY <1>5, <1>6

\* What the channels receive at the end of a tick is what the tasks of one completed
\* attempt each sent.
LEMMA ReceivedFromRoutes ==
  ASSUME LoopInv, WholeInv, AllWritten
  PROVE  FromRoutes(tasks, cp.id, Received(tasks, writes, cp.id))
<1> DEFINE id == cp.id
           fits(n, r, t) == writes[n] = Committed(Write(r, t))
           route == [n \in tasks |-> CHOOSE r \in Routes[n] : \E t \in 0 .. MostTries : fits(n, r, t)]
           try == [n \in tasks |-> CHOOSE t \in 0 .. MostTries : fits(n, route[n], t)]
<1>1. \A n \in tasks : /\ route[n] \in Routes[n] /\ try[n] \in 0 .. MostTries
                       /\ writes[n] = Committed(Write(route[n], try[n]))
  <2> SUFFICES ASSUME NEW n \in tasks
               PROVE  /\ route[n] \in Routes[n] /\ try[n] \in 0 .. MostTries
                      /\ fits(n, route[n], try[n])
    OBVIOUS
  <2>1. Matched(writes[n]) = writes[n] /\ Whole(n, writes[n]) /\ writes[n] # {}
    <3>1. pc = "run" /\ failed = {} /\ writes[n] # {}
      BY DEF AllWritten
    <3>2. n \in Nodes
      BY DEF LoopInv, TypeOK
    <3>3. Error \notin Chans(writes[n]) /\ Whole(n, writes[n])
      BY <3>1, <3>2 DEF WholeInv, InHand
    <3> QED BY <3>1, <3>3 DEF Matched, Chans
  <2>2. \E r \in Routes[n] : \E t \in 0 .. MostTries : fits(n, r, t)
    BY <2>1 DEF Whole
  <2> HIDE DEF fits
  <2>3. route[n] \in Routes[n] /\ \E t \in 0 .. MostTries : fits(n, route[n], t)
    BY <2>2
  <2> HIDE DEF route
  <2> QED BY <2>3
<1> DEFINE sent(n, c) == {[node |-> n, at |-> id, try |-> w.try] : w \in {v \in writes[n] : v.chan = c}}
           received == [c \in Channels |->
                          {[node |-> n, at |-> id, try |-> try[n]] :
                              n \in {m \in tasks : c \in route[m]}}]
<1>2. ASSUME NEW n \in tasks, NEW c \in Channels
      PROVE  sent(n, c) = IF c \in route[n] THEN {[node |-> n, at |-> id, try |-> try[n]]} ELSE {}
  <2>1. writes[n] = Committed(Write(route[n], try[n]))
    BY <1>1
  <2> HIDE DEF route, try
  <2>2. {v \in writes[n] : v.chan = c}
          = IF c \in route[n] THEN {[chan |-> c, try |-> try[n]]} ELSE {}
    BY <2>1, CommittedTo
  <2> DEFINE at(n_) == {v \in writes[n_] : v.chan = c}
  <2>3. sent(n, c) = {[node |-> n, at |-> id, try |-> w.try] : w \in at(n)}
    OBVIOUS
  <2>4. CASE c \in route[n]
    <3>1. at(n) = {[chan |-> c, try |-> try[n]]}
      BY <2>2, <2>4
    <3> HIDE DEF at, sent
    <3> QED BY <2>3, <2>4, <3>1
  <2>5. CASE c \notin route[n]
    <3>1. at(n) = {}
      BY <2>2, <2>5
    <3> HIDE DEF at, sent
    <3> QED BY <2>3, <2>5, <3>1
  <2> QED BY <2>4, <2>5
<1>3. Received(tasks, writes, id) = [c \in Channels |-> UNION {sent(n, c) : n \in tasks}]
  BY DEF Received
<1>4. ASSUME NEW c \in Channels PROVE UNION {sent(n, c) : n \in tasks} = received[c]
  <2>1. received[c] = {[node |-> n, at |-> id, try |-> try[n]] : n \in {m \in tasks : c \in route[m]}}
    OBVIOUS
  <2> HIDE DEF sent, route, try, received
  <2>2. ASSUME NEW x \in UNION {sent(n, c) : n \in tasks} PROVE x \in received[c]
    <3>1. PICK n \in tasks : x \in sent(n, c)
      OBVIOUS
    <3>2. c \in route[n] /\ x = [node |-> n, at |-> id, try |-> try[n]]
      BY <1>2, <3>1
    <3> QED BY <2>1, <3>2
  <2>3. ASSUME NEW x \in received[c] PROVE x \in UNION {sent(n, c) : n \in tasks}
    <3>1. PICK n \in tasks : c \in route[n] /\ x = [node |-> n, at |-> id, try |-> try[n]]
      BY <2>1
    <3>2. x \in sent(n, c)
      BY <1>2, <3>1
    <3> QED BY <3>2
  <2> QED BY <2>2, <2>3
<1>5. Received(tasks, writes, id) = received
  <2> HIDE DEF sent, route, try
  <2> QED BY <1>3, <1>4
<1>6. route \in [tasks -> UNION {Routes[n] : n \in tasks}] /\ try \in [tasks -> 0 .. MostTries]
  <2>1. \A n \in tasks : route[n] \in UNION {Routes[m] : m \in tasks} /\ try[n] \in 0 .. MostTries
    BY <1>1
  <2> QED BY <2>1
<1> HIDE DEF route, try, fits, sent
<1> QED BY <1>1, <1>5, <1>6 DEF FromRoutes

\* Every save that waits is one superstep, or one input, on top of the one before it.
LEMMA ChainInductive ==
  ASSUME WholeSteps, SnapshotInv, ListedInv, StepsInv, [Next]_vars PROVE ChainInv'
<1> USE DEF WholeSteps, OwnSteps, SnapshotInv, StepsInv
<1>1. LoopInv' /\ SnapshotInv'
  BY LoopInductive, SnapshotInductive
<1>2. /\ \A p \in puts : /\ p.id \in DOMAIN taken /\ p.id \in 1 .. lastId
                         /\ p.parent = 0 \/ p.parent \in DOMAIN taken
      /\ DOMAIN taken \subseteq 1 .. lastId /\ lastId \in Nat
  BY DEF LoopInv, PutsInv, GoodPut, PutIds, TakenInv
<1>3. ASSUME UNCHANGED <<saved, puts, taken>> PROVE ChainInv'
  BY <1>3 DEF ChainInv, Origin
<1>4. CASE MovesOn \/ (\E w \in wputs : SaveWrites(w)) \/ (\E n \in Nodes : Task(n))
  BY <1>3, <1>4 DEF MovesOn, SaveWrites, Task, StartTask, RetryTask, FinishTask, FailTask, Attempt,
                    Commit, store, background, process, ghosts
<1>5. CASE RefuseWrites
  BY <1>1, <1>3, <1>5, RefuseTakes DEF RefuseWrites, store, ghosts
<1>6. CASE Return \/ Crash
  <2>1. UNCHANGED <<saved, taken>> /\ (puts' = puts \/ puts' = {})
    BY <1>6 DEF Return, Crash, Gone, store, background, ghosts
  <2> QED BY <1>3, <2>1 DEF ChainInv
<1>7. CASE Resume
  BY <1>3, <1>7 DEF Resume, store, background
<1>8. ASSUME NEW p \in puts, SaveCheckpoint(p) PROVE ChainInv'
  <2>1. DOMAIN saved' = DOMAIN saved \cup {p.id} /\ puts' = puts \ {p} /\ UNCHANGED taken
    BY <1>1, <1>8, SaveCheckpointTakes DEF SaveCheckpoint, SaveBody, ghosts
  <2>2. \A q \in puts' : p.id < q.id
    <3>1. \A q \in puts : p.id <= q.id
      BY <1>8 DEF SaveCheckpoint
    <3> QED BY <1>2, <2>1, <3>1 DEF LineInv
  <2> QED BY <2>1, <2>2 DEF ChainInv, Origin
<1>9. ASSUME NEW id \in 0 .. lastId, NEW k, NEW received, GoodState(k, id), OldTags(k, id),
             MadeAt(received, id), ~Conflict(received),
             received = FromInput(id) \/ (FullScan(k) # {} /\ FromRoutes(FullScan(k), id, received)),
             Origin(id) = Snapshot(k), id = 0 \/ id \in DOMAIN taken,
             \A i \in DOMAIN saved : i <= id, \A p \in puts : p.id <= id,
             UNCHANGED saved, taken' = With(taken, lastId + 1, Snapshot(cp'.state)),
             cp'.state = Apply(k, FullScan(k), received),
             \A p \in puts' : p \in puts \/ (p.id = lastId + 1 /\ p.parent = id)
      PROVE  ChainInv'
  <2>1. Leads(Snapshot(k), id, Snapshot(cp'.state))
    <3>1. id \in Nat /\ lastId + 1 \in Nat /\ id < lastId + 1
      BY <1>2
    <3> QED BY <1>9, <3>1, ApplyLeads
  <2>2. /\ taken'[lastId + 1] = Snapshot(cp'.state)
        /\ \A i \in DOMAIN taken : taken'[i] = taken[i]
    <3>1. lastId + 1 \notin DOMAIN taken
      BY <1>2
    <3> QED BY <1>9, <3>1 DEF With
  <2>3. \A i : i = 0 \/ i \in DOMAIN taken => Origin(i)' = Origin(i)
    BY <2>2 DEF Origin
  <2>4. ASSUME NEW p \in puts'
        PROVE  /\ \A i \in DOMAIN saved' : i <= p.parent
               /\ \A q \in puts' : q.id < p.id => q.id <= p.parent
               /\ Leads(Origin(p.parent)', p.parent, taken'[p.id])
    <3>1. CASE p \in puts
      <4>1. \A q \in puts' : q.id < p.id => q \in puts
        BY <1>2, <1>9, <3>1
      <4>2. Origin(p.parent)' = Origin(p.parent) /\ taken'[p.id] = taken[p.id]
        BY <1>2, <2>2, <2>3, <3>1
      <4> QED BY <1>9, <3>1, <4>1, <4>2 DEF ChainInv
    <3>2. CASE p.id = lastId + 1 /\ p.parent = id
      <4>1. \A q \in puts' : q.id < p.id => q \in puts
        BY <1>2, <1>9, <3>2
      <4> QED BY <1>9, <2>1, <2>2, <2>3, <3>2, <4>1
    <3> QED BY <1>9, <3>1, <3>2
  <2> QED BY <2>4 DEF ChainInv
<1>10. CASE InvokeWithInput
  <2>1. /\ cp'.state = Apply(NewestState, FullScan(NewestState), FromInput(NewestId))
        /\ cp'.id = lastId + 1 /\ taken' = With(taken, lastId + 1, Snapshot(cp'.state))
        /\ UNCHANGED saved /\ pc = "off"
    BY <1>10 DEF InvokeWithInput, PutCheckpoint, store, Begin
  <2>2. \A p \in puts' : p \in puts \/ (p.id = lastId + 1 /\ p.parent = NewestId)
    BY <1>1, <1>10, <2>1, InvokeTakes
  <2>3. /\ NewestId \in 0 .. lastId /\ GoodState(NewestState, NewestId)
        /\ \A i \in DOMAIN saved : i <= NewestId
        /\ NewestId = 0 \/ NewestId \in DOMAIN taken
        /\ Origin(NewestId) = Snapshot(NewestState)
    BY NewestIsGood DEF TakenInv, Origin
  <2>4. OldTags(NewestState, NewestId)
    <3>1. CASE NewestId \in DOMAIN saved
      BY <3>1, NewestIsGood DEF AgeInv
    <3>2. CASE NewestId = 0
      BY <3>2, NewestIsGood DEF OldTags, EmptyState, Unwritten
    <3> QED BY <3>1, <3>2, NewestIsGood
  <2>5. puts = {}
    BY <2>1 DEF LoopInv, OffInv, InHand
  <2> QED BY <1>9, <2>1, <2>2, <2>3, <2>4, <2>5, InputMadeAt, InputAgrees
<1>11. CASE AfterTick
  <2> DEFINE received == Received(tasks, writes, cp.id)
  <2>1. /\ cp'.state = Apply(cp.state, tasks, received) /\ cp'.id = lastId + 1
        /\ taken' = With(taken, lastId + 1, Snapshot(cp'.state))
        /\ UNCHANGED saved /\ AllWritten /\ ~Conflict(received) /\ pc = "run"
    BY <1>11 DEF AfterTick, AllWritten, PutCheckpoint, store
  <2>2. \A p \in puts' : p \in puts \/ (p.id = lastId + 1 /\ p.parent = cp.id)
    BY <1>1, <1>11, <2>1, AfterTickTakes
  <2>3. tasks = FullScan(cp.state) /\ tasks # {} /\ Current
    BY <2>1 DEF ListedInv, WholeInv, Current
  <2>4. FromRoutes(tasks, cp.id, received) /\ MadeAt(received, cp.id)
    BY <2>1, ReceivedFromRoutes, ReceivedMadeAt
  <2>5. /\ cp.id \in 0 .. lastId /\ GoodState(cp.state, cp.id) /\ OldTags(cp.state, cp.id)
        /\ \A i \in DOMAIN saved : i <= cp.id
        /\ \A p \in puts : p.id <= cp.id
        /\ cp.id \in DOMAIN taken /\ taken[cp.id] = Snapshot(cp.state)
    BY <2>3 DEF LoopInv, TypeOK, StatesInv, AgeInv, LineInv, TakenInv
  <2>6. Origin(cp.id) = Snapshot(cp.state)
    BY <1>2, <2>5 DEF Origin
  <2> HIDE DEF received
  <2> QED BY <1>9, <2>1, <2>2, <2>3, <2>4, <2>5, <2>6
<1>12. ~ LeaveBlock
  BY LeavesOnExit
<1> QED BY <1>4, <1>5, <1>6, <1>7, <1>8, <1>10, <1>11, <1>12, StepCases

-----------------------------------------------------------------------------
(* The refinement                                                          *)

\* Supersteps works out a superstep the way the loop does.
LEMMA SameAlgorithm ==
  /\ \A k, ts, received : Durable!Settled(k, ts, received) = Settled(k, ts, received)
  /\ \A received : Durable!Conflict(received) <=> Conflict(received)
  /\ \A val, c : Durable!Available(val, c) <=> Available(val, c)
<1>1. \A tags : Durable!Writers(tags) = Writers(tags)
  BY DEF Durable!Writers, Writers
<1>2. \A val, c : Durable!Available(val, c) <=> Available(val, c)
  BY <1>1 DEF Durable!Available, Available
<1>3. \A c, held, received : Durable!Updated(c, held, received) = Updated(c, held, received)
  BY <1>1 DEF Durable!Updated, Updated
<1>4. \A k, ts : Durable!Consumed(k, ts) = Consumed(k, ts)
  BY <1>2 DEF Durable!Consumed, Consumed, Durable!Read, Read
<1>5. \A k, ts, received : Durable!Written(k, ts, received) = Written(k, ts, received)
  BY <1>3, <1>4 DEF Durable!Written, Written
<1>6. \A k, ts, received : Durable!Settled(k, ts, received) = Settled(k, ts, received)
  BY <1>5 DEF Durable!Settled, Settled
<1>7. \A received : Durable!Conflict(received) <=> Conflict(received)
  <2>1. \A S : Durable!Cardinality(S) = Cardinality(S)
    BY DEF Durable!Cardinality, Cardinality
  <2> QED BY <2>1 DEF Durable!Conflict, Conflict
<1> QED BY <1>2, <1>6, <1>7

\* A save of what its parent leads to is a superstep of the abstract specification.
LEMMA SaveIsSuperstep ==
  ASSUME NEW from, NEW to, Leads(from, NewestId, to),
         from.val = NewestState.val, from.due = FullScan(NewestState),
         NewestId' > NewestId, (NewestState.val)' = to.val, FullScan(NewestState)' = to.due
  PROVE  Durable!Next
<1> DEFINE ready == FullScan(NewestState)
<1>1. PICK received :
        /\ received = FromInput(NewestId) \/ (ready # {} /\ FromRoutes(ready, NewestId, received))
        /\ ~Conflict(received)
        /\ to.val = Settled(from, ready, received)
        /\ to.due = {n \in Nodes : \E c \in Triggers[n] :
                        /\ received[c] # {} /\ to.val[c] # NewestState.val[c]
                        /\ Available(to.val, c)}
  BY DEF Leads
<1> DEFINE j == [val |-> NewestState.val]
           settled == Settled(j, ready, received)
           news == {c \in Channels : received[c] # {} /\ settled[c] # NewestState.val[c]}
<1>2. settled = to.val
  BY <1>1, SettledDepends
<1>3. \A n \in Nodes : Triggers[n] \subseteq Channels
  BY GraphAssumption
<1>4. to.due = {n \in Nodes : \E c \in Triggers[n] \cap news : Available(settled, c)}
  <2> HIDE DEF settled, ready, j
  <2> QED BY <1>1, <1>2, <1>3
<1>5. Durable!Step(ready, received)
  <2>1. Durable!Settled(j, ready, received) = settled /\ ~Durable!Conflict(received)
    BY <1>1, SameAlgorithm
  <2>2. to.due = {n \in Nodes : \E c \in Triggers[n] \cap news : Durable!Available(settled, c)}
    BY <1>4, SameAlgorithm
  <2> HIDE DEF settled, ready
  <2> QED BY <1>2, <2>1, <2>2 DEF Durable!Step
<1>6. CASE received = FromInput(NewestId)
  <2>1. received = [c \in Channels |-> IF c = InputChannel THEN {Durable!Tag(Durable!Input, 1)} ELSE {}]
    BY <1>6 DEF FromInput, Durable!Tag, Durable!Input, Input
  <2>2. Durable!TakeInput
    BY <1>5, <2>1 DEF Durable!TakeInput
  <2> QED BY <2>2 DEF Durable!Next
<1>7. CASE ready # {} /\ FromRoutes(ready, NewestId, received)
  <2>1. PICK route \in [ready -> UNION {Routes[n] : n \in ready}], try \in [ready -> 0 .. MostTries] :
          /\ \A n \in ready : route[n] \in Routes[n]
          /\ received = [c \in Channels |->
                {[node |-> n, at |-> NewestId, try |-> try[n]] : n \in {m \in ready : c \in route[m]}}]
    BY <1>7 DEF FromRoutes
  <2>2. received = [c \in Channels |->
                {Durable!Tag(n, try[n]) : n \in {m \in ready : c \in route[m]}}]
    BY <2>1 DEF Durable!Tag
  <2>3. Durable!Superstep
    BY <1>5, <1>7, <2>1, <2>2 DEF Durable!Superstep, MostTries
  <2> QED BY <2>3 DEF Durable!Next
<1> QED BY <1>1, <1>6, <1>7

\* Once the oldest save that waits is done, it is the newest checkpoint.
LEMMA SavedIsNewest ==
  ASSUME SnapshotInv, ChainInv, LoopInv', NEW p \in puts, SaveCheckpoint(p)
  PROVE  /\ p.parent = NewestId /\ NewestId < p.id /\ NewestId' = p.id
         /\ NewestState'.val = taken[p.id].val /\ FullScan(NewestState)' = taken[p.id].due
<1> USE DEF SnapshotInv
<1>1. /\ DOMAIN saved' = DOMAIN saved \cup {p.id} /\ \A i \in DOMAIN saved : i < p.id
      /\ SavedState(p.id)'.ver = p.state.ver /\ SavedState(p.id)'.seen = p.state.seen
      /\ SavedState(p.id)'.val = p.state.val
  BY SaveCheckpointTakes
<1>2. /\ \A q \in puts : q.id \in 1 .. lastId /\ p.id <= q.id
      /\ p.parent \in Nat /\ p.parent < p.id /\ p.parent \in {0} \cup DOMAIN saved \cup PutIds
      /\ DOMAIN saved \subseteq 1 .. lastId /\ lastId \in Nat
      /\ \A i \in DOMAIN saved : i <= p.parent
  BY DEF LoopInv, TypeOK, PutsInv, GoodPut, SaveCheckpoint, ChainInv
<1>3. p.parent \notin PutIds
  <2> SUFFICES ASSUME NEW q \in puts, p.parent = q.id PROVE FALSE
    BY DEF PutIds
  <2> QED BY <1>2
<1>4. p.parent = NewestId
  <2>1. NewestId \in {0} \cup DOMAIN saved /\ \A i \in DOMAIN saved : i <= NewestId
    BY NewestIsGood
  <2>2. DOMAIN saved = {} => NewestId = 0
    BY DEF NewestId
  <2>3. DOMAIN saved # {} => NewestId \in DOMAIN saved
    BY <1>2, NewestIsSaved
  <2> QED BY <1>2, <1>3, <2>1, <2>2, <2>3
<1>5. NewestId' = p.id
  <2>1. DOMAIN saved' \in SUBSET (1 .. lastId) /\ DOMAIN saved' # {} /\ p.id \in DOMAIN saved'
    BY <1>1, <1>2
  <2>2. Max(DOMAIN saved') \in DOMAIN saved' /\ Max(DOMAIN saved') >= p.id
    BY <1>2, <2>1, MaxOfIds
  <2>3. Max(DOMAIN saved') = p.id
    BY <1>1, <1>2, <2>1, <2>2
  <2> QED BY <2>1, <2>3 DEF NewestId
<1>6. Snapshot(NewestState)' = Snapshot(p.state)
  <2>1. NewestState' = SavedState(NewestId)' /\ DOMAIN saved' # {}
    BY <1>1 DEF NewestState
  <2>2. NewestState' = SavedState(p.id)'
    BY <1>5, <2>1 DEF SavedState, LoadBlobs
  <2>3. Snapshot(NewestState') = Snapshot(p.state)
    BY <1>1, <2>2, ScanDepends
  <2> QED BY <2>3 DEF Snapshot, FullScan, Triggered
<1>7. taken[p.id] = Snapshot(p.state)
  BY DEF TakenInv
<1>8. NewestState'.val = Snapshot(p.state).val /\ FullScan(NewestState)' = Snapshot(p.state).due
  BY <1>6 DEF Snapshot
<1> QED BY <1>2, <1>4, <1>5, <1>7, <1>8

\* Only a save moves the newest checkpoint.
LEMMA OnlySavesShow ==
  ASSUME WholeSteps, SnapshotInv, TriesInv, WholeInv, [Next]_vars,
         ~ \E p \in puts : SaveCheckpoint(p)
  PROVE  UNCHANGED <<saved, blobs>>
<1>1. LoopInv /\ Durability # "exit"
  BY DEF SnapshotInv, WholeSteps
<1> QED
  BY <1>1, LeavesOnExit, StepCases DEF InvokeWithInput, Resume, RefuseWrites, AfterTick, MovesOn, Return, Crash, Gone,
     SaveWrites, Task, StartTask, RetryTask, FinishTask, FailTask, Attempt, Commit, store

LEMMA StepRefines ==
  ASSUME WholeSteps, SnapshotInv, ListedInv, StepsInv, [Next]_vars
  PROVE  [Durable!Next]_(Durable!vars)
<1> USE DEF StepsInv
<1>1. LoopInv'
  BY LoopInductive DEF SnapshotInv
<1>2. ASSUME NEW p \in puts, SaveCheckpoint(p) PROVE Durable!Next
  <2> DEFINE from == Origin(NewestId)
             to == taken[p.id]
  <2>1. /\ p.parent = NewestId /\ NewestId < p.id /\ NewestId' = p.id
        /\ NewestState'.val = to.val /\ FullScan(NewestState)' = to.due
    BY <1>1, <1>2, SavedIsNewest
  <2>2. Leads(from, NewestId, to)
    BY <2>1 DEF ChainInv
  <2>3. from = Snapshot(NewestState)
    BY NewestIsGood DEF SnapshotInv, TakenInv, Origin
  <2>4. from.val = NewestState.val /\ from.due = FullScan(NewestState)
    BY <2>3 DEF Snapshot
  <2>5. NewestId' > NewestId
    <3>1. NewestId \in Nat /\ p.id \in Nat
      BY NewestIsGood DEF SnapshotInv, LoopInv, PutsInv, GoodPut
    <3> QED BY <2>1, <3>1
  <2> HIDE DEF from, to
  <2> QED BY <2>1, <2>2, <2>4, <2>5, SaveIsSuperstep
<1>3. CASE ~ \E p \in puts : SaveCheckpoint(p)
  <2>1. UNCHANGED <<saved, blobs>>
    BY <1>3, OnlySavesShow DEF WholeSteps
  <2>2. UNCHANGED Durable!vars
    BY <2>1, SavedStay DEF Durable!vars
  <2> QED BY <2>2
<1>4. CASE \E p \in puts : SaveCheckpoint(p)
  <2>1. Durable!Next
    BY <1>2, <1>4
  <2> QED BY <2>1
<1> QED BY <1>3, <1>4

LEMMA StepsInit == ASSUME OwnSteps, Init PROVE StepsInv /\ ListedInv /\ Durable!Init
<1> USE DEF Init
<1>1. DOMAIN saved = {} /\ DOMAIN pwrites = {} /\ puts = {} /\ wputs = {} /\ pc = "off"
  OBVIOUS
<1>2. AgeInv /\ WholeInv /\ OnceInv /\ ChainInv /\ ListedInv
  BY <1>1 DEF AgeInv, WholeInv, OnceInv, ChainInv, ListedInv, Current, InHand
<1>3. TriesInv
  <2>1. \A n \in Nodes : tries[n] = 0 /\ ~Startable(n)
    BY DEF Idle, Startable, InHand
  <2>2. budget.resumes = MaxResumes /\ budget.failures = MaxFailures /\ budget.updates = 0
    BY DEF OwnSteps
  <2>3. tries \in [Nodes -> Nat] /\ MaxResumes \in Nat /\ MaxFailures \in Nat
    BY LoopAssumption DEF Idle
  <2>4. \A n \in Nodes : tries[n] + budget.resumes + budget.failures
                            + (IF Startable(n) THEN 1 ELSE 0) <= MostTries
    <3> HIDE DEF Init
    <3> QED BY <2>1, <2>2, <2>3 DEF MostTries
  <2> QED BY <2>2, <2>3, <2>4 DEF TriesInv
<1>4. Durable!Init
  <2>1. NewestId = 0 /\ NewestState = EmptyState
    BY <1>1 DEF NewestId, NewestState
  <2>2. FullScan(EmptyState) = {} /\ EmptyState.val = [c \in Channels |-> {}]
    BY EmptyIsGood DEF EmptyState
  <2> QED BY <2>1, <2>2 DEF Durable!Init
<1> QED BY <1>2, <1>3, <1>4 DEF StepsInv

\* What a reader of the saver sees of a thread (get_state: the newest checkpoint's
\* values and the nodes due there) moves by whole supersteps only, each of every node
\* that was due, each of one completed attempt, although checkpoints and pending
\* writes are saved one by one in the background, attempts fail and are retried, the
\* process crashes and the thread is resumed.
THEOREM SaverShowsSupersteps == WholeSteps => (Spec => ImplementsSupersteps)
<1> SUFFICES ASSUME WholeSteps PROVE Spec => ImplementsSupersteps
  OBVIOUS
<1> DEFINE I == SnapshotInv /\ ListedInv /\ StepsInv
<1>1. Init => I /\ Durable!Init
  BY SnapshotInit, StepsInit DEF WholeSteps
<1>2. I /\ [Next]_vars => I'
  <2> SUFFICES ASSUME I, [Next]_vars PROVE I'
    OBVIOUS
  <2>1. LoopInv /\ OwnSteps /\ SavesAreOwn
    BY DEF SnapshotInv, WholeSteps, OwnSteps
  <2>2. SnapshotInv' /\ ListedInv'
    BY <2>1, SnapshotInductive, ListedInductive
  <2>3. AgeInv' /\ TriesInv' /\ WholeInv' /\ OnceInv' /\ ChainInv'
    BY <2>1, AgeInductive, TriesInductive, WritesInductive, ChainInductive DEF StepsInv, SnapshotInv
  <2> QED BY <2>2, <2>3 DEF StepsInv
<1>3. I /\ [Next]_vars => [Durable!Next]_(Durable!vars)
  BY StepRefines
<1> HIDE DEF I
<1> QED BY <1>1, <1>2, <1>3, PTL DEF Spec, ImplementsSupersteps, Durable!Spec

-----------------------------------------------------------------------------
(* What the caller sees                                                    *)

\* What CallerSeesSupersteps needs besides: no superstep is refused (the caller would
\* see what it left half done), and no crash takes back what the caller has seen.
CallerSteps ==
    /\ OwnSteps /\ MaxCrashes = 0
    /\ \A c \in Channels : Kind[c] # "last"

\* The checkpoint a run leaves with the saver is as it was taken.
ReturnInv == pc = "exit" => taken[cp.id] = Snapshot(cp.state)

CallerInv ==
    /\ SnapshotInv /\ ListedInv /\ AgeInv /\ TriesInv /\ WholeInv /\ OnceInv
    /\ DeliveredInv /\ ReturnInv /\ NoCrashLeft

LEMMA NeverRefused == ASSUME \A c \in Channels : Kind[c] # "last" PROVE ~ RefuseWrites
BY DEF RefuseWrites, Conflict

LEMMA ReturnInductive ==
  ASSUME \A c \in Channels : Kind[c] # "last", SnapshotInv, ReturnInv, [Next]_vars
  PROVE  ReturnInv'
<1> SUFFICES ASSUME pc' = "exit" PROVE taken'[cp'.id] = Snapshot(cp'.state)
  BY DEF ReturnInv, Snapshot, FullScan, Triggered
<1>1. CASE AfterTick
  <2>1. cp'.id = lastId + 1 /\ taken' = With(taken, lastId + 1, Snapshot(cp'.state))
    BY <1>1 DEF AfterTick, PutCheckpoint
  <2> QED BY <2>1 DEF With
<1>2. CASE ~ AfterTick
  <2>1. UNCHANGED <<cp, taken>> /\ (Current \/ pc = "exit")
    BY <1>2, StepIs, NeverRefused DEF InvokeWithInput, Resume, Begin, LeaveBlock, UpdatePut, Quiet,
       OutOfSteps, Done, StopBefore, Tick, Panic, AwaitSave, Leave, Return, Crash, Gone, Task,
       StartTask, RetryTask, FinishTask, FailTask, Attempt, Commit, UpdateWrites, SaveCheckpoint,
       SaveBody, SaveWrites, vars, process, ghosts, Current
  <2>2. Current => taken[cp.id] = Snapshot(cp.state)
    BY DEF SnapshotInv, TakenInv
  <2> QED BY <2>1, <2>2 DEF ReturnInv
<1> QED BY <1>1, <1>2

\* The id and the state of the checkpoint the caller reads.
Head == IF InHand THEN cp.id ELSE NewestId
HeadState == IF InHand THEN cp.state ELSE NewestState

LEMMA CallerSees ==
  /\ (IF InHand THEN cp.state.val ELSE NewestState.val) = HeadState.val
  /\ FullScan(IF InHand THEN cp.state ELSE NewestState) = FullScan(HeadState)
BY DEF HeadState

LEMMA CallerSeesNext ==
  /\ (IF InHand THEN cp.state.val ELSE NewestState.val)' = HeadState'.val
  /\ FullScan(IF InHand THEN cp.state ELSE NewestState)' = FullScan(HeadState')
BY DEF HeadState, FullScan, Triggered

LEMMA CallerAlgorithm ==
  /\ \A k, ts, received : Live!Settled(k, ts, received) = Settled(k, ts, received)
  /\ \A received : Live!Conflict(received) <=> Conflict(received)
  /\ \A val, c : Live!Available(val, c) <=> Available(val, c)
<1>1. \A tags : Live!Writers(tags) = Writers(tags)
  BY DEF Live!Writers, Writers
<1>2. \A val, c : Live!Available(val, c) <=> Available(val, c)
  BY <1>1 DEF Live!Available, Available
<1>3. \A c, held, received : Live!Updated(c, held, received) = Updated(c, held, received)
  BY <1>1 DEF Live!Updated, Updated
<1>4. \A k, ts : Live!Consumed(k, ts) = Consumed(k, ts)
  BY <1>2 DEF Live!Consumed, Consumed, Live!Read, Read
<1>5. \A k, ts, received : Live!Written(k, ts, received) = Written(k, ts, received)
  BY <1>3, <1>4 DEF Live!Written, Written
<1>6. \A k, ts, received : Live!Settled(k, ts, received) = Settled(k, ts, received)
  BY <1>5 DEF Live!Settled, Settled
<1>7. \A received : Live!Conflict(received) <=> Conflict(received)
  <2>1. \A S : Live!Cardinality(S) = Cardinality(S)
    BY DEF Live!Cardinality, Cardinality
  <2> QED BY <2>1 DEF Live!Conflict, Conflict
<1> QED BY <1>2, <1>6, <1>7

\* What the state in hand leads to is a superstep of the abstract specification.
LEMMA CallerSuperstep ==
  ASSUME NEW from, NEW to, Leads(from, Head, to), from = Snapshot(HeadState),
         Head' > Head, to = Snapshot(HeadState')
  PROVE  Live!Next
<1> DEFINE ready == FullScan(HeadState)
<1>0. from.val = HeadState.val /\ from.due = ready
      /\ to.val = HeadState'.val /\ to.due = FullScan(HeadState')
  BY DEF Snapshot
<1>1. PICK received :
        /\ received = FromInput(Head) \/ (ready # {} /\ FromRoutes(ready, Head, received))
        /\ ~Conflict(received)
        /\ to.val = Settled(from, ready, received)
        /\ to.due = {n \in Nodes : \E c \in Triggers[n] :
                        /\ received[c] # {} /\ to.val[c] # HeadState.val[c]
                        /\ Available(to.val, c)}
  BY <1>0 DEF Leads
<1> DEFINE j == [val |-> HeadState.val]
           settled == Settled(j, ready, received)
           news == {c \in Channels : received[c] # {} /\ settled[c] # HeadState.val[c]}
<1>2. settled = to.val
  BY <1>0, <1>1, SettledDepends
<1>3. \A n \in Nodes : Triggers[n] \subseteq Channels
  BY GraphAssumption
<1>4. to.due = {n \in Nodes : \E c \in Triggers[n] \cap news : Available(settled, c)}
  <2> HIDE DEF settled, ready, j
  <2> QED BY <1>1, <1>2, <1>3
<1>5. Live!Step(ready, received)
  <2>1. Live!Settled(j, ready, received) = settled /\ ~Live!Conflict(received)
    BY <1>1, CallerAlgorithm
  <2>2. to.due = {n \in Nodes : \E c \in Triggers[n] \cap news : Live!Available(settled, c)}
    BY <1>4, CallerAlgorithm
  <2>3. /\ (IF InHand THEN cp.state.val ELSE NewestState.val)' = settled
        /\ FullScan(IF InHand THEN cp.state ELSE NewestState)' = to.due
    <3>1. HeadState'.val = settled /\ FullScan(HeadState') = to.due
      BY <1>0, <1>2
    <3> QED BY <3>1, CallerSeesNext
  <2>4. (IF InHand THEN cp.state.val ELSE NewestState.val) = HeadState.val
    BY CallerSees
  <2> HIDE DEF settled, ready
  <2> QED BY <2>1, <2>2, <2>3, <2>4 DEF Live!Step
<1>6. CASE received = FromInput(Head)
  <2>1. received = [c \in Channels |-> IF c = InputChannel THEN {Live!Tag(Live!Input, 1)} ELSE {}]
    BY <1>6 DEF FromInput, Live!Tag, Live!Input, Input, Head
  <2>2. Live!TakeInput
    BY <1>5, <2>1, CallerSees DEF Live!TakeInput, Head
  <2> QED BY <2>2 DEF Live!Next
<1>7. CASE ready # {} /\ FromRoutes(ready, Head, received)
  <2> DEFINE there == FullScan(IF InHand THEN cp.state ELSE NewestState)
  <2>1. there = ready
    BY CallerSees
  <2>2. there # {} /\ FromRoutes(there, Head, received) /\ Live!Step(there, received)
    <3> HIDE DEF there, ready
    <3> QED BY <1>5, <1>7, <2>1
  <2>3. PICK route \in [there -> UNION {Routes[n] : n \in there}], try \in [there -> 0 .. MostTries] :
          /\ \A n \in there : route[n] \in Routes[n]
          /\ received = [c \in Channels |->
                {[node |-> n, at |-> Head, try |-> try[n]] : n \in {m \in there : c \in route[m]}}]
    BY <2>2 DEF FromRoutes
  <2>4. received = [c \in Channels |->
                {Live!Tag(n, try[n]) : n \in {m \in there : c \in route[m]}}]
    BY <2>3 DEF Live!Tag, Head
  <2>5. Live!Superstep
    <3>1. \E r \in [there -> UNION {Routes[n] : n \in there}], t \in [there -> 0 .. MostTries] :
            /\ \A n \in there : r[n] \in Routes[n]
            /\ Live!Step(there, [c \in Channels |->
                  {Live!Tag(n, t[n]) : n \in {m \in there : c \in r[m]}}])
      <4> HIDE DEF there
      <4>1. Live!Step(there, [c \in Channels |->
                  {Live!Tag(n, try[n]) : n \in {m \in there : c \in route[m]}}])
        BY <2>2, <2>4
      <4> QED BY <2>3, <4>1
    <3> QED BY <2>2, <3>1 DEF Live!Superstep, MostTries, Head
  <2> QED BY <2>5 DEF Live!Next
<1> QED BY <1>1, <1>6, <1>7

\* Nothing happens as long as the checkpoint in hand shows the same.
LEMMA CallerStutters ==
  ASSUME Head' = Head, Snapshot(HeadState') = Snapshot(HeadState) PROVE UNCHANGED Live!vars
<1>1. HeadState'.val = HeadState.val /\ FullScan(HeadState') = FullScan(HeadState)
  BY DEF Snapshot
<1> QED BY <1>1, CallerSees, CallerSeesNext DEF Live!vars, Head

LEMMA HeadStays ==
  ASSUME UNCHANGED <<cp, saved, blobs>>, InHand' <=> InHand
  PROVE  Head' = Head /\ Snapshot(HeadState') = Snapshot(HeadState)
BY DEF Head, HeadState, NewestId, NewestState, SavedState, LoadBlobs

LEMMA CallerRefines ==
  ASSUME CallerSteps, CallerInv, [Next]_vars
  PROVE  [Live!Next]_(Live!vars)
<1> USE DEF CallerSteps, OwnSteps, CallerInv, SnapshotInv
<1>1. LoopInv' /\ ~ Crash /\ ~ RefuseWrites
  BY LoopInductive, NoCrashInductive, NeverRefused
<1>2. CASE MovesOn \/ LeaveBlock \/ (\E w \in wputs : SaveWrites(w)) \/ (\E n \in Nodes : Task(n))
  <2>1. UNCHANGED <<cp, saved, blobs>> /\ (InHand' <=> InHand)
    BY <1>2 DEF MovesOn, LeaveBlock, SaveWrites, Task, StartTask, RetryTask, FinishTask, FailTask,
                Attempt, Commit, store, process, InHand
  <2> QED BY <2>1, HeadStays, CallerStutters
<1>3. CASE \E p \in puts : SaveCheckpoint(p)
  <2>1. InHand /\ UNCHANGED <<cp, pc>>
    BY <1>3 DEF SaveCheckpoint, SaveBody, process, LoopInv, OffInv
  <2>2. Head' = Head /\ HeadState' = HeadState
    BY <2>1 DEF Head, HeadState, InHand
  <2> QED BY <2>2, CallerStutters DEF Snapshot, FullScan, Triggered
<1>4. CASE Return
  <2>1. /\ pc = "exit" /\ pc' = "off" /\ puts = {} /\ UNCHANGED <<cp, saved, blobs>>
    BY <1>4 DEF Return, Gone, store
  <2>2. Delivered /\ taken[cp.id] = Snapshot(cp.state) /\ Known = DOMAIN saved
    BY <2>1 DEF DeliveredInv, ReturnInv, Known, PutIds
  <2>3. NewestId = cp.id
    <3>1. lastId \in Nat /\ DOMAIN saved \subseteq 1 .. lastId
      BY DEF LoopInv, PutsInv, TypeOK
    <3>2. NewestId \in DOMAIN saved /\ cp.id \in DOMAIN saved /\ cp.id <= NewestId /\ NewestId <= cp.id
      BY <2>2, <3>1, NewestIsSaved DEF Delivered
    <3> QED BY <3>1, <3>2
  <2>4. Snapshot(NewestState) = Snapshot(cp.state)
    BY <2>2, <2>3, NewestIsGood DEF Delivered, TakenInv
  <2>5. Head' = NewestId /\ HeadState' = NewestState
    BY <2>1 DEF Head, HeadState, InHand, NewestId, NewestState, SavedState, LoadBlobs
  <2>6. Head = cp.id /\ HeadState = cp.state
    BY <2>1 DEF Head, HeadState, InHand
  <2> QED BY <2>3, <2>4, <2>5, <2>6, CallerStutters
<1>5. CASE Resume
  <2>1. pc = "off" /\ pc' = "tick" /\ cp'.id = NewestId
    BY <1>5 DEF Resume, Begin
  <2>2. Head = NewestId /\ HeadState = NewestState /\ Head' = NewestId /\ HeadState' = cp'.state
    BY <2>1 DEF Head, HeadState, InHand
  <2>3. Snapshot(cp'.state) = Snapshot(NewestState)
    BY <1>1, <1>5, ResumeTakes, ScanDepends
  <2> QED BY <2>2, <2>3, CallerStutters
<1>6. CASE InvokeWithInput
  <2>1. /\ cp'.state = Apply(NewestState, FullScan(NewestState), FromInput(NewestId))
        /\ cp'.id = lastId + 1 /\ pc = "off" /\ pc' = "tick"
    BY <1>6 DEF InvokeWithInput, PutCheckpoint, Begin
  <2>2. NewestId \in 0 .. lastId /\ GoodState(NewestState, NewestId)
    BY NewestIsGood
  <2>3. OldTags(NewestState, NewestId)
    <3>1. CASE NewestId \in DOMAIN saved
      BY <3>1, NewestIsGood DEF AgeInv
    <3>2. CASE NewestId = 0
      BY <3>2, NewestIsGood DEF OldTags, EmptyState, Unwritten
    <3> QED BY <3>1, <3>2, NewestIsGood
  <2>4. NewestId \in Nat /\ lastId + 1 \in Nat /\ NewestId < lastId + 1
    BY <2>2, NewestIsGood
  <2>5. Head = NewestId /\ HeadState = NewestState /\ Head' = lastId + 1 /\ HeadState' = cp'.state
    BY <2>1 DEF Head, HeadState, InHand
  <2>6. Leads(Snapshot(NewestState), NewestId, Snapshot(cp'.state))
    BY <2>1, <2>2, <2>3, <2>4, InputMadeAt, InputAgrees, ApplyLeads
  <2>7. Head' > Head
    BY <2>4, <2>5
  <2> QED BY <2>5, <2>6, <2>7, CallerSuperstep
<1>7. CASE AfterTick
  <2> DEFINE received == Received(tasks, writes, cp.id)
  <2>1. /\ cp'.state = Apply(cp.state, tasks, received) /\ cp'.id = lastId + 1
        /\ AllWritten /\ ~Conflict(received) /\ pc = "run" /\ pc' \in {WayOut, "wait", "tick"}
    BY <1>7 DEF AfterTick, AllWritten, PutCheckpoint
  <2>2. tasks = FullScan(cp.state) /\ tasks # {}
    BY <2>1 DEF ListedInv, WholeInv
  <2>3. FromRoutes(tasks, cp.id, received) /\ MadeAt(received, cp.id)
    BY <2>1, ReceivedFromRoutes, ReceivedMadeAt
  <2>4. cp.id \in 0 .. lastId /\ GoodState(cp.state, cp.id) /\ OldTags(cp.state, cp.id)
    BY <2>1 DEF LoopInv, TypeOK, StatesInv, AgeInv, Current
  <2>5. cp.id \in Nat /\ lastId + 1 \in Nat /\ cp.id < lastId + 1
    BY <2>4 DEF LoopInv, PutsInv
  <2>6. Head = cp.id /\ HeadState = cp.state /\ Head' = lastId + 1 /\ HeadState' = cp'.state
    BY <2>1 DEF Head, HeadState, InHand, WayOut
  <2> HIDE DEF received
  <2>7. Leads(Snapshot(cp.state), cp.id, Snapshot(cp'.state))
    BY <2>1, <2>2, <2>3, <2>4, <2>5, ApplyLeads
  <2>8. Head' > Head
    BY <2>5, <2>6
  <2> QED BY <2>6, <2>7, <2>8, CallerSuperstep
<1> QED BY <1>1, <1>2, <1>3, <1>4, <1>5, <1>6, <1>7, StepCases

\* What the caller of an invocation sees of a thread, in hand while a run lasts and in
\* the saver before and after, moves by whole supersteps only, with every durability:
\* with "exit", although many supersteps go by between two saves, none is lost when a
\* run returns, fails or is interrupted. (A crash does take back what was not saved,
\* so the process does not crash here.)
THEOREM CallerSeesWholeSteps == CallerSteps => (Spec => CallerSeesSupersteps)
<1> SUFFICES ASSUME CallerSteps PROVE Spec => CallerSeesSupersteps
  OBVIOUS
<1>1. Init => CallerInv /\ Live!Init
  <2> SUFFICES ASSUME Init PROVE CallerInv /\ Live!Init
    OBVIOUS
  <2>1. SnapshotInv /\ ListedInv /\ StepsInv
    BY SnapshotInit, StepsInit DEF CallerSteps
  <2>2. DeliveredInv /\ ReturnInv /\ NoCrashLeft /\ ~ InHand /\ DOMAIN saved = {}
    BY DEF Init, DeliveredInv, ReturnInv, NoCrashLeft, CallerSteps, InHand
  <2>3. Head = 0 /\ HeadState = EmptyState
    BY <2>2 DEF Head, HeadState, NewestId, NewestState
  <2>4. FullScan(EmptyState) = {} /\ EmptyState.val = [c \in Channels |-> {}]
    BY EmptyIsGood DEF EmptyState
  <2>5. Live!Init
    BY <2>3, <2>4, CallerSees DEF Live!Init, Head
  <2> QED BY <2>1, <2>2, <2>5 DEF StepsInv, CallerInv
<1>2. CallerInv /\ [Next]_vars => CallerInv'
  <2> SUFFICES ASSUME CallerInv, [Next]_vars PROVE CallerInv'
    OBVIOUS
  <2>1. OwnSteps /\ SavesAreOwn /\ \A c \in Channels : Kind[c] # "last"
    BY DEF CallerSteps, OwnSteps
  <2>2. /\ SnapshotInv /\ ListedInv /\ AgeInv /\ TriesInv /\ WholeInv /\ OnceInv
        /\ DeliveredInv /\ ReturnInv /\ NoCrashLeft /\ LoopInv /\ ShareInv
    BY DEF CallerInv, SnapshotInv
  <2>3. SnapshotInv' /\ ListedInv'
    BY <2>1, <2>2, SnapshotInductive, ListedInductive
  <2>4. AgeInv' /\ TriesInv' /\ WholeInv' /\ OnceInv'
    BY <2>1, <2>2, AgeInductive, TriesInductive, WritesInductive
  <2>5. DeliveredInv' /\ ReturnInv' /\ NoCrashLeft'
    BY <2>1, <2>2, DeliveredInductive, ReturnInductive, NoCrashInductive
  <2> QED BY <2>3, <2>4, <2>5 DEF CallerInv
<1>3. CallerInv /\ [Next]_vars => [Live!Next]_(Live!vars)
  BY CallerRefines
<1> QED BY <1>1, <1>2, <1>3, PTL DEF Spec, CallerSeesSupersteps, Live!Spec
=============================================================================
