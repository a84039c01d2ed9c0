---------------------------- MODULE ServicesProofs ----------------------------
(***************************************************************************)
(* Proofs about the parts of MCServices: the times to live of a store's     *)
(* items; the SDK's streams, which hand over every part of a run once and   *)
(* in order, whatever chunks their bytes come in; requests that are sent    *)
(* again; and nodes that stop to ask, whose answers stay with their         *)
(* questions. Each for every value of the constants.                        *)
(***************************************************************************)
EXTENDS MCServices, SequenceTheorems, NaturalsInduction, WellFoundedInduction, TLAPS

-----------------------------------------------------------------------------
(* Times to live                                                           *)

ItemRows == [stored : BOOLEAN, ttl : Nat \cup {Forever}, expires : Nat \cup {Forever}]

\* What is known of an item with a ttl: its column is the one of the ttl it was put with.
LeaseInv(k) ==
    /\ lease[k] \in Nat /\ touched[k] <= now
    /\ rows[k].ttl = Column(lease[k]) /\ rows[k].expires \in Nat
    /\ rows[k].expires + Slack(k) >= Due(k)
    /\ rows[k].expires <= now + lease[k] + Slack(k)
    /\ ~config.sqlite => rows[k].expires <= Due(k) + Slack(k)

\* The invariant: what is said of the deadlines, and the types it needs.
DeadlineInv ==
    /\ now \in Nat /\ config \in Configs
    /\ touched \in [Keys -> Nat] /\ lease \in [Keys -> Ttls \cup {Forever}]
    /\ rows \in [Keys -> ItemRows]
    /\ \A k \in Keys : HasTtl(k) => LeaseInv(k)

\* A whole number of minutes is kept, any other is rounded by half a minute at most.
LEMMA RoundedIsNear ==
    ASSUME NEW ttl \in Nat
    PROVE  /\ Rounded(ttl) \in Nat
           /\ Rounded(ttl) + 30 >= ttl /\ Rounded(ttl) <= ttl + 30
           /\ ttl % 60 = 0 => Rounded(ttl) = ttl
  <1>. DEFINE whole == ttl \div 60
              rest == ttl % 60
  <1>1. whole \in Nat /\ rest \in 0 .. 59 /\ ttl = 60 * whole + rest
    OBVIOUS
  <1>2. \/ Rounded(ttl) = whole * 60 /\ ~(2 * rest > 60)
        \/ Rounded(ttl) = (whole + 1) * 60 /\ 2 * rest >= 60
    BY <1>1 DEF Rounded, Minute
  <1>. HIDE DEF whole, rest
  <1>3. /\ Rounded(ttl) \in Nat
        /\ Rounded(ttl) + 30 >= ttl /\ Rounded(ttl) <= ttl + 30
        /\ rest = 0 => Rounded(ttl) = ttl
    BY <1>1, <1>2
  <1>. QED BY <1>3 DEF rest

\* The column is within the slack of the ttl.
LEMMA ColumnIsNear ==
    ASSUME NEW k \in Keys, lease[k] \in Nat
    PROVE  /\ Column(lease[k]) \in Nat /\ Slack(k) \in Nat
           /\ Column(lease[k]) + Slack(k) >= lease[k]
           /\ Column(lease[k]) <= lease[k] + Slack(k)
  <1>1. lease[k] # Forever
    BY TtlAssumption
  <1>2. CASE config.sqlite
    BY <1>1, <1>2 DEF Column, Slack
  <1>3. CASE ~config.sqlite
    <2>1. Column(lease[k]) = Rounded(lease[k])
      BY <1>1, <1>3 DEF Column
    <2>2. Slack(k) = IF lease[k] % 60 = 0 THEN 0 ELSE 30
      BY <1>3 DEF Slack, Minute
    <2>. QED BY <2>1, <2>2, RoundedIsNear
  <1>. QED BY <1>2, <1>3

LEMMA RenewedIsTyped ==
    ASSUME NEW S \in SUBSET Keys, DeadlineInv
    PROVE  Renewed(S) \in [Keys -> ItemRows]
  <1>1. ASSUME NEW k \in Keys
        PROVE  Renewed(S)[k] \in ItemRows
    <2>1. rows[k] \in ItemRows /\ now \in Nat
      BY DEF DeadlineInv
    <2>2. After(rows[k].ttl) \in Nat \cup {Forever}
      BY <2>1 DEF After, ItemRows
    <2>. QED BY <2>1, <2>2 DEF Renewed, ItemRows
  <1>. QED BY <1>1 DEF Renewed

\* What is known of an item stays if its row and history do.
LEMMA LeaseStays ==
    ASSUME NEW k \in Keys, LeaseInv(k), DeadlineInv, now' \in Nat, now' >= now, config' = config,
           rows'[k] = rows[k], touched'[k] = touched[k], lease'[k] = lease[k]
    PROVE  LeaseInv(k)'
  <1>1. Slack(k) \in Nat /\ lease[k] \in Nat /\ now \in Nat /\ touched[k] \in Nat
        /\ rows[k].expires \in Nat
    BY ColumnIsNear DEF LeaseInv, DeadlineInv
  <1>2. Slack(k)' = Slack(k) /\ Column(lease[k])' = Column(lease[k]) /\ Due(k)' = Due(k)
    BY DEF Slack, Column, Due
  <1>3. /\ lease[k] \in Nat /\ touched[k] <= now /\ rows[k].ttl = Column(lease[k])
        /\ rows[k].expires + Slack(k) >= Due(k)
        /\ rows[k].expires <= now + lease[k] + Slack(k)
        /\ ~config.sqlite => rows[k].expires <= Due(k) + Slack(k)
    BY DEF LeaseInv
  <1>4. touched[k] <= now' /\ rows[k].expires <= now' + lease[k] + Slack(k)
    BY <1>1, <1>3
  <1>. QED BY <1>1, <1>2, <1>3, <1>4 DEF LeaseInv

\* An item that is renewed now has its column from now on; where it was not touched it had
\* a touch before.
LEMMA LeaseIsRenewed ==
    ASSUME NEW k \in Keys, LeaseInv(k), DeadlineInv, now' = now, config' = config,
           rows'[k] = [rows[k] EXCEPT !.expires = After(rows[k].ttl)], lease'[k] = lease[k],
           touched'[k] = now \/ (touched'[k] = touched[k] /\ config.sqlite)
    PROVE  LeaseInv(k)'
  <1>1. /\ Slack(k) \in Nat /\ lease[k] \in Nat /\ now \in Nat /\ touched[k] \in Nat
        /\ Column(lease[k]) \in Nat
        /\ Column(lease[k]) + Slack(k) >= lease[k] /\ Column(lease[k]) <= lease[k] + Slack(k)
        /\ touched[k] <= now /\ rows[k].ttl = Column(lease[k])
    BY ColumnIsNear DEF LeaseInv, DeadlineInv
  <1>2. Slack(k)' = Slack(k) /\ Column(lease[k])' = Column(lease[k])
    BY DEF Slack, Column
  <1>3. rows[k] \in ItemRows
    BY DEF DeadlineInv
  <1>4. rows'[k].ttl = Column(lease[k]) /\ rows'[k].expires = now + Column(lease[k])
    BY <1>1, <1>3, TtlAssumption DEF ItemRows, After
  <1>5. Due(k)' = touched'[k] + lease[k]
    BY DEF Due
  <1>. QED BY <1>1, <1>2, <1>4, <1>5 DEF LeaseInv

\* Renewing the items of S and noting that those of T were read keeps DeadlineInv.
LEMMA RefreshKeepsInv ==
    ASSUME DeadlineInv, NEW S \in SUBSET Keys, NEW T \in SUBSET S, ~config.sqlite => S = T,
           rows' = Renewed(S), lease' = lease, now' = now, config' = config,
           touched' = [k \in Keys |-> IF k \in T /\ HasTtl(k) THEN now ELSE touched[k]]
    PROVE  DeadlineInv'
  <1>1. rows' \in [Keys -> ItemRows]
    BY RenewedIsTyped
  <1>2. touched' \in [Keys -> Nat] /\ now' \in Nat
    BY DEF DeadlineInv
  <1>3. ASSUME NEW k \in Keys, HasTtl(k)'
        PROVE  LeaseInv(k)'
    <2>0. /\ lease'[k] = lease[k] /\ now \in Nat /\ now' \in Nat /\ now' >= now
          /\ rows[k] \in ItemRows
      BY DEF DeadlineInv
    <2>1. CASE k \in S /\ HasTtl(k)
      <3>1. rows'[k] = [rows[k] EXCEPT !.expires = After(rows[k].ttl)]
        BY <2>1 DEF Renewed
      <3>2. touched'[k] = now \/ (touched'[k] = touched[k] /\ config.sqlite)
        BY <2>1
      <3>3. LeaseInv(k)
        BY <2>1 DEF DeadlineInv
      <3>. QED BY <2>0, <3>1, <3>2, <3>3, LeaseIsRenewed
    <2>2. CASE ~(k \in S /\ HasTtl(k))
      <3>1. rows'[k] = rows[k]
        BY <2>2 DEF Renewed
      <3>2. HasTtl(k)
        BY <1>3, <3>1 DEF HasTtl, Stored
      <3>3. touched'[k] = touched[k] /\ LeaseInv(k)
        BY <2>2, <3>2 DEF DeadlineInv
      <3>. QED BY <2>0, <3>1, <3>3, LeaseStays
    <2>. QED BY <2>1, <2>2
  <1>. QED BY <1>1, <1>2, <1>3 DEF DeadlineInv

LEMMA DeadlineBegins == Init => DeadlineInv
  <1>. SUFFICES ASSUME Init PROVE DeadlineInv
    OBVIOUS
  <1>1. config \in Configs /\ now = 1 /\ rows = [k \in Keys |-> Absent]
        /\ touched = [k \in Keys |-> 0]
    BY DEF Init
  <1>2. lease \in [Keys -> Ttls \cup {Forever}]
    BY DEF Init
  <1>. QED BY <1>1, <1>2 DEF DeadlineInv, Absent, ItemRows, HasTtl, Stored

LEMMA ForgettingKeeps ==
    ASSUME DeadlineInv, NEW gone \in SUBSET Keys, Forget(gone), now' = now, config' = config,
           rows' = [k \in Keys |-> IF k \in gone THEN Absent ELSE rows[k]]
    PROVE  DeadlineInv'
  <1>1. Absent \in ItemRows /\ Absent.stored = FALSE
    BY DEF Absent, ItemRows
  <1>2. rows' \in [Keys -> ItemRows] /\ touched' \in [Keys -> Nat]
        /\ lease' \in [Keys -> Ttls \cup {Forever}]
    BY <1>1 DEF DeadlineInv, Forget
  <1>3. ASSUME NEW k \in Keys, HasTtl(k)'
        PROVE  LeaseInv(k)'
    <2>1. k \notin gone
      BY <1>1, <1>3 DEF HasTtl, Stored
    <2>2. rows'[k] = rows[k] /\ touched'[k] = touched[k] /\ lease'[k] = lease[k]
      BY <2>1 DEF Forget
    <2>3. LeaseInv(k)
      BY <1>3, <2>2 DEF DeadlineInv, HasTtl, Stored
    <2>4. now' \in Nat /\ now' >= now
      BY DEF DeadlineInv
    <2>. QED BY <2>2, <2>3, <2>4, LeaseStays
  <1>. QED BY <1>2, <1>3 DEF DeadlineInv

LEMMA PutKeeps ==
    ASSUME DeadlineInv, NEW k \in Keys, NEW ttl \in Ttls, Put(k, ttl)
    PROVE  DeadlineInv'
  <1>1. /\ rows' = [rows EXCEPT ![k] = Row(ttl)] /\ now' = now /\ config' = config
        /\ touched' = [touched EXCEPT ![k] = IF ttl = Forever THEN 0 ELSE now]
        /\ lease' = [lease EXCEPT ![k] = ttl]
    BY DEF Put
  <1>2. ttl \in Nat \cup {Forever} /\ Forever \notin Nat /\ now \in Nat
    BY TtlAssumption DEF DeadlineInv
  <1>3. lease'[k] = ttl /\ touched'[k] = (IF ttl = Forever THEN 0 ELSE now) /\ rows'[k] = Row(ttl)
    BY <1>1 DEF DeadlineInv
  <1>4. Column(ttl) \in Nat \cup {Forever} /\ After(ttl) \in Nat \cup {Forever}
        /\ (Column(ttl) = Forever <=> ttl = Forever)
    BY <1>2, RoundedIsNear DEF Column, After
  <1>5. Row(ttl) \in ItemRows
    BY <1>4 DEF Row, ItemRows
  <1>6. /\ rows' \in [Keys -> ItemRows] /\ touched' \in [Keys -> Nat] /\ now' \in Nat
        /\ lease' \in [Keys -> Ttls \cup {Forever}]
    BY <1>1, <1>2, <1>5 DEF DeadlineInv
  <1>7. ASSUME HasTtl(k)' PROVE LeaseInv(k)'
    <2>1. ttl \in Nat
      <3>1. rows'[k].ttl # Forever
        BY <1>7 DEF HasTtl
      <3>. QED BY <1>2, <1>3, <1>4, <3>1 DEF Row
    <2>2. rows'[k].ttl = Column(ttl) /\ rows'[k].expires = now + ttl /\ touched'[k] = now
      BY <1>2, <1>3, <2>1 DEF Row, After
    <2>3. Column(lease[k])' = Column(ttl) /\ Due(k)' = now + ttl
      BY <1>1, <1>3, <2>2 DEF Column, Due
    <2>4. Slack(k)' \in Nat
      BY <1>1, <1>3, <2>1 DEF Slack, Minute
    <2>. QED BY <1>1, <1>2, <1>3, <2>1, <2>2, <2>3, <2>4 DEF LeaseInv
  <1>8. ASSUME NEW u \in Keys, u # k, HasTtl(u)' PROVE LeaseInv(u)'
    <2>1. rows'[u] = rows[u] /\ touched'[u] = touched[u] /\ lease'[u] = lease[u]
      BY <1>1, <1>8 DEF DeadlineInv
    <2>2. LeaseInv(u)
      BY <1>8, <2>1 DEF DeadlineInv, HasTtl, Stored
    <2>. QED BY <1>1, <1>2, <2>1, <2>2, LeaseStays
  <1>. QED BY <1>1, <1>6, <1>7, <1>8 DEF DeadlineInv

LEMMA DeadlineInductive ==
    ASSUME DeadlineInv, [Next]_vars
    PROVE  DeadlineInv'
  <1>1. ASSUME NEW k \in Keys, NEW ttl \in Ttls, Put(k, ttl)
        PROVE  DeadlineInv'
    BY <1>1, PutKeeps
  <1>2. ASSUME NEW k \in Keys, Delete(k)
        PROVE  DeadlineInv'
    <2>1. rows' = [u \in Keys |-> IF u \in {k} THEN Absent ELSE rows[u]]
      BY <1>2 DEF Delete, DeadlineInv
    <2>2. Forget({k}) /\ now' = now /\ config' = config
      BY <1>2 DEF Delete
    <2>. QED BY <2>1, <2>2, ForgettingKeeps
  <1>3. ASSUME NEW read \in SUBSET Keys, NEW asked \in SUBSET Keys, Get(read, asked)
        PROVE  DeadlineInv'
    <2>. DEFINE T == IF Refreshes THEN asked ELSE {}
                S == Refreshed(read, asked)
    <2>1. /\ asked \subseteq read /\ rows' = Renewed(S)
          /\ now' = now /\ config' = config /\ lease' = lease
          /\ touched' = [k \in Keys |-> IF k \in T /\ HasTtl(k) THEN now ELSE touched[k]]
      BY <1>3 DEF Get
    <2>2. S \in SUBSET Keys /\ T \in SUBSET S /\ (~config.sqlite => S = T)
      BY <2>1 DEF Refreshed, Refreshes
    <2>. HIDE DEF S, T
    <2>. QED BY <2>1, <2>2, RefreshKeepsInv
  <1>4. ASSUME NEW found \in SUBSET Keys, NEW refresh \in BOOLEAN, Search(found, refresh)
        PROVE  DeadlineInv'
    <2>1. now' = now /\ config' = config /\ lease' = lease
      BY <1>4 DEF Search
    <2>2. CASE refresh /\ Refreshes
      <3>1. /\ rows' = Renewed(found)
            /\ touched' = [k \in Keys |-> IF k \in found /\ HasTtl(k) THEN now ELSE touched[k]]
        BY <1>4, <2>2 DEF Search
      <3>. QED BY <2>1, <3>1, RefreshKeepsInv
    <2>3. CASE ~(refresh /\ Refreshes)
      <3>1. rows' = rows /\ touched' = touched
        BY <1>4, <2>3 DEF Search, DeadlineInv
      <3>. QED BY <2>1, <3>1, LeaseStays DEF DeadlineInv, HasTtl, Stored
    <2>. QED BY <2>2, <2>3
  <1>5. CASE Sweep
    <2>1. /\ rows' = [k \in Keys |-> IF k \in {u \in Keys : Expired(u)} THEN Absent ELSE rows[k]]
          /\ Forget({k \in Keys : Expired(k)}) /\ now' = now /\ config' = config
      BY <1>5 DEF Sweep, At
    <2>. QED BY <2>1, ForgettingKeeps
  <1>6. ASSUME UNCHANGED store, now' \in Nat, now' >= now
        PROVE  DeadlineInv'
    <2>1. rows' = rows /\ touched' = touched /\ lease' = lease /\ config' = config
      BY <1>6 DEF store
    <2>2. ASSUME NEW k \in Keys, HasTtl(k)' PROVE LeaseInv(k)'
      <3>1. LeaseInv(k)
        BY <2>1, <2>2 DEF DeadlineInv, HasTtl, Stored
      <3>. QED BY <1>6, <2>1, <3>1, LeaseStays
    <2>. QED BY <1>6, <2>1, <2>2 DEF DeadlineInv
  <1>7. now \in Nat
    BY DEF DeadlineInv
  <1>8. CASE Tick
    <2>1. PICK step \in ClockSteps : now' = now + step
      BY <1>8 DEF Tick
    <2>2. now' \in Nat /\ now' >= now
      BY <1>7, <2>1, TtlAssumption
    <2>. QED BY <1>6, <1>8, <2>2 DEF Tick
  <1>9. CASE Start \/ CancelFuture \/ Stop \/ Joined \/ StopTimesOut \/ Check \/ Wake \/ SweepFails
    <2>1. UNCHANGED store /\ now' = now
      BY <1>9 DEF Start, CancelFuture, Stop, Joined, StopTimesOut, Check, Wake, SweepFails, At, store
    <2>. QED BY <1>6, <1>7, <2>1
  <1>10. CASE UNCHANGED vars
    <2>1. UNCHANGED store /\ now' = now
      BY <1>10 DEF vars, store
    <2>. QED BY <1>6, <1>7, <2>1
  <1>. QED BY <1>1, <1>2, <1>3, <1>4, <1>5, <1>8, <1>9, <1>10 DEF Next, Operation, Thread

\* [_get_batch_GET_ops_queries, search's refresh, _prepare_batch_PUT_queries]
\* Whatever the keys, ttls and times, with both databases: an item's deadline is its ttl
\* after it was last put or read to be refreshed, within what a column of whole minutes
\* takes or adds (Postgres), or later by its neighbours' reads (SQLite).
THEOREM DeadlineIsKept == Spec => []DeadlineIsLastTouch
  <1>1. Init => DeadlineInv
    BY DeadlineBegins
  <1>2. DeadlineInv /\ [Next]_vars => DeadlineInv'
    BY DeadlineInductive
  <1>3. DeadlineInv => DeadlineIsLastTouch
    BY DEF DeadlineInv, LeaseInv, DeadlineIsLastTouch
  <1>. QED BY <1>1, <1>2, <1>3, PTL DEF Spec

\* [sweep_ttl] What is swept was due: its ttl had passed since it was last put or read to be
\* refreshed, but for the half minute Postgres may have rounded off.
THEOREM SweptAreDue == Spec => SweptWhenDue
  <1>1. Init => DeadlineInv
    BY DeadlineBegins
  <1>2. DeadlineInv /\ [Next]_vars => DeadlineInv'
    BY DeadlineInductive
  <1>3. ASSUME DeadlineInv, [Next]_vars
        PROVE  [\A k \in Keys : Sweep /\ HasTtl(k) /\ ~rows'[k].stored
                                => now + Slack(k) > Due(k)]_vars
    <2>1. ASSUME NEW k \in Keys, Sweep, HasTtl(k), ~rows'[k].stored
          PROVE  now + Slack(k) > Due(k)
      <3>1. rows'[k] = IF Expired(k) THEN Absent ELSE rows[k]
        BY <2>1 DEF Sweep
      <3>2. rows[k].stored
        BY <2>1 DEF HasTtl, Stored
      <3>3. Expired(k)
        BY <2>1, <3>1, <3>2
      <3>4. rows[k].expires < now
        BY <3>3 DEF Expired
      <3>5. LeaseInv(k) /\ now \in Nat /\ touched[k] \in Nat
        BY <1>3, <2>1 DEF DeadlineInv
      <3>6. Slack(k) \in Nat /\ lease[k] \in Nat
        BY <3>5, ColumnIsNear DEF LeaseInv
      <3>7. rows[k].expires + Slack(k) >= Due(k) /\ Due(k) \in Nat /\ rows[k].expires \in Nat
        BY <3>5, <3>6 DEF LeaseInv, Due
      <3>. QED BY <3>4, <3>5, <3>6, <3>7
    <2>. QED BY <2>1
  <1>. QED BY <1>1, <1>2, <1>3, PTL DEF Spec, SweptWhenDue

-----------------------------------------------------------------------------
(* Streams                                                                 *)

Known == Len(delivered)

\* What the caller was given are the first parts, and the last id dispatched is that of
\* the last of them.
GivenInv ==
    /\ Known \in 0 .. Len(Ids) /\ delivered = [i \in 1 .. Known |-> i]
    /\ produced \in 0 .. Len(Ids) /\ server \in Servers
    /\ lastEventId = IF Known = 0 THEN NoId ELSE Ids[Known]

\* On a connection the server is at the part after those, of which the decoder holds
\* what its lines have told; an id without a part is one that was dispatched.
WireInv ==
    /\ wire \in {"none", "open"} /\ lines \in 0 .. 2
    /\ wire = "open" =>
         /\ outcome = "none" /\ sending = Known + 1
         /\ lines > 0 => sending <= produced
         /\ lines = 0 => \E id \in {NoId, lastEventId} : decoder = [part |-> 0, id |-> id]
         /\ lines = 1 => decoder = [part |-> 0, id |-> Ids[sending]]
         /\ lines = 2 => decoder = [part |-> sending, id |-> Ids[sending]]

\* Between two connections the client has a Location, so the server keeps the parts.
BetweenInv ==
    /\ reconnectPath => server.location
    /\ drops \in Nat /\ attempts \in Nat
    /\ wire = "none" /\ outcome = "none" => IF drops = 0 THEN Known = 0 ELSE reconnectPath

StreamInv == GivenInv /\ WireInv /\ BetweenInv

\* The next connection begins with the part after the last one given.
LEMMA StartsAfterLast ==
  ASSUME StreamInv, wire = "none", outcome = "none"
  PROVE  Streams!StartsAt(lastEventId) = Known + 1
<1>1. CASE drops = 0
  BY <1>1 DEF StreamInv, BetweenInv, Streams!StartsAt
<1>2. CASE drops # 0
  <2>1. server.keeps
    BY <1>2, StreamAssumption DEF StreamInv, BetweenInv, GivenInv
  <2>2. CASE Known = 0
    BY <1>2, <2>1, <2>2 DEF StreamInv, GivenInv, Streams!StartsAt
  <2>3. CASE Known # 0
    <3>1. Known \in Streams!Parts /\ lastEventId = Ids[Known] /\ lastEventId # NoId
      BY <2>3, StreamAssumption DEF StreamInv, GivenInv, Streams!Parts
    <3>2. \A i \in Streams!Parts : Ids[i] = lastEventId => i = Known
      BY <3>1, StreamAssumption DEF Streams!Parts
    <3>3. (CHOOSE i \in Streams!Parts : Ids[i] = lastEventId) = Known
      BY <3>1, <3>2
    <3> QED BY <1>2, <2>1, <3>1, <3>3 DEF Streams!StartsAt
  <2> QED BY <2>2, <2>3
<1> QED BY <1>1, <1>2

\* A step of the stream keeps the invariant, and is one of OrderedDelivery or none.
LEMMA StreamBegins == Streams!Init => StreamInv /\ Streams!Promise!Init
BY StreamAssumption
   DEF Streams!Init, Streams!NewDecoder, Streams!NoPart, StreamInv, GivenInv, WireInv, BetweenInv, Known,
       Streams!Promise!Init

PromiseVars == <<delivered, IF outcome = "refused" THEN "raised" ELSE outcome>>

LEMMA StreamInductive ==
  ASSUME StreamInv, [Streams!Next]_stream
  PROVE  StreamInv' /\ [Streams!Promise!Next]_PromiseVars
<1> USE StreamAssumption DEF StreamInv
<1>1. CASE Streams!Produce
  BY <1>1 DEF Streams!Produce, Streams!connection, Streams!client, GivenInv, WireInv,
     BetweenInv, Known, PromiseVars
<1>2. CASE Streams!Connect
  <2>1. sending' = Known + 1
    BY <1>2, StartsAfterLast DEF Streams!Connect
  <2>2. /\ decoder' = [part |-> 0, id |-> NoId] /\ wire' = "open" /\ lines' = 0
        /\ UNCHANGED <<server, produced, lastEventId, attempts, drops, delivered, outcome>>
    BY <1>2 DEF Streams!Connect, Streams!NewDecoder, Streams!NoPart, Streams!run
  <2>3. reconnectPath' => server'.location
    BY <1>2, <2>2 DEF Streams!Connect, BetweenInv
  <2>4. outcome = "none"
    BY <1>2 DEF Streams!Connect
  <2>5. GivenInv' /\ WireInv' /\ BetweenInv'
    BY <2>1, <2>2, <2>3, <2>4 DEF GivenInv, WireInv, BetweenInv, Known
  <2> QED BY <2>2, <2>5 DEF PromiseVars
<1>3. CASE Streams!ConnectFails
  BY <1>3 DEF Streams!ConnectFails, Streams!run, Streams!connection, Streams!client,
     GivenInv, WireInv, BetweenInv, Known, PromiseVars, Streams!Promise!Next,
     Streams!Promise!Fail
<1>4. CASE Streams!IdLine
  <2>1. Ids[sending] # NoId
    BY <1>4 DEF Streams!IdLine, Streams!Sends, GivenInv, WireInv
  <2>2. decoder' = [part |-> 0, id |-> Ids[sending]]
    <3>1. PICK id \in {NoId, lastEventId} : decoder = [part |-> 0, id |-> id]
      BY <1>4 DEF Streams!IdLine, Streams!Sends, WireInv
    <3> QED BY <1>4, <2>1, <3>1 DEF Streams!IdLine
  <2> QED BY <1>4, <2>2 DEF Streams!IdLine, Streams!Sends, Streams!run, GivenInv, WireInv,
          BetweenInv, Known, PromiseVars
<1>5. CASE Streams!DataLine
  <2>1. decoder' = [part |-> sending, id |-> Ids[sending]]
    BY <1>5 DEF Streams!DataLine, Streams!Sends, WireInv
  <2> QED BY <1>5, <2>1 DEF Streams!DataLine, Streams!Sends, Streams!run, GivenInv, WireInv,
          BetweenInv, Known, PromiseVars
<1>6. CASE Streams!BlankLine
  <2>1. /\ decoder = [part |-> sending, id |-> Ids[sending]]
        /\ sending = Known + 1 /\ sending <= Len(Ids) /\ Ids[sending] # NoId
        /\ wire = "open" /\ outcome = "none"
    BY <1>6 DEF Streams!BlankLine, Streams!Sends, GivenInv, WireInv
  <2>2. /\ lastEventId' = Ids[sending] /\ delivered' = Append(delivered, sending)
        /\ decoder' = [part |-> 0, id |-> Ids[sending]]
        /\ lines' = 0 /\ sending' = sending + 1
        /\ UNCHANGED <<server, produced, wire, reconnectPath, attempts, drops, outcome>>
    BY <1>6, <2>1 DEF Streams!BlankLine, Streams!Dispatch, Streams!NoPart, Streams!run,
       GivenInv
  <2>3. Known' = Known + 1 /\ delivered' = [i \in 1 .. Known + 1 |-> i]
    BY <2>1, <2>2 DEF GivenInv, Known
  <2>4. Streams!Promise!Deliver
    BY <2>1, <2>2 DEF Streams!Promise!Deliver, Known, GivenInv
  <2>5. GivenInv' /\ WireInv' /\ BetweenInv'
    BY <2>1, <2>2, <2>3 DEF GivenInv, WireInv, BetweenInv
  <2> QED BY <2>4, <2>5 DEF Streams!Promise!Next
<1>7. CASE Streams!Heartbeat
  <2>1. /\ lastEventId' = lastEventId /\ delivered' = delivered
        /\ decoder' = decoder
        /\ UNCHANGED <<server, produced, wire, sending, lines, reconnectPath, attempts, drops,
                       outcome>>
    <3>1. PICK id \in {NoId, lastEventId} : decoder = [part |-> 0, id |-> id]
      BY <1>7 DEF Streams!Heartbeat, WireInv
    <3> QED BY <1>7, <3>1 DEF Streams!Heartbeat, Streams!Dispatch, Streams!NoPart,
            Streams!run, Streams!connection
  <2> QED BY <2>1 DEF GivenInv, WireInv, BetweenInv, Known, PromiseVars
<1>8. CASE Streams!Drop
  BY <1>8 DEF Streams!Drop, Streams!run, GivenInv, WireInv, BetweenInv, Known, PromiseVars,
     Streams!Promise!Next, Streams!Promise!Fail
<1>9. CASE Streams!CleanEnd
  <2>1. outcome = "none" /\ outcome' = "done" /\ wire' = "none"
    BY <1>9 DEF Streams!CleanEnd, WireInv
  <2>2. UNCHANGED <<server, produced, sending, lines, reconnectPath, attempts, drops>>
    BY <1>9 DEF Streams!CleanEnd, Streams!run
  <2>3. CASE sending > Len(Ids) /\ lines = 0
    <3>1. delivered' = delivered /\ lastEventId' = lastEventId /\ Known = Len(Ids)
      BY <1>9, <2>3 DEF Streams!CleanEnd, Streams!Dispatch, Streams!NoPart, GivenInv, WireInv
    <3>2. Streams!Promise!Finish
      BY <2>1, <3>1 DEF Streams!Promise!Finish, Known
    <3> QED BY <2>1, <2>2, <3>1, <3>2
            DEF GivenInv, WireInv, BetweenInv, Known, Streams!Promise!Next
  <2>4. CASE sending = Len(Ids) /\ lines = 2
    <3>1. /\ decoder = [part |-> sending, id |-> Ids[sending]]
          /\ sending = Known + 1 /\ Ids[sending] # NoId
      BY <1>9, <2>4 DEF Streams!CleanEnd, GivenInv, WireInv
    <3>2. delivered' = Append(delivered, sending) /\ lastEventId' = Ids[sending]
      BY <1>9, <3>1 DEF Streams!CleanEnd, Streams!Dispatch, Streams!NoPart, GivenInv
    <3>3. Known' = Known + 1 /\ delivered' = [i \in 1 .. Known + 1 |-> i]
      BY <3>1, <3>2 DEF GivenInv, Known
    <3>4. Streams!Promise!Close
      BY <2>1, <2>4, <3>1, <3>2 DEF Streams!Promise!Close, Known, GivenInv
    <3> QED BY <2>1, <2>2, <2>4, <3>1, <3>2, <3>3, <3>4
            DEF GivenInv, WireInv, BetweenInv, Streams!Promise!Next
  <2> QED BY <1>9, <2>3, <2>4 DEF Streams!CleanEnd
<1>10. CASE UNCHANGED stream
  BY <1>10 DEF stream, GivenInv, WireInv, BetweenInv, Known, PromiseVars
<1> QED BY <1>1, <1>2, <1>3, <1>4, <1>5, <1>6, <1>7, <1>8, <1>9, <1>10 DEF Streams!Next

\* [HttpClient.stream] For any run and server that does what StreamAssumption says, any
\* bounds, and wherever the connection breaks: the caller is given the parts of the run
\* in order, none twice and none left out, and the stream ends only after the last.
THEOREM StreamsDeliverInOrder == ServicesSpec => ImplementsOrderedDelivery
<1>1. ServicesInit => StreamInv /\ Streams!Promise!Init
  BY StreamBegins DEF ServicesInit
<1>2. [ServicesNext]_all => [Streams!Next]_stream
  BY DEF ServicesNext, all, stream
<1>3. StreamInv /\ [Streams!Next]_stream => StreamInv' /\ [Streams!Promise!Next]_PromiseVars
  BY StreamInductive
<1> QED BY <1>1, <1>2, <1>3, PTL
        DEF ServicesSpec, ImplementsOrderedDelivery, Streams!ImplementsOrderedDelivery,
            Streams!Promise!Spec, PromiseVars

-----------------------------------------------------------------------------
(* Nodes that ask                                                          *)

LEMMA AskingSteps == [ServicesNext]_all => [Asking!Next]_(Asking!vars)
  <1>. SUFFICES ASSUME [ServicesNext]_all PROVE [Asking!Next]_(Asking!vars)
    OBVIOUS
  <1>1. ASSUME UNCHANGED dialogue PROVE UNCHANGED Asking!vars
    BY <1>1 DEF dialogue, Asking!vars, Asking!saver, Asking!memory
  <1>2. Asking!Next \/ UNCHANGED dialogue
    BY DEF ServicesNext, all
  <1>. QED BY <1>1, <1>2

\* [types.interrupt] For any nodes, with any number of questions and calls, any failures
\* and crashes that the setting allows and any order of saves: every answer a node gets
\* was given to the question it is at, and to that question as it asks it now.
THEOREM AnswersReachTheirQuestions ==
    ASSUME Asking!NoneIsNoFunction
    PROVE  ServicesSpec => []AnswersFit
  <1>1. ServicesInit => Asking!Init
    BY DEF ServicesInit
  <1>2. Asking!Spec => []Asking!AnswersFit
    BY DialogueSetups, Asking!AnswersReachQuestions
  <1>. QED BY <1>1, <1>2, AskingSteps, PTL DEF ServicesSpec, Asking!Spec, AnswersFit

\* [put_writes, commit] Whatever fails, crashes or is not saved in time, what is saved of
\* the tasks that ask is a dialogue in order: no answer is lost, changed or given to
\* another question, a call has one result, and a task is over with all its answers.
THEOREM DialoguesAreKept ==
    ASSUME Asking!NoneIsNoFunction
    PROVE  ServicesSpec => ImplementsDialogue
  <1>1. ServicesInit => Asking!Init
    BY DEF ServicesInit
  <1>2. Asking!Spec => Asking!ImplementsDialogue
    BY DialogueSetups, Asking!DialoguesAreRecorded
  <1>. QED BY <1>1, <1>2, AskingSteps, PTL DEF ServicesSpec, Asking!Spec, ImplementsDialogue

-----------------------------------------------------------------------------
(* Lines                                                                   *)

\* A set of numbers that holds zero and, with every number, the next, holds all.
LEMMA EveryNumber ==
  ASSUME NEW T, 0 \in T, \A n \in Nat : n \in T => n + 1 \in T
  PROVE  Nat \subseteq T
<1> SUFFICES ASSUME NEW m \in Nat, m \notin T PROVE FALSE
  OBVIOUS
<1> DEFINE I == Nat \ T
           R == {ss \in Nat \X Nat : ss[1] < ss[2]}
<1>1. PICK x \in I : \A y \in I : x <= y
  <2>1. IsWellFoundedOn(R, Nat)
    BY NatLessThanWellFounded DEF OpToRel
  <2>2. \A x \in Nat, y \in Nat : y < x => <<y, x>> \in R
    OBVIOUS
  <2> HIDE DEF R
  <2>3. I \subseteq Nat /\ I # {}
    OBVIOUS
  <2> HIDE DEF I
  <2>4. PICK x \in I : \A y \in I : ~ (<<y, x>> \in R)
    BY <2>1, <2>3, WFMin
  <2>5. ASSUME NEW y \in I PROVE x <= y
    <3>1. x \in Nat /\ y \in Nat
      BY <2>3
    <3>2. ~(y < x)
      BY <2>2, <2>4, <3>1
    <3> QED BY <3>1, <3>2
  <2> QED BY <2>5
<1>2. x # 0 /\ x - 1 \in Nat /\ x - 1 \notin I
  BY <1>1
<1>3. (x - 1) + 1 \in T
  BY <1>2
<1> QED BY <1>1, <1>3

Unread == [lines |-> <<>>, rest |-> <<>>, cr |-> FALSE]

\* What has been read after each byte of a bytes.
Reads(bytes, m, read) ==
  read = [n \in 0 .. m |-> IF n = 0 THEN Unread ELSE Lines!LineStep(read[n - 1], bytes[n])]

LEMMA ReadsExist ==
  ASSUME NEW bytes, NEW m \in Nat
  PROVE  \E read : Reads(bytes, m, read)
<1> DEFINE T == {n \in Nat : \E read : Reads(bytes, n, read)}
<1>1. 0 \in T
  <2> DEFINE h == [n \in 0 .. 0 |-> Unread]
  <2>1. \A n \in 0 .. 0 : n = 0
    OBVIOUS
  <2>2. h = [n \in 0 .. 0 |-> IF n = 0 THEN Unread ELSE Lines!LineStep(h[n - 1], bytes[n])]
    BY <2>1
  <2>3. Reads(bytes, 0, h)
    BY <2>2 DEF Reads
  <2> QED BY <2>3
<1>2. ASSUME NEW k \in Nat, k \in T PROVE k + 1 \in T
  <2>1. PICK h : Reads(bytes, k, h)
    BY <1>2
  <2> DEFINE g == [n \in 0 .. k + 1 |-> IF n = k + 1 THEN Lines!LineStep(h[k], bytes[k + 1])
                                                      ELSE h[n]]
             next == [n \in 0 .. k + 1 |->
                        IF n = 0 THEN Unread ELSE Lines!LineStep(g[n - 1], bytes[n])]
  <2>2. ASSUME NEW n \in 0 .. k + 1 PROVE g[n] = next[n]
    <3>1. CASE n = k + 1
      <4>1. g[n] = Lines!LineStep(h[k], bytes[k + 1]) /\ g[k] = h[k] /\ n - 1 = k /\ n # 0
        BY <3>1
      <4> QED BY <4>1, <3>1
    <3>2. CASE n = 0
      <4>1. g[0] = h[0] /\ h[0] = Unread
        BY <2>1 DEF Reads
      <4> QED BY <4>1, <3>2
    <3>3. CASE n \in 1 .. k
      <4>1. g[n] = h[n] /\ g[n - 1] = h[n - 1]
        BY <3>3
      <4>2. h[n] = Lines!LineStep(h[n - 1], bytes[n])
        BY <2>1, <3>3 DEF Reads
      <4> QED BY <4>1, <4>2, <3>3
    <3> QED BY <3>1, <3>2, <3>3
  <2>3. g = next
    BY <2>2
  <2>4. Reads(bytes, k + 1, g)
    BY <2>3 DEF Reads
  <2> HIDE DEF g
  <2> QED BY <2>4
<1> HIDE DEF T
<1>3. m \in T
  BY <1>1, <1>2, EveryNumber
<1> QED BY <1>3 DEF T

\* The reads of a bytes are those of any it begins with, as far as that goes.
LEMMA ReadsAgree ==
  ASSUME NEW t, NEW u, NEW m \in Nat, NEW k \in Nat, k <= m,
         \A i \in 1 .. k : t[i] = u[i],
         NEW f, Reads(t, k, f), NEW g, Reads(u, m, g)
  PROVE  f[k] = g[k]
<1> DEFINE T == {n \in Nat : n <= k => f[n] = g[n]}
<1>1. 0 \in T
  <2>1. f[0] = Unread /\ g[0] = Unread
    BY DEF Reads
  <2> QED BY <2>1
<1>2. ASSUME NEW n \in Nat, n \in T PROVE n + 1 \in T
  <2> SUFFICES ASSUME n + 1 <= k PROVE f[n + 1] = g[n + 1]
    OBVIOUS
  <2>1. n + 1 \in 1 .. k /\ n + 1 \in 0 .. m /\ n + 1 # 0 /\ (n + 1) - 1 = n
    OBVIOUS
  <2>2. f[n + 1] = Lines!LineStep(f[n], t[n + 1])
    BY <2>1 DEF Reads
  <2>3. g[n + 1] = Lines!LineStep(g[n], u[n + 1])
    BY <2>1 DEF Reads
  <2>4. f[n] = g[n] /\ t[n + 1] = u[n + 1]
    BY <1>2, <2>1
  <2> QED BY <2>2, <2>3, <2>4
<1> HIDE DEF T
<1>3. k \in T
  BY <1>1, <1>2, EveryNumber
<1> QED BY <1>3 DEF T

Text == Seq(Lines!Bytes)

LEMMA ScanIsRead ==
  ASSUME NEW bytes \in Text
  PROVE  \E read : Reads(bytes, Len(bytes), read) /\ Lines!Scan(bytes) = read[Len(bytes)]
<1> DEFINE read == CHOOSE h : Reads(bytes, Len(bytes), h)
<1>1. Len(bytes) \in Nat
  BY LenProperties DEF Text
<1>2. Reads(bytes, Len(bytes), read)
  BY <1>1, ReadsExist
<1>3. Lines!Scan(bytes) = read[Len(bytes)]
  BY DEF Lines!Scan, Reads, Unread
<1> HIDE DEF read
<1> QED BY <1>2, <1>3

LEMMA ScanSteps ==
  ASSUME NEW bytes \in Text, NEW b \in Lines!Bytes
  PROVE  /\ Lines!Scan(<<>>) = Unread
         /\ Lines!Scan(Append(bytes, b)) = Lines!LineStep(Lines!Scan(bytes), b)
<1>1. Lines!Scan(<<>>) = Unread
  <2>1. <<>> \in Text /\ Len(<<>>) = 0
    BY EmptySeq DEF Text
  <2>2. PICK f : Reads(<<>>, 0, f) /\ Lines!Scan(<<>>) = f[0]
    BY <2>1, ScanIsRead
  <2> QED BY <2>2 DEF Reads
<1> DEFINE more == Append(bytes, b)
           n == Len(bytes)
<1>2. /\ more \in Text /\ n \in Nat /\ Len(more) = n + 1 /\ more[n + 1] = b
      /\ \A i \in 1 .. n : more[i] = bytes[i]
  BY AppendProperties, LenProperties DEF Text
<1> HIDE DEF more, n
<1>3. PICK f : Reads(bytes, n, f) /\ Lines!Scan(bytes) = f[n]
  BY ScanIsRead DEF n
<1>4. PICK g : Reads(more, n + 1, g) /\ Lines!Scan(more) = g[n + 1]
  BY <1>2, ScanIsRead
<1>5. f[n] = g[n]
  <2>1. n <= n + 1 /\ n + 1 \in Nat
    BY <1>2
  <2>2. \A i \in 1 .. n : bytes[i] = more[i]
    BY <1>2
  <2>3. Reads(bytes, n, f) /\ Reads(more, n + 1, g) /\ n \in Nat
    BY <1>2, <1>3, <1>4
  <2> QED BY <2>1, <2>2, <2>3, ReadsAgree
<1>6. g[n + 1] = Lines!LineStep(g[n], b)
  BY <1>2, <1>4 DEF Reads
<1> QED BY <1>1, <1>3, <1>4, <1>5, <1>6 DEF more

\* What may have been read.
Readings == [lines : Seq(Text), rest : Text, cr : BOOLEAN]

\* A line that has ended, and one that has not.
Ended(before, line) == Append(before, line)
Longer(line, b) == Append(line, b)

LEMMA LineStepped ==
  ASSUME NEW acc \in Readings, NEW b \in Lines!Bytes
  PROVE
    LET r == Lines!LineStep(acc, b)
    IN   /\ r \in Readings
         /\ b = "LF" /\ acc.cr =>
              r.lines = acc.lines /\ r.rest = acc.rest /\ ~r.cr
         /\ b \in {"CR", "LF"} /\ ~(b = "LF" /\ acc.cr) =>
              r.lines = Ended(acc.lines, acc.rest) /\ r.rest = <<>> /\ (r.cr <=> b = "CR")
         /\ b \notin {"CR", "LF"} =>
              r.lines = acc.lines /\ r.rest = Longer(acc.rest, b) /\ ~r.cr
<1> DEFINE r == Lines!LineStep(acc, b)
<1>1. PICK l \in Seq(Text), e \in Text, c \in BOOLEAN :
         acc = [lines |-> l, rest |-> e, cr |-> c]
  BY DEF Readings
<1>2. acc.lines = l /\ acc.rest = e /\ acc.cr = c
  BY <1>1
<1>3. <<>> \in Text /\ Ended(l, e) \in Seq(Text) /\ Longer(e, b) \in Text
  BY EmptySeq, AppendProperties DEF Ended, Longer, Text
<1>4. CASE b = "LF" /\ c
  <2>1. r = [lines |-> l, rest |-> e, cr |-> FALSE]
    BY <1>1, <1>2, <1>4 DEF Lines!LineStep, Lines!LF, Lines!CR, Ended, Longer
  <2>2. r \in Readings
    BY <2>1 DEF Readings
  <2>3. r.lines = l /\ r.rest = e /\ ~r.cr
    BY <2>1
  <2> QED BY <1>2, <1>4, <2>2, <2>3
<1>5. CASE b \in {"CR", "LF"} /\ ~(b = "LF" /\ c)
  <2>1. r = [lines |-> Ended(l, e), rest |-> <<>>, cr |-> (b = "CR")]
    BY <1>1, <1>2, <1>5 DEF Lines!LineStep, Lines!LF, Lines!CR, Ended, Longer
  <2>2. r \in Readings
    BY <1>3, <2>1 DEF Readings
  <2>3. r.lines = Ended(l, e) /\ r.rest = <<>> /\ r.cr = (b = "CR")
    BY <2>1
  <2> QED BY <1>2, <1>5, <2>2, <2>3
<1>6. CASE b \notin {"CR", "LF"}
  <2>1. r = [lines |-> l, rest |-> Longer(e, b), cr |-> FALSE]
    BY <1>1, <1>2, <1>6 DEF Lines!LineStep, Lines!LF, Lines!CR, Ended, Longer
  <2>2. r \in Readings
    BY <1>3, <2>1 DEF Readings
  <2>3. r.lines = l /\ r.rest = Longer(e, b) /\ ~r.cr
    BY <2>1
  <2> QED BY <1>2, <1>6, <2>2, <2>3
<1> QED BY <1>2, <1>4, <1>5, <1>6

LEMMA LastIsApart ==
  ASSUME NEW t \in Text, NEW k \in Nat, Len(t) = k + 1
  PROVE  \E u \in Text, b \in Lines!Bytes : t = Append(u, b) /\ Len(u) = k /\ t[k + 1] = b
<1>1. t # <<>>
  BY EmptySeq
<1>2. PICK u \in Text, b \in Lines!Bytes : t = Append(u, b)
  BY <1>1, SequenceEmptyOrAppend DEF Text
<1>3. Len(t) = Len(u) + 1 /\ Len(u) \in Nat /\ t[Len(u) + 1] = b
  BY <1>2, AppendProperties, LenProperties
<1>4. Len(u) = k
  BY <1>3
<1> QED BY <1>2, <1>3, <1>4

\* What is left after the last line end is empty where that is the last byte.
ScanOK(t, r) ==
  /\ r.rest = <<>> <=> t = <<>> \/ t[Len(t)] \in {"CR", "LF"}
  /\ r.cr <=> t # <<>> /\ t[Len(t)] = "CR"
  /\ r.rest = <<>> /\ t # <<>> => r.lines # <<>>

LEMMA ScanIsOK ==
  ASSUME NEW t \in Text
  PROVE  Lines!Scan(t) \in Readings /\ ScanOK(t, Lines!Scan(t))
<1> DEFINE T == {n \in Nat : \A u \in Text : Len(u) = n =>
                   Lines!Scan(u) \in Readings /\ ScanOK(u, Lines!Scan(u))}
<1>1. 0 \in T
  <2> SUFFICES ASSUME NEW u \in Text, Len(u) = 0
               PROVE  Lines!Scan(u) \in Readings /\ ScanOK(u, Lines!Scan(u))
    OBVIOUS
  <2>1. u = <<>>
    BY EmptySeq
  <2>2. Lines!Scan(u) = Unread
    <3>1. PICK f : Reads(<<>>, 0, f) /\ Lines!Scan(<<>>) = f[0]
      BY <2>1, ScanIsRead
    <3> QED BY <2>1, <3>1 DEF Reads
  <2>3. <<>> \in Text /\ <<>> \in Seq(Text)
    BY EmptySeq
  <2>4. Unread.lines = <<>> /\ Unread.rest = <<>> /\ Unread.cr = FALSE
    BY DEF Unread
  <2>5. Unread \in Readings
    BY <2>3 DEF Unread, Readings
  <2> HIDE DEF Unread
  <2> QED BY <2>1, <2>2, <2>4, <2>5 DEF ScanOK
<1>2. ASSUME NEW n \in Nat, n \in T PROVE n + 1 \in T
  <2> SUFFICES ASSUME NEW u \in Text, Len(u) = n + 1
               PROVE  Lines!Scan(u) \in Readings /\ ScanOK(u, Lines!Scan(u))
    OBVIOUS
  <2>1. PICK v \in Text, b \in Lines!Bytes : u = Append(v, b) /\ Len(v) = n /\ u[n + 1] = b
    BY LastIsApart
  <2>2. Lines!Scan(v) \in Readings /\ ScanOK(v, Lines!Scan(v))
    BY <1>2, <2>1
  <2>3. Lines!Scan(u) = Lines!LineStep(Lines!Scan(v), b)
    BY <2>1, ScanSteps
  <2>4. u # <<>> /\ u[Len(u)] = b
    BY <2>1, EmptySeq
  <2> DEFINE acc == Lines!Scan(v)
             r == Lines!Scan(u)
  <2> HIDE DEF acc, r
  <2>5. acc \in Readings /\ ScanOK(v, acc) /\ r = Lines!LineStep(acc, b)
    BY <2>2, <2>3 DEF acc, r
  <2>6. acc.lines \in Seq(Text) /\ acc.rest \in Text /\ acc.cr \in BOOLEAN
    BY <2>5 DEF Readings
  <2>7. /\ r \in Readings
        /\ b \notin {"CR", "LF"} => r.rest = Longer(acc.rest, b) /\ ~r.cr
    <3>1. Lines!LineStep(acc, b) \in Readings
      BY <2>5, LineStepped
    <3>2. ASSUME b \notin {"CR", "LF"}
          PROVE  Lines!LineStep(acc, b).rest = Longer(acc.rest, b)
      BY <2>5, <3>2, LineStepped
    <3>3. ASSUME b \notin {"CR", "LF"}
          PROVE  ~Lines!LineStep(acc, b).cr
      BY <2>5, <3>3, LineStepped
    <3> QED BY <2>5, <3>1, <3>2, <3>3
  <2>8. CASE b = "LF" /\ acc.cr
    <3>1. r.lines = acc.lines /\ r.rest = acc.rest /\ ~r.cr
      BY <2>5, <2>8, LineStepped
    <3> QED BY <2>4, <2>5, <2>7, <2>8, <3>1 DEF ScanOK, r
  <2>9. CASE b \in {"CR", "LF"} /\ ~(b = "LF" /\ acc.cr)
    <3>1. r.lines = Ended(acc.lines, acc.rest) /\ r.rest = <<>> /\ (r.cr <=> b = "CR")
      BY <2>5, <2>9, LineStepped
    <3>2. Ended(acc.lines, acc.rest) # <<>>
      <4>1. \A l \in Seq(Text), e \in Text : Ended(l, e) # <<>>
        BY AppendProperties DEF Ended
      <4> QED BY <2>6, <4>1
    <3> QED BY <2>4, <2>7, <2>9, <3>1, <3>2 DEF ScanOK, r
  <2>10. CASE b \notin {"CR", "LF"}
    <3>1. r.rest = Longer(acc.rest, b) /\ ~r.cr
      BY <2>7, <2>10
    <3>2. Longer(acc.rest, b) # <<>>
      <4>1. \A e \in Text : Longer(e, b) # <<>>
        BY AppendProperties DEF Longer, Text
      <4> QED BY <2>6, <4>1
    <3> QED BY <2>4, <2>7, <2>10, <3>1, <3>2 DEF ScanOK, r
  <2> QED BY <2>8, <2>9, <2>10
<1> HIDE DEF T
<1>3. Len(t) \in T
  BY <1>1, <1>2, EveryNumber, LenProperties
<1> QED BY <1>3 DEF T

LEMMA AppendLast ==
  ASSUME NEW S, NEW s \in Seq(S), NEW t \in Seq(S), NEW e \in S
  PROVE  s \o Append(t, e) = Append(s \o t, e)
<1>1. <<e>> \in Seq(S) /\ s \o t \in Seq(S)
  BY ConcatProperties
<1>2. Append(t, e) = t \o <<e>> /\ Append(s \o t, e) = (s \o t) \o <<e>>
  BY <1>1, AppendIsConcat
<1>3. (s \o t) \o <<e>> = s \o (t \o <<e>>)
  BY <1>1, ConcatAssociative
<1> QED BY <1>2, <1>3

\* Lines that come after others, the first of which begins where those had got to.
LinesOn(before, rest, more) ==
  IF more = <<>> THEN before ELSE before \o (<<rest \o Head(more)>> \o Tail(more))

RestOn(rest, more, begun) == IF more = <<>> THEN rest \o begun ELSE begun

LEMMA RestGoesOn ==
  ASSUME NEW e \in Text, NEW m, NEW x \in Text, NEW b \in Lines!Bytes
  PROVE  RestOn(e, m, Longer(x, b)) = Longer(RestOn(e, m, x), b)
BY AppendLast DEF RestOn, Longer, Text

LEMMA MoreLines ==
  ASSUME NEW S, NEW l \in Seq(S), NEW f \in S, NEW m \in Seq(S), NEW x \in S
  PROVE  l \o (<<f>> \o Append(m, x)) = Append(l \o (<<f>> \o m), x)
<1>1. <<f>> \in Seq(S) /\ <<f>> \o m \in Seq(S)
  BY ConcatProperties
<1>2. <<f>> \o Append(m, x) = Append(<<f>> \o m, x)
  BY <1>1, AppendLast
<1>3. l \o Append(<<f>> \o m, x) = Append(l \o (<<f>> \o m), x)
  BY <1>1, AppendLast
<1> QED BY <1>2, <1>3

LEMMA LinesGoOn ==
  ASSUME NEW l \in Seq(Text), NEW e \in Text, NEW m \in Seq(Text), NEW x \in Text
  PROVE  LinesOn(l, e, Ended(m, x)) = Ended(LinesOn(l, e, m), RestOn(e, m, x))
<1>1. Append(m, x) # <<>>
  BY AppendProperties
<1>2. e \o x \in Text
  BY ConcatProperties DEF Text
<1>3. CASE m = <<>>
  <2>1. Head(Append(m, x)) = x /\ Tail(Append(m, x)) = <<>>
    BY <1>3, HeadTailAppend
  <2>2. <<e \o x>> \in Seq(Text) /\ <<e \o x>> \o <<>> = <<e \o x>>
    BY <1>2, ConcatEmptySeq
  <2>3. l \o <<e \o x>> = Append(l, e \o x)
    BY <1>2, AppendIsConcat
  <2> QED BY <1>1, <1>3, <2>1, <2>2, <2>3 DEF LinesOn, RestOn, Ended
<1>4. CASE m # <<>>
  <2> DEFINE first == e \o Head(m)
  <2>1. Head(m) \in Text /\ Tail(m) \in Seq(Text)
    BY <1>4, HeadTailProperties
  <2>2. first \in Text
    BY <2>1, ConcatProperties DEF Text
  <2>3. Head(Append(m, x)) = Head(m) /\ Tail(Append(m, x)) = Append(Tail(m), x)
    BY <1>4, HeadTailAppend
  <2>4. LinesOn(l, e, m) = l \o (<<first>> \o Tail(m)) /\ RestOn(e, m, x) = x
    BY <1>4 DEF LinesOn, RestOn
  <2>5. LinesOn(l, e, Append(m, x)) = l \o (<<first>> \o Append(Tail(m), x))
    BY <1>1, <2>3 DEF LinesOn
  <2> HIDE DEF first
  <2>6. l \o (<<first>> \o Append(Tail(m), x)) = Append(l \o (<<first>> \o Tail(m)), x)
    BY <2>1, <2>2, MoreLines
  <2> QED BY <2>4, <2>5, <2>6 DEF Ended
<1> QED BY <1>3, <1>4

\* What is read of bytes that come after others, unless a CR LF is cut between them.
ReadsOn(p, t) ==
  LET s == Lines!Scan(p)
      r == Lines!Scan(t)
      on == Lines!Scan(p \o t)
  IN  /\ on.lines = LinesOn(s.lines, s.rest, r.lines)
      /\ on.rest = RestOn(s.rest, r.lines, r.rest)
      /\ on.cr <=> IF t = <<>> THEN s.cr ELSE r.cr

LEMMA ScanGoesOn ==
  ASSUME NEW p \in Text, NEW t \in Text,
         Lines!Scan(p).cr /\ t # <<>> => t[1] # "LF"
  PROVE  ReadsOn(p, t)
<1> DEFINE s == Lines!Scan(p)
           T == {n \in Nat : \A u \in Text :
                   Len(u) = n /\ (s.cr /\ u # <<>> => u[1] # "LF") => ReadsOn(p, u)}
<1>1. s \in Readings
  BY ScanIsOK
<1>2. 0 \in T
  <2> SUFFICES ASSUME NEW u \in Text, Len(u) = 0 PROVE ReadsOn(p, u)
    OBVIOUS
  <2>1. u = <<>> /\ p \o u = p
    BY EmptySeq, ConcatEmptySeq DEF Text
  <2>2. Lines!Scan(u).lines = <<>> /\ Lines!Scan(u).rest = <<>>
    <3>1. PICK f : Reads(<<>>, 0, f) /\ Lines!Scan(<<>>) = f[0]
      BY <2>1, ScanIsRead
    <3> QED BY <2>1, <3>1 DEF Reads, Unread
  <2>3. s.rest \o <<>> = s.rest
    BY <1>1, ConcatEmptySeq DEF Readings
  <2> QED BY <2>1, <2>2, <2>3 DEF ReadsOn, LinesOn, RestOn
<1>3. ASSUME NEW n \in Nat, n \in T PROVE n + 1 \in T
  <2> SUFFICES ASSUME NEW u \in Text, Len(u) = n + 1,
                      s.cr /\ u # <<>> => u[1] # "LF"
               PROVE  ReadsOn(p, u)
    OBVIOUS
  <2>1. PICK v \in Text, b \in Lines!Bytes :
          u = Append(v, b) /\ Len(v) = n /\ u[n + 1] = b
    BY LastIsApart
  <2>2. v # <<>> => n \in Nat \ {0} /\ u[1] = v[1]
    <3>1. v # <<>> => n \in Nat \ {0}
      BY <2>1, EmptySeq
    <3>2. \A i \in 1 .. Len(v) : u[i] = v[i]
      BY <2>1, AppendProperties
    <3> QED BY <2>1, <3>1, <3>2
  <2>3. u # <<>> /\ (v = <<>> => u[1] = b)
    BY <2>1, EmptySeq
  <2>4. ReadsOn(p, v)
    BY <1>3, <2>1, <2>2, <2>3
  <2>5. p \o u = Append(p \o v, b) /\ p \o v \in Text
    BY <2>1, AppendLast, ConcatProperties DEF Text
  <2> DEFINE r == Lines!Scan(v)
             w == Lines!Scan(p \o v)
             r1 == Lines!Scan(u)
             w1 == Lines!Scan(p \o u)
  <2>6. r \in Readings /\ w \in Readings /\ r1 = Lines!LineStep(r, b) /\ w1 = Lines!LineStep(w, b)
    BY <2>1, <2>5, ScanIsOK, ScanSteps
  <2>7. /\ w.lines = LinesOn(s.lines, s.rest, r.lines)
        /\ w.rest = RestOn(s.rest, r.lines, r.rest)
        /\ w.cr <=> IF v = <<>> THEN s.cr ELSE r.cr
    BY <2>4 DEF ReadsOn
  <2>8. v = <<>> => ~r.cr
    BY ScanIsOK DEF ScanOK
  <2>9. b = "LF" => (w.cr <=> r.cr)
    BY <2>3, <2>7, <2>8
  <2>10. SUFFICES /\ w1.lines = LinesOn(s.lines, s.rest, r1.lines)
                  /\ w1.rest = RestOn(s.rest, r1.lines, r1.rest)
                  /\ w1.cr <=> r1.cr
    BY <2>3 DEF ReadsOn
  <2> HIDE DEF s, r, w, r1, w1
  <2>11. /\ s.lines \in Seq(Text) /\ s.rest \in Text
         /\ r.lines \in Seq(Text) /\ r.rest \in Text
    BY <1>1, <2>6 DEF Readings
  <2>12. CASE b = "LF" /\ r.cr
    <3>1. r1.lines = r.lines /\ r1.rest = r.rest /\ ~r1.cr
      BY <2>6, <2>12, LineStepped
    <3>2. w1.lines = w.lines /\ w1.rest = w.rest /\ ~w1.cr
      BY <2>6, <2>9, <2>12, LineStepped
    <3> QED BY <2>7, <3>1, <3>2
  <2>13. CASE b \in {"CR", "LF"} /\ ~(b = "LF" /\ r.cr)
    <3>1. r1.lines = Ended(r.lines, r.rest) /\ r1.rest = <<>> /\ (r1.cr <=> b = "CR")
      BY <2>6, <2>13, LineStepped
    <3>2. w1.lines = Ended(w.lines, w.rest) /\ w1.rest = <<>> /\ (w1.cr <=> b = "CR")
      BY <2>6, <2>9, <2>13, LineStepped
    <3>3. LinesOn(s.lines, s.rest, Ended(r.lines, r.rest))
            = Ended(LinesOn(s.lines, s.rest, r.lines), RestOn(s.rest, r.lines, r.rest))
      BY <2>11, LinesGoOn
    <3>4. Ended(r.lines, r.rest) # <<>>
      <4>1. \A l \in Seq(Text), e \in Text : Ended(l, e) # <<>>
        BY AppendProperties DEF Ended
      <4> QED BY <2>11, <4>1
    <3> QED BY <2>7, <3>1, <3>2, <3>3, <3>4 DEF RestOn
  <2>14. CASE b \notin {"CR", "LF"}
    <3>1. r1.lines = r.lines /\ r1.rest = Longer(r.rest, b) /\ ~r1.cr
      BY <2>6, <2>14, LineStepped
    <3>2. w1.lines = w.lines /\ w1.rest = Longer(w.rest, b) /\ ~w1.cr
      BY <2>6, <2>14, LineStepped
    <3>3. RestOn(s.rest, r.lines, Longer(r.rest, b))
            = Longer(RestOn(s.rest, r.lines, r.rest), b)
      BY <2>11, RestGoesOn
    <3> QED BY <2>7, <3>1, <3>2, <3>3
  <2> QED BY <2>12, <2>13, <2>14
<1> HIDE DEF T
<1>4. Len(t) \in T
  BY <1>2, <1>3, EveryNumber, LenProperties
<1> QED BY <1>4 DEF T

LEMMA FrontAndLast ==
  ASSUME NEW S, NEW s \in Seq(S), NEW x \in S
  PROVE  Lines!Front(Append(s, x)) = s /\ Lines!Last(Append(s, x)) = x
<1>1. /\ Append(s, x) \in Seq(S) /\ Len(Append(s, x)) = Len(s) + 1 /\ Len(s) \in Nat
      /\ \A i \in 1 .. Len(s) : Append(s, x)[i] = s[i]
      /\ Append(s, x)[Len(s) + 1] = x
  BY AppendProperties, LenProperties
<1> DEFINE t == Append(s, x)
<1>2. Lines!Front(t) = SubSeq(t, 1, Len(s)) /\ Lines!Last(t) = x
  BY <1>1 DEF Lines!Front, Lines!Last
<1> HIDE DEF t
<1>3. SubSeq(t, 1, Len(s)) = s
  <2>1. /\ t \in Seq(S) /\ Len(t) = Len(s) + 1 /\ Len(s) \in Nat
        /\ \A i \in 1 .. Len(s) : t[i] = s[i]
    BY <1>1 DEF t
  <2>2. /\ SubSeq(t, 1, Len(s)) \in Seq(S) /\ Len(SubSeq(t, 1, Len(s))) = Len(s)
        /\ \A i \in 1 .. Len(s) : SubSeq(t, 1, Len(s))[i] = s[i]
    BY <2>1
  <2> QED BY <2>2, SeqEqual
<1> QED BY <1>2, <1>3 DEF t

\* What a decoder with a line begun makes of bytes is what reading on makes of them.
LEMMA JoinReadsOn ==
  ASSUME NEW t \in Text, t # <<>>, out \in Seq(Text), buffer \in Text
  PROVE  /\ out \o Lines!Join(t).lines = LinesOn(out, buffer, Lines!Scan(t).lines)
         /\ Lines!Join(t).buffer = RestOn(buffer, Lines!Scan(t).lines, Lines!Scan(t).rest)
<1> DEFINE l == Lines!Scan(t).lines
           e == Lines!Scan(t).rest
           split == Lines!SplitLines(t)
           joined == <<buffer \o Head(split)>> \o Tail(split)
<1>1. l \in Seq(Text) /\ e \in Text
  BY ScanIsOK DEF Readings
<1>2. /\ e = <<>> <=> t[Len(t)] \in {"CR", "LF"}
      /\ e = <<>> => l # <<>>
  BY ScanIsOK DEF ScanOK
<1>3. split = IF e = <<>> THEN l ELSE Append(l, e)
  BY DEF Lines!SplitLines
<1>4. Lines!Join(t) = IF t[Len(t)] \in {"CR", "LF"}
                      THEN [lines |-> joined, buffer |-> <<>>]
                      ELSE [lines |-> Lines!Front(joined), buffer |-> Lines!Last(joined)]
  BY DEF Lines!Join, Lines!Last, Lines!CR, Lines!LF
<1> HIDE DEF l, e, split
<1>5. CASE e = <<>>
  <2>1. l # <<>> /\ split = l
    BY <1>2, <1>3, <1>5
  <2>2. Lines!Join(t).lines = <<buffer \o Head(l)>> \o Tail(l) /\ Lines!Join(t).buffer = <<>>
    BY <1>2, <1>4, <1>5, <2>1
  <2> QED BY <1>5, <2>1, <2>2 DEF LinesOn, RestOn, l, e
<1>6. CASE e # <<>> /\ l = <<>>
  <2>1. Head(split) = e /\ Tail(split) = <<>>
    BY <1>1, <1>3, <1>6, HeadTailAppend
  <2>2. buffer \o e \in Text
    BY <1>1, ConcatProperties DEF Text
  <2>3. joined = <<buffer \o e>>
    <3>1. joined = <<buffer \o e>> \o <<>>
      BY <2>1
    <3>2. <<buffer \o e>> \in Seq(Text)
      BY <2>2
    <3>3. <<buffer \o e>> \o <<>> = <<buffer \o e>>
      BY <3>2, ConcatEmptySeq
    <3> QED BY <3>1, <3>3
  <2>4. Append(<<>>, buffer \o e) = <<buffer \o e>> /\ <<>> \in Seq(Text)
    BY EmptySeq
  <2>5. Lines!Front(joined) = <<>> /\ Lines!Last(joined) = buffer \o e
    <3>1. /\ Lines!Front(Append(<<>>, buffer \o e)) = <<>>
          /\ Lines!Last(Append(<<>>, buffer \o e)) = buffer \o e
      BY <2>2, <2>4, FrontAndLast
    <3> QED BY <2>3, <2>4, <3>1
  <2> HIDE DEF joined
  <2>6. Lines!Join(t).lines = <<>> /\ Lines!Join(t).buffer = buffer \o e
    BY <1>2, <1>4, <1>6, <2>5
  <2>7. out \o <<>> = out
    BY ConcatEmptySeq
  <2> QED BY <1>6, <2>6, <2>7 DEF LinesOn, RestOn, l, e
<1>7. CASE e # <<>> /\ l # <<>>
  <2> DEFINE first == buffer \o Head(l)
             some == <<first>> \o Tail(l)
  <2>1. Head(split) = Head(l) /\ Tail(split) = Append(Tail(l), e)
    BY <1>1, <1>3, <1>7, HeadTailAppend
  <2>2. Head(l) \in Text /\ Tail(l) \in Seq(Text)
    BY <1>1, <1>7, HeadTailProperties
  <2>3. first \in Text
    BY <2>2, ConcatProperties DEF Text
  <2>4. joined = <<first>> \o Append(Tail(l), e)
    BY <2>1
  <2> HIDE DEF first, joined
  <2>5. some \in Seq(Text) /\ <<first>> \o Append(Tail(l), e) = Append(some, e)
    <3>1. <<first>> \in Seq(Text)
      BY <2>3
    <3>2. some \in Seq(Text)
      BY <2>2, <3>1, ConcatProperties
    <3>3. <<first>> \o Append(Tail(l), e) = Append(some, e)
      BY <1>1, <2>2, <3>1, AppendLast
    <3> QED BY <3>2, <3>3
  <2>6. LinesOn(out, buffer, l) = out \o some /\ RestOn(buffer, l, e) = e
    BY <1>7 DEF LinesOn, RestOn, first
  <2> HIDE DEF some
  <2>7. Lines!Front(joined) = some /\ Lines!Last(joined) = e
    <3>1. Lines!Front(Append(some, e)) = some /\ Lines!Last(Append(some, e)) = e
      BY <1>1, <2>5, FrontAndLast
    <3> QED BY <2>4, <2>5, <3>1
  <2>8. Lines!Join(t).lines = some /\ Lines!Join(t).buffer = e
    BY <1>2, <1>4, <1>7, <2>7
  <2> QED BY <2>6, <2>8 DEF l, e
<1> QED BY <1>5, <1>6, <1>7

\* All that was fed but a CR at its end, which is held, has been read: into the lines
\* that came out and what is in the buffer.
Held == IF trailingCr THEN <<"CR">> ELSE <<>>

LinesInv ==
  /\ fed \in Text /\ trailingCr \in BOOLEAN /\ out \in Seq(Text) /\ buffer \in Text
  /\ \E p \in Text :
       /\ fed = p \o Held
       /\ Lines!Scan(p).lines = out /\ Lines!Scan(p).rest = buffer
       /\ Lines!Scan(p).cr => trailingCr

LEMMA Regroup ==
  ASSUME NEW a \in Text, NEW b \in Text, NEW c \in Text
  PROVE  (a \o b) \o c = a \o (b \o c)
BY ConcatAssociative DEF Text

LEMMA ChunkIsRead ==
  ASSUME LinesInv, NEW chunk \in Text, chunk # <<>>, Lines!Decode(chunk)
  PROVE  LinesInv'
<1> DEFINE due == IF trailingCr THEN <<"CR">> \o chunk ELSE chunk
           held == Lines!HoldCr(chunk)
           t == held.text
<1>1. /\ fed' = fed \o chunk /\ trailingCr' = held.cr
      /\ IF t = <<>> THEN out' = out /\ buffer' = buffer
         ELSE buffer' = Lines!Join(t).buffer /\ out' = out \o Lines!Join(t).lines
  BY DEF Lines!Decode
<1>2. PICK p \in Text :
        /\ fed = p \o Held
        /\ Lines!Scan(p).lines = out /\ Lines!Scan(p).rest = buffer
        /\ Lines!Scan(p).cr => trailingCr
  BY DEF LinesInv
<1>3. <<"CR">> \in Text /\ <<>> \in Text /\ Held \in Text
  <2>1. "CR" \in Lines!Bytes
    BY DEF Lines!Bytes, Lines!CR
  <2>2. <<"CR">> \in Text /\ <<>> \in Text
    BY <2>1, EmptySeq DEF Text
  <2> QED BY <2>2 DEF Held
\* What is decoded now, with the CR that was held in front.
<1>4. due = Held \o chunk /\ due \in Text /\ due # <<>>
      /\ (trailingCr => due[1] = "CR")
  <2>1. CASE trailingCr
    <3>1. due = <<"CR">> \o chunk /\ Held = <<"CR">>
      BY <2>1 DEF Held
    <3>2. /\ <<"CR">> \o chunk \in Text /\ Len(<<"CR">> \o chunk) = 1 + Len(chunk)
          /\ (<<"CR">> \o chunk)[1] = "CR" /\ Len(chunk) \in Nat
      BY <1>3, ConcatProperties, LenProperties DEF Text
    <3>3. <<"CR">> \o chunk # <<>>
      BY <3>2, EmptySeq
    <3> QED BY <3>1, <3>2, <3>3
  <2>2. CASE ~trailingCr
    <3>1. Held \o chunk = chunk
      BY <2>2, ConcatEmptySeq DEF Held, Text
    <3> QED BY <2>2, <3>1
  <2> QED BY <2>1, <2>2
<1>5. held = IF due[Len(due)] = "CR"
             THEN [text |-> SubSeq(due, 1, Len(due) - 1), cr |-> TRUE]
             ELSE [text |-> due, cr |-> FALSE]
  BY DEF Lines!HoldCr, Lines!Last, Lines!Front, Lines!CR
<1> HIDE DEF due, held
<1>6. Len(due) \in Nat \ {0}
  BY <1>4, EmptySeq DEF Text
<1>7. /\ t \in Text /\ held.cr \in BOOLEAN
      /\ due = t \o (IF held.cr THEN <<"CR">> ELSE <<>>)
      /\ t # <<>> => t[1] = due[1]
      /\ t # <<>> /\ t[Len(t)] = "CR" => held.cr
  <2>1. CASE due[Len(due)] = "CR"
    <3>1. PICK k \in Nat : Len(due) = k + 1
      BY <1>6
    <3>2. PICK u \in Text, b \in Lines!Bytes :
            due = Append(u, b) /\ Len(u) = k /\ due[k + 1] = b
      BY <1>4, <3>1, LastIsApart
    <3>3. Lines!Front(Append(u, b)) = u
      BY <3>2, FrontAndLast DEF Text
    <3>4. t = u /\ held.cr = TRUE /\ b = "CR"
      BY <1>5, <2>1, <3>1, <3>2, <3>3 DEF Lines!Front
    <3>5. Append(u, b) = u \o <<b>>
      BY AppendIsConcat DEF Text
    <3>6. u # <<>> => u[1] = due[1]
      <4>1. u # <<>> => Len(u) \in Nat \ {0}
        BY EmptySeq DEF Text
      <4>2. \A i \in 1 .. Len(u) : Append(u, b)[i] = u[i]
        BY AppendProperties DEF Text
      <4> QED BY <3>2, <4>1, <4>2
    <3> QED BY <3>2, <3>4, <3>5, <3>6
  <2>2. CASE due[Len(due)] # "CR"
    <3>1. t = due /\ held.cr = FALSE
      BY <1>5, <2>2
    <3>2. due \o <<>> = due
      BY <1>4, ConcatEmptySeq DEF Text
    <3> QED BY <1>4, <2>2, <3>1, <3>2
  <2> QED BY <2>1, <2>2
<1> HIDE DEF t
<1>8. fed' = (p \o t) \o Held' /\ fed' \in Text /\ p \o t \in Text
  <2>1. fed \o chunk = p \o due
    <3>1. (p \o Held) \o chunk = p \o (Held \o chunk)
      BY <1>3, Regroup
    <3> QED BY <1>2, <1>4, <3>1
  <2>2. Held' = IF held.cr THEN <<"CR">> ELSE <<>>
    BY <1>1 DEF Held
  <2>3. Held' \in Text
    BY <1>3, <2>2
  <2>4. p \o (t \o Held') = (p \o t) \o Held'
    BY <1>7, <2>3, Regroup
  <2>5. fed \o chunk \in Text /\ p \o t \in Text
    BY <1>7, ConcatProperties DEF LinesInv, Text
  <2> QED BY <1>1, <1>7, <2>1, <2>2, <2>4, <2>5
<1>9. Lines!Scan(p).cr /\ t # <<>> => t[1] # "LF"
  BY <1>2, <1>4, <1>7
<1>10. ReadsOn(p, t)
  BY <1>7, <1>9, ScanGoesOn
<1>11. Lines!Scan(p \o t) \in Readings
  BY <1>8, ScanIsOK
<1>12. Lines!Scan(p \o t).lines = out' /\ Lines!Scan(p \o t).rest = buffer'
  <2>1. CASE t = <<>>
    <3>1. p \o t = p
      BY <2>1, ConcatEmptySeq DEF Text
    <3> QED BY <1>1, <1>2, <2>1, <3>1
  <2>2. CASE t # <<>>
    <3>1. /\ out \o Lines!Join(t).lines = LinesOn(out, buffer, Lines!Scan(t).lines)
          /\ Lines!Join(t).buffer = RestOn(buffer, Lines!Scan(t).lines, Lines!Scan(t).rest)
      BY <1>7, <2>2, JoinReadsOn DEF LinesInv
    <3> QED BY <1>1, <1>2, <1>10, <2>2, <3>1 DEF ReadsOn
  <2> QED BY <2>1, <2>2
<1>13. Lines!Scan(p \o t).cr => trailingCr'
  <2>1. CASE t = <<>>
    <3>1. held.cr
      <4>1. due = <<>> \/ held.cr
        <5>1. <<>> \o <<>> = <<>>
          BY <1>3, ConcatEmptySeq DEF Text
        <5> QED BY <1>7, <2>1, <5>1
      <4> QED BY <1>4, <4>1
    <3> QED BY <1>1, <3>1
  <2>2. CASE t # <<>>
    <3>1. Lines!Scan(t).cr => held.cr
      BY <1>7, <2>2, ScanIsOK DEF ScanOK
    <3> QED BY <1>1, <1>10, <2>2, <3>1 DEF ReadsOn
  <2> QED BY <2>1, <2>2
<1>14. out' \in Seq(Text) /\ buffer' \in Text
  BY <1>11, <1>12 DEF Readings
<1> QED BY <1>1, <1>7, <1>8, <1>12, <1>13, <1>14 DEF LinesInv

LEMMA LinesBegin == Lines!Init => LinesInv
<1> SUFFICES ASSUME Lines!Init PROVE LinesInv
  OBVIOUS
<1>1. fed = <<>> /\ buffer = <<>> /\ trailingCr = FALSE /\ out = <<>>
  BY DEF Lines!Init
<1>2. <<>> \in Text /\ <<>> \in Seq(Text) /\ <<>> \o <<>> = <<>>
  BY EmptySeq, ConcatEmptySeq DEF Text
<1>3. Lines!Scan(<<>>).lines = <<>> /\ Lines!Scan(<<>>).rest = <<>>
      /\ ~Lines!Scan(<<>>).cr
  <2>1. PICK f : Reads(<<>>, 0, f) /\ Lines!Scan(<<>>) = f[0]
    BY <1>2, ScanIsRead
  <2> QED BY <2>1 DEF Reads, Unread
<1> QED BY <1>1, <1>2, <1>3 DEF LinesInv, Held

LEMMA LinesStep == LinesInv /\ [Lines!Next]_text => LinesInv'
<1>1. ASSUME LinesInv, Lines!Next PROVE LinesInv'
  <2>1. PICK chunk \in Lines!Chunks : Lines!Decode(chunk)
    BY <1>1 DEF Lines!Next
  <2>2. chunk \in Text /\ chunk # <<>>
    <3>1. PICK n \in 1 .. MaxBytes : chunk \in [1 .. n -> Lines!Bytes]
      BY DEF Lines!Chunks
    <3>2. n \in Nat /\ n > 0
      BY <3>1
    <3>3. chunk \in Seq(Lines!Bytes) /\ Len(chunk) = n
      BY <3>1, <3>2
    <3> QED BY <3>2, <3>3, EmptySeq DEF Text
  <2> QED BY <1>1, <2>1, <2>2, ChunkIsRead
<1>2. ASSUME LinesInv, UNCHANGED text PROVE LinesInv'
  BY <1>2 DEF text, LinesInv, Held
<1> QED BY <1>1, <1>2

LEMMA LinesAreWhole == LinesInv => Lines!ChunksDoNotMatter /\ Lines!NoLineHeldBack
<1> SUFFICES ASSUME LinesInv PROVE Lines!ChunksDoNotMatter /\ Lines!NoLineHeldBack
  OBVIOUS
<1>1. PICK p \in Text :
        /\ fed = p \o Held
        /\ Lines!Scan(p).lines = out /\ Lines!Scan(p).rest = buffer
        /\ Lines!Scan(p).cr => trailingCr
  BY DEF LinesInv
<1>2. out \in Seq(Text) /\ buffer \in Text /\ fed \in Text
  BY DEF LinesInv
<1>3. out \o <<>> = out /\ out \o <<buffer>> = Append(out, buffer)
  BY <1>2, ConcatEmptySeq, AppendIsConcat
<1>4. CASE ~trailingCr
  <2>1. fed = p
    BY <1>1, <1>4, ConcatEmptySeq DEF Held, Text
  <2>2. Lines!SplitLines(fed) = IF buffer = <<>> THEN out ELSE Append(out, buffer)
    BY <1>1, <2>1 DEF Lines!SplitLines
  <2>3. Lines!Flush = IF buffer = <<>> THEN <<>> ELSE <<buffer>>
    BY <1>4 DEF Lines!Flush
  <2>4. fed # <<>> /\ fed[Len(fed)] = "LF" => buffer = <<>>
    BY <1>1, <2>1, ScanIsOK DEF ScanOK
  <2> QED BY <1>3, <2>2, <2>3, <2>4
          DEF Lines!ChunksDoNotMatter, Lines!NoLineHeldBack, Lines!Last, Lines!LF
<1>5. CASE trailingCr
  <2>1. "CR" \in Lines!Bytes
    BY DEF Lines!Bytes, Lines!CR
  <2>2. fed = Append(p, "CR")
    BY <1>1, <1>5, <2>1, AppendIsConcat DEF Held, Text
  <2>3. fed[Len(fed)] = "CR"
    BY <2>1, <2>2, AppendProperties DEF Text
  <2>4. Lines!Scan(fed) = Lines!LineStep(Lines!Scan(p), "CR") /\ Lines!Scan(p) \in Readings
    BY <2>1, <2>2, ScanSteps, ScanIsOK
  <2>5. Lines!Scan(fed).lines = Ended(out, buffer) /\ Lines!Scan(fed).rest = <<>>
    BY <1>1, <2>1, <2>4, LineStepped
  <2>6. Lines!SplitLines(fed) = Append(out, buffer)
    BY <2>5 DEF Lines!SplitLines, Ended
  <2>7. Lines!Flush = <<buffer>>
    BY <1>5 DEF Lines!Flush
  <2> QED BY <1>3, <2>3, <2>6, <2>7
          DEF Lines!ChunksDoNotMatter, Lines!NoLineHeldBack, Lines!Last, Lines!LF
<1> QED BY <1>4, <1>5

\* A request that was sent again has as many tries less; one without a body has none ever.
RequestInv ==
  /\ limit \in Nat /\ breaks \in Nat
  /\ state # "raised" => limit + breaks = ReconnectLimit
  /\ state = "raised" => ~location \/ breaks > ReconnectLimit
  /\ headers = NoPayload => content = NoPayload /\ state # "refused"

LEMMA RequestBegins == Request!Init => RequestInv
BY RequestAssumption DEF Request!Init, RequestInv

LEMMA RequestStep == RequestInv /\ [Request!Next]_request => RequestInv'
<1>1. ASSUME RequestInv, Request!Send PROVE RequestInv'
  BY <1>1 DEF RequestInv, Request!Send
<1>2. ASSUME RequestInv, Request!Answer PROVE RequestInv'
  BY <1>2 DEF RequestInv, Request!Answer
<1>3. ASSUME RequestInv, Request!Drop PROVE RequestInv'
  <2>1. state = "sent" /\ breaks' = breaks + 1 /\ headers' = headers /\ location' = location
    BY <1>3 DEF Request!Drop
  <2>2. CASE limit = 0 \/ ~location
    <3>1. state' = "raised" /\ content' = content /\ limit' = limit
      BY <1>3, <2>2 DEF Request!Drop
    <3> QED BY <1>3, <2>1, <2>2, <3>1, RequestAssumption DEF RequestInv
  <2>3. CASE ~(limit = 0 \/ ~location)
    <3>1. state' = "call" /\ content' = NoPayload /\ limit' = limit - 1
      BY <1>3, <2>3 DEF Request!Drop
    <3> QED BY <1>3, <2>1, <2>3, <3>1, RequestAssumption DEF RequestInv
  <2> QED BY <2>2, <2>3
<1>4. ASSUME RequestInv, UNCHANGED request PROVE RequestInv'
  BY <1>4 DEF request, RequestInv
<1> QED BY <1>1, <1>2, <1>3, <1>4 DEF Request!Next

\* [BytesLineDecoder, request_reconnect] However the bytes of a stream are cut into chunks,
\* also between the CR and the LF of one line end, the lines are those of the whole, and a
\* line that has ended is not held back; and a request without a body is answered as long
\* as no more connections break than its limit says.
THEOREM TheWireIsRead == ServicesSpec => []WireIsRead
<1>1. ServicesInit => LinesInv /\ RequestInv
  BY LinesBegin, RequestBegins DEF ServicesInit
<1>2. [ServicesNext]_all => [Lines!Next]_text /\ [Request!Next]_request
  BY DEF ServicesNext, all
<1>3. LinesInv /\ RequestInv /\ [ServicesNext]_all => LinesInv' /\ RequestInv'
  BY <1>2, LinesStep, RequestStep
<1>4. LinesInv /\ RequestInv => WireIsRead
  BY LinesAreWhole DEF WireIsRead, RequestInv, Request!JoinReconnects
<1> QED BY <1>1, <1>3, <1>4, PTL DEF ServicesSpec
=============================================================================
