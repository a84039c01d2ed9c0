------------------------------- MODULE StoreTtl -------------------------------
(***************************************************************************)
(* The time-to-live of the items of SqliteStore and PostgresStore, and the  *)
(* thread that sweeps them: the rows' deadlines, the reads that move them,  *)
(* start_ttl_sweeper, stop_ttl_sweeper and the loop between them, which     *)
(* share one event and one thread attribute. Keys are those of one          *)
(* namespace; values are left out. Time is counted in seconds.              *)
(***************************************************************************)
EXTENDS Naturals, FiniteSets

CONSTANTS
    Keys,
    Ttls,                  \* the times to live items are put with
    Forever,               \* no ttl
    Configs,               \* which database, and ttl_config["refresh_on_read"]
    ClockSteps,            \* how far the clock goes at a time
    MaxTime,               \* bound on the clock
    MaxFailures,           \* bound on the sweeps that raise
    MaxStarts              \* bound on the calls of start_ttl_sweeper

ASSUME TtlAssumption ==
    /\ Ttls \subseteq Nat \cup {Forever} /\ Forever \notin Nat
    /\ Configs \subseteq [sqlite : BOOLEAN, onRead : BOOLEAN]
    /\ ClockSteps \subseteq Nat /\ MaxTime \in Nat

VARIABLES
    config,                \* one of Configs, for the whole behaviour
    rows,                  \* ttl_minutes and expires_at of each stored key
    now,
    stopEvent,             \* _ttl_stop_event
    thread,                \* _ttl_sweeper_thread: where the sweeper stands
    stopping,              \* the caller is in join()
    failures, starts,
    abrupt,                \* stop may time out, the future may be cancelled
    wanted,                \* history: start returned, no stop was asked since
    touched,               \* history: when a key was last put, or read to be refreshed
    lease                  \* history: the ttl a key was last put with

vars == <<config, rows, now, stopEvent, thread, stopping, failures, starts, abrupt, wanted,
          touched, lease>>
store == <<config, rows, touched, lease>>
sweeper == <<stopEvent, thread, stopping, starts, abrupt, wanted>>

Minute == 60

\* A column of whole minutes: the nearest, of two the even one.
Rounded(ttl) ==
    LET whole == ttl \div Minute
        rest == ttl % Minute
        up == 2 * rest > Minute \/ (2 * rest = Minute /\ whole % 2 = 1)
    IN  (IF up THEN whole + 1 ELSE whole) * Minute

\* ttl_minutes: REAL in SQLite, INT in Postgres.
Column(ttl) == IF config.sqlite \/ ttl = Forever THEN ttl ELSE Rounded(ttl)

\* expires_at
After(ttl) == IF ttl = Forever THEN Forever ELSE now + ttl

Absent == [stored |-> FALSE, ttl |-> Forever, expires |-> Forever]

Row(ttl) == [stored |-> TRUE, ttl |-> Column(ttl), expires |-> After(ttl)]

Stored == {k \in Keys : rows[k].stored}
HasTtl(k) == k \in Stored /\ rows[k].ttl # Forever
Expired(k) == HasTtl(k) /\ rows[k].expires < now

Init ==
    /\ config \in Configs
    /\ rows = [k \in Keys |-> Absent]
    /\ now = 1
    /\ stopEvent = FALSE /\ thread = "none" /\ stopping = FALSE
    /\ failures = 0 /\ starts = 0
    /\ abrupt \in BOOLEAN
    /\ wanted = FALSE
    /\ touched = [k \in Keys |-> 0] /\ lease = [k \in Keys |-> Forever]

-----------------------------------------------------------------------------
(* The store's operations.                                                  *)

\* What is not stored, and what has no ttl, has no history.
Forget(S) ==
    /\ touched' = [k \in Keys |-> IF k \in S THEN 0 ELSE touched[k]]
    /\ lease' = [k \in Keys |-> IF k \in S THEN Forever ELSE lease[k]]

Put(k, ttl) ==
    /\ rows' = [rows EXCEPT ![k] = Row(ttl)]
    /\ touched' = [touched EXCEPT ![k] = IF ttl = Forever THEN 0 ELSE now]
    /\ lease' = [lease EXCEPT ![k] = ttl]
    /\ UNCHANGED <<config, now, failures, sweeper>>

Delete(k) ==
    /\ rows' = [rows EXCEPT ![k] = Absent] /\ Forget({k})
    /\ UNCHANGED <<config, now, failures, sweeper>>

\* The refresh knows the column, not what was put.
Renewed(S) ==
    [k \in Keys |-> IF k \in S /\ HasTtl(k)
                    THEN [rows[k] EXCEPT !.expires = After(rows[k].ttl)] ELSE rows[k]]

\* SQLite refreshes only if refresh_on_read is set, whatever is asked.
Refreshes == ~config.sqlite \/ config.onRead

\* Mutant: the refresh does not look at what was asked.
RefreshesAll(read, asked) == read

\* Which of the keys read in one batch are refreshed, when those in asked are
\* to be: in SQLite all of them, once one is.
Refreshed(read, asked) ==
    CASE ~Refreshes \/ asked = {} -> {}
      [] Refreshes /\ asked # {} /\ config.sqlite -> read
      [] OTHER -> asked

\* Gets of one batch.
Get(read, asked) ==
    /\ asked \subseteq read
    /\ rows' = Renewed(Refreshed(read, asked))
    /\ touched' = [k \in Keys |-> IF Refreshes /\ k \in asked /\ HasTtl(k) THEN now ELSE touched[k]]
    /\ UNCHANGED <<config, lease, now, failures, sweeper>>

\* A search refreshes what it returns, which may be a page of what there is.
Search(found, refresh) ==
    /\ found \subseteq Stored
    /\ rows' = IF refresh /\ Refreshes THEN Renewed(found) ELSE rows
    /\ touched' = [k \in Keys |-> IF refresh /\ Refreshes /\ k \in found /\ HasTtl(k)
                                    THEN now ELSE touched[k]]
    /\ UNCHANGED <<config, lease, now, failures, sweeper>>

Tick ==
    /\ \E step \in ClockSteps : now + step <= MaxTime /\ now' = now + step
    /\ UNCHANGED <<failures, store, sweeper>>

-----------------------------------------------------------------------------
(* The sweeper: none, "waiting" for the event or the interval, "sweeping",  *)
(* "checking" the event again, "ended".                                     *)

Alive == thread \in {"waiting", "sweeping", "checking"}

\* start_ttl_sweeper: an alive thread is left to run.
Start ==
    /\ ~stopping /\ starts < MaxStarts
    /\ starts' = starts + 1 /\ wanted' = TRUE
    /\ IF Alive THEN UNCHANGED <<thread, stopEvent>>
                ELSE thread' = "checking" /\ stopEvent' = FALSE
    /\ UNCHANGED <<now, abrupt, failures, store, stopping>>

\* The future start_ttl_sweeper returned is cancelled.
CancelFuture ==
    /\ abrupt /\ ~stopping /\ Alive
    /\ stopEvent' = TRUE /\ wanted' = FALSE
    /\ UNCHANGED <<now, abrupt, failures, store, thread, stopping, starts>>

\* Mutant: the event is not set.
StopWaits ==
    /\ ~stopping /\ Alive
    /\ stopping' = TRUE /\ wanted' = FALSE
    /\ UNCHANGED <<now, abrupt, failures, store, thread, starts, stopEvent>>

\* stop_ttl_sweeper: sets the event and joins the thread.
Stop ==
    /\ ~stopping /\ Alive
    /\ stopEvent' = TRUE /\ stopping' = TRUE /\ wanted' = FALSE
    /\ UNCHANGED <<now, abrupt, failures, store, thread, starts>>

Joined ==
    /\ stopping /\ ~Alive
    /\ stopping' = FALSE /\ thread' = "none"
    /\ UNCHANGED <<now, abrupt, failures, store, stopEvent, starts, wanted>>

StopTimesOut ==
    /\ abrupt /\ stopping /\ Alive
    /\ stopping' = FALSE
    /\ UNCHANGED <<now, abrupt, failures, store, stopEvent, thread, starts, wanted>>

At(here, there) ==
    /\ thread = here /\ thread' = there
    /\ UNCHANGED <<now, abrupt, stopEvent, stopping, starts, wanted>>

Check == At("checking", IF stopEvent THEN "ended" ELSE "waiting") /\ UNCHANGED <<store, failures>>

\* The event is set, or the interval passes.
Wake ==
    \/ stopEvent /\ At("waiting", "ended") /\ UNCHANGED <<store, failures>>
    \/ At("waiting", "sweeping") /\ UNCHANGED <<store, failures>>

\* Mutant: an item is swept in the second it expires in.
SweepsEarly ==
    /\ At("sweeping", "checking")
    /\ LET gone == {k \in Keys : HasTtl(k) /\ rows[k].expires <= now}
       IN  rows' = [k \in Keys |-> IF k \in gone THEN Absent ELSE rows[k]] /\ Forget(gone)
    /\ UNCHANGED <<config, failures>>

\* sweep_ttl.
Sweep ==
    /\ At("sweeping", "checking")
    /\ rows' = [k \in Keys |-> IF Expired(k) THEN Absent ELSE rows[k]]
    /\ Forget({k \in Keys : Expired(k)})
    /\ UNCHANGED <<config, failures>>

\* It raises: that is logged.
SweepFails ==
    /\ At("sweeping", "checking")
    /\ failures < MaxFailures /\ failures' = failures + 1
    /\ UNCHANGED store

Thread == Check \/ Wake \/ Sweep \/ SweepFails

Operation ==
    \/ \E k \in Keys : (\E ttl \in Ttls : Put(k, ttl)) \/ Delete(k)
    \/ \E read, asked \in SUBSET Keys : Get(read, asked)
    \/ \E found \in SUBSET Keys, refresh \in BOOLEAN : Search(found, refresh)

Next ==
    \/ Operation \/ Tick
    \/ Start \/ CancelFuture \/ Stop \/ Joined \/ StopTimesOut
    \/ Thread

\* The sweeper's thread runs, and its interval passes.
Fairness == WF_vars(Thread) /\ WF_vars(Joined)

Spec == Init /\ [][Next]_vars /\ Fairness

-----------------------------------------------------------------------------
(* Properties.                                                              *)

TypeOK ==
    /\ config \in Configs
    /\ rows \in [Keys -> [stored : BOOLEAN, ttl : Nat \cup {Forever}, expires : Nat \cup {Forever}]]
    /\ now \in 1 .. MaxTime
    /\ stopEvent \in BOOLEAN /\ stopping \in BOOLEAN
    /\ abrupt \in BOOLEAN /\ wanted \in BOOLEAN
    /\ thread \in {"none", "waiting", "sweeping", "checking", "ended"}

Due(k) == touched[k] + lease[k]

\* What the column of whole minutes may take from a ttl or add to it.
Slack(k) == IF config.sqlite \/ lease[k] % Minute = 0 THEN 0 ELSE Minute \div 2

\* [sweep_ttl, refreshes; PutOp.ttl: an item expires this many minutes after
\* it was last accessed] An item is swept only when its time has passed since
\* it was last put or read to be refreshed: to the second with SQLite and for
\* whole minutes; with Postgres one of a fraction may go up to half a minute
\* early, as it was renewed by the minute.
SweptWhenDue ==
    [][\A k \in Keys : Sweep /\ HasTtl(k) /\ ~rows'[k].stored
                       => now + Slack(k) > Due(k)]_vars

\* [_get_batch_GET_ops_queries; GetOp.refresh_ttl: refresh the TTL of the
\* returned item] The deadline of an item is its ttl after its last touch. With
\* Postgres it moves only by a call that asks for it, within the half minute;
\* with SQLite a batch may renew it for a neighbour's sake, but no deadline is
\* ever earlier, nor later than what a touch just now would give.
DeadlineIsLastTouch ==
    \A k \in Keys : HasTtl(k) =>
        /\ rows[k].expires + Slack(k) >= Due(k)
        /\ rows[k].expires <= now + lease[k] + Slack(k)
        /\ ~config.sqlite => rows[k].expires <= Due(k) + Slack(k)

\* [start_ttl_sweeper: periodically delete expired store items] While the
\* sweeper is wanted, an item that has expired is deleted or touched again, if
\* every stop was waited for.
ExpiredAreSwept ==
    \A k \in Keys : (~abrupt /\ wanted /\ Expired(k)) ~> (~wanted \/ ~Expired(k))

\* [stop_ttl_sweeper] A stop without a timeout ends: the thread notices the
\* event wherever it is.
StopEnds == stopping /\ ~abrupt ~> ~stopping
=============================================================================
