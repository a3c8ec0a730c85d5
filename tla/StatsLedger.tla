---------------------------- MODULE StatsLedger ----------------------------
(***************************************************************************)
(* The hourly ledger behind the leaderboard: internal/op/stats_leaderboard,*)
(* its query and its backfill from the relay log.  Rows are sums, so what  *)
(* is written twice is counted twice; a row is modelled as the requests    *)
(* that were added to it.  The ledger of site models (stats_site_model.go) *)
(* records, flushes and reads in the same way.                             *)
(*                                                                         *)
(* The process may be restarted at any time, which loses what only memory  *)
(* held.  A request ends at the instant that is its number.                *)
(***************************************************************************)
EXTENDS Naturals, FiniteSets

CONSTANTS
  LdLast,     \* bound: the last request
  LdReaders,  \* administrators that look at the leaderboard
  LdStarts    \* bound: how often the process starts

ASSUME LdAssumption == LdLast \in Nat \ {0} /\ LdStarts \in Nat \ {0}

LdEvents == 1..LdLast
LdNobody == "nobody"
NoCutoff == 0

VARIABLES
  ldNext,      \* the instant: the next request to end
  ldStarts,    \* processes started
  ldSince,     \* statsLeaderboardLiveSince
  ldCache,     \* leaderboardHourlyCache
  ldBarrier,   \* holder of leaderboardHourlyFlushLock for writing
  ldSaver,     \* where StatsLeaderboardHourlySaveDB stands, what it detached
  ldLive,      \* table, live rows: request -> times added
  ldOld,       \* table, backfilled rows
  ldLogs,      \* table relay_logs
  ldCutoff,    \* stats_leaderboard_coverages.backfill_cutoff
  ldFill,      \* where StatsLeaderboardBackfill stands, what it collected
  ldRead,      \* reader -> where its query stands, what it has added up
  ldEarly      \* history: live rows were written before there was a cutoff

ldVars == <<ldNext, ldStarts, ldSince, ldCache, ldBarrier, ldSaver, ldLive, ldOld, ldLogs,
            ldCutoff, ldFill, ldRead, ldEarly>>

Nothing == [e \in LdEvents |-> 0]
Count(S) == [e \in LdEvents |-> IF e \in S THEN 1 ELSE 0]
Add(rows, more) == [e \in LdEvents |-> rows[e] + more[e]]

LdNotReading == [pc |-> "idle", seen |-> Nothing, must |-> {}]
LdNoSave == [pc |-> "idle", took |-> {}]
LdNoFill == [pc |-> "idle", rows |-> {}]

\* Request 1 ended before there was a leaderboard: only the log knows of it.
LdInit ==
  /\ ldNext = 2 /\ ldStarts = 1 /\ ldSince = 2
  /\ ldCache = {} /\ ldBarrier = LdNobody /\ ldSaver = LdNoSave
  /\ ldLive = Nothing /\ ldOld = {} /\ ldLogs = {1} /\ ldCutoff = NoCutoff
  /\ ldFill = [LdNoFill EXCEPT !.pc = "wait"]
  /\ ldRead = [r \in LdReaders |-> LdNotReading]
  /\ ldEarly = FALSE

\* A lock for reading is had when nobody writes, one for writing when nobody
\* reads either.
LdMayRead == ldBarrier = LdNobody
\* Faulty variant: a plain mutex among writers.
LdMayWriteBesideReaders == LdMayRead
LdMayWrite == LdMayRead /\ \A r \in LdReaders : ldRead[r].pc # "cache"

-----------------------------------------------------------------------------
\* RecordStatsEvent ends in recordLeaderboardEvent.
LdRecord ==
  /\ ldNext \in LdEvents /\ LdMayRead
  /\ ldCache' = ldCache \cup {ldNext}
  /\ ldNext' = ldNext + 1
  /\ UNCHANGED <<ldStarts, ldSince, ldBarrier, ldSaver, ldLive, ldOld, ldLogs, ldCutoff,
                 ldFill, ldRead, ldEarly>>

\* The relay log of a request reaches its table, or expires (RelayLog.tla).
LdLogged(e) ==
  /\ e < ldNext /\ e >= ldSince /\ e \notin ldLogs
  /\ ldLogs' = ldLogs \cup {e}
  /\ UNCHANGED <<ldNext, ldStarts, ldSince, ldCache, ldBarrier, ldSaver, ldLive, ldOld,
                 ldCutoff, ldFill, ldRead, ldEarly>>

LdExpire(e) ==
  /\ e \in ldLogs
  /\ ldLogs' = ldLogs \ {e}
  /\ UNCHANGED <<ldNext, ldStarts, ldSince, ldCache, ldBarrier, ldSaver, ldLive, ldOld,
                 ldCutoff, ldFill, ldRead, ldEarly>>

\* StatsLeaderboardHourlySaveDB detaches the cache behind the barrier ...
LdDetach ==
  /\ ldSaver.pc = "idle" /\ LdMayWrite /\ ldCache # {}
  /\ ldBarrier' = "saver"
  /\ ldSaver' = [pc |-> "write", took |-> ldCache]
  /\ ldCache' = {}
  /\ UNCHANGED <<ldNext, ldStarts, ldSince, ldLive, ldOld, ldLogs, ldCutoff, ldFill,
                 ldRead, ldEarly>>

\* ... and adds it to the rows in one transaction (upsertLeaderboardLiveRows),
LdUpsert ==
  /\ ldSaver.pc = "write"
  /\ ldLive' = Add(ldLive, Count(ldSaver.took))
  /\ ldEarly' = (ldEarly \/ ldCutoff = NoCutoff)
  /\ ldSaver' = LdNoSave /\ ldBarrier' = LdNobody
  /\ UNCHANGED <<ldNext, ldStarts, ldSince, ldCache, ldOld, ldLogs, ldCutoff, ldFill, ldRead>>

\* or merges it back when that fails.
LdUpsertFails ==
  /\ ldSaver.pc = "write"
  /\ ldCache' = ldCache \cup ldSaver.took
  /\ ldSaver' = LdNoSave /\ ldBarrier' = LdNobody
  /\ UNCHANGED <<ldNext, ldStarts, ldSince, ldLive, ldOld, ldLogs, ldCutoff, ldFill, ldRead,
                 ldEarly>>

-----------------------------------------------------------------------------
(* StatsLeaderboardBackfill, once per process.                             *)

\* prepareLeaderboardBackfill: a cutoff found in the table is used again.
LdPrepare ==
  /\ ldFill.pc = "wait"
  /\ ldCutoff' = IF ldCutoff = NoCutoff THEN ldSince ELSE ldCutoff
  /\ ldFill' = [ldFill EXCEPT !.pc = "collect"]
  /\ UNCHANGED <<ldNext, ldStarts, ldSince, ldCache, ldBarrier, ldSaver, ldLive, ldOld,
                 ldLogs, ldRead, ldEarly>>

LdCollect ==
  /\ ldFill.pc = "collect"
  /\ ldFill' = [pc |-> "replace", rows |-> {e \in ldLogs : e < ldCutoff}]
  /\ UNCHANGED <<ldNext, ldStarts, ldSince, ldCache, ldBarrier, ldSaver, ldLive, ldOld,
                 ldLogs, ldCutoff, ldRead, ldEarly>>

\* replaceLeaderboardBackfillRows, a transaction behind the barrier.
LdReplace ==
  /\ ldFill.pc = "replace" /\ LdMayWrite
  /\ ldOld' = ldFill.rows
  /\ ldFill' = LdNoFill
  /\ UNCHANGED <<ldNext, ldStarts, ldSince, ldCache, ldBarrier, ldSaver, ldLive, ldLogs,
                 ldCutoff, ldRead, ldEarly>>

\* Any of its statements fails: nothing more until the next start.
LdFillFails ==
  /\ ldFill.pc # "idle"
  /\ ldFill' = LdNoFill
  /\ UNCHANGED <<ldNext, ldStarts, ldSince, ldCache, ldBarrier, ldSaver, ldLive, ldOld,
                 ldLogs, ldCutoff, ldRead, ldEarly>>

-----------------------------------------------------------------------------
(* StatsLeaderboardQuery adds up the rows, then what memory holds.         *)

LdQueryRows(r) ==
  /\ ldRead[r].pc = "idle" /\ LdMayRead
  /\ ldRead' = [ldRead EXCEPT ![r] =
       [pc |-> "cache", seen |-> Add(ldLive, Count(ldOld)),
        must |-> ldCache \cup {e \in LdEvents : ldLive[e] > 0}]]
  /\ UNCHANGED <<ldNext, ldStarts, ldSince, ldCache, ldBarrier, ldSaver, ldLive, ldOld,
                 ldLogs, ldCutoff, ldFill, ldEarly>>

LdQueryCache(r) ==
  /\ ldRead[r].pc = "cache"
  /\ ldRead' = [ldRead EXCEPT ![r].pc = "shown", ![r].seen = Add(@, Count(ldCache))]
  /\ UNCHANGED <<ldNext, ldStarts, ldSince, ldCache, ldBarrier, ldSaver, ldLive, ldOld,
                 ldLogs, ldCutoff, ldFill, ldEarly>>

LdQueryDone(r) ==
  /\ ldRead[r].pc = "shown"
  /\ ldRead' = [ldRead EXCEPT ![r] = LdNotReading]
  /\ UNCHANGED <<ldNext, ldStarts, ldSince, ldCache, ldBarrier, ldSaver, ldLive, ldOld,
                 ldLogs, ldCutoff, ldFill, ldEarly>>

LdRestart ==
  /\ ldStarts < LdStarts
  /\ ldStarts' = ldStarts + 1 /\ ldSince' = ldNext
  /\ ldCache' = {} /\ ldBarrier' = LdNobody /\ ldSaver' = LdNoSave
  /\ ldFill' = [LdNoFill EXCEPT !.pc = "wait"]
  /\ ldRead' = [r \in LdReaders |-> LdNotReading]
  /\ UNCHANGED <<ldNext, ldLive, ldOld, ldLogs, ldCutoff, ldEarly>>

-----------------------------------------------------------------------------
LdNext ==
  \/ LdRecord \/ LdDetach \/ LdUpsert \/ LdUpsertFails
  \/ LdPrepare \/ LdCollect \/ LdReplace \/ LdFillFails \/ LdRestart
  \/ \E e \in LdEvents : LdLogged(e) \/ LdExpire(e)
  \/ \E r \in LdReaders : LdQueryRows(r) \/ LdQueryCache(r) \/ LdQueryDone(r)

LdSpec == LdInit /\ [][LdNext]_ldVars

-----------------------------------------------------------------------------
(* Properties.                                                             *)

LdTypeOK ==
  /\ ldNext \in 1..(LdLast + 1) /\ ldStarts \in 1..LdStarts /\ ldSince \in 1..(LdLast + 1)
  /\ ldCache \subseteq LdEvents /\ ldBarrier \in {LdNobody, "saver"}
  /\ ldSaver \in [pc : {"idle", "write"}, took : SUBSET LdEvents]
  /\ ldLive \in [LdEvents -> Nat] /\ ldOld \subseteq LdEvents /\ ldLogs \subseteq LdEvents
  /\ ldCutoff \in 0..(LdLast + 1)
  /\ ldFill \in [pc : {"idle", "wait", "collect", "replace"}, rows : SUBSET LdEvents]
  /\ ldRead \in [LdReaders -> [pc : {"idle", "cache", "shown"},
                               seen : [LdEvents -> Nat], must : SUBSET LdEvents]]
  /\ ldEarly \in BOOLEAN

\* A query that overlaps requests, failing flushes and the backfill shows each
\* request that had been recorded when it began, and shows no request twice, in
\* the live rows, in memory or in the backfill (the flush barrier of
\* stats_leaderboard.go:40-44, the cutoff of stats_leaderboard_backfill.go:26-28).
\* The cutoff must have been in the table before the first live rows: a process
\* that flushed some and ended before its backfill began leaves them to be
\* backfilled a second time by the next one.
LdShownOnce ==
  ~ldEarly => \A r \in LdReaders : ldRead[r].pc = "shown" =>
    /\ \A e \in LdEvents : ldRead[r].seen[e] <= 1
    /\ \A e \in ldRead[r].must : ldRead[r].seen[e] = 1
=============================================================================
