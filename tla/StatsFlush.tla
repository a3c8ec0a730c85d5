----------------------------- MODULE StatsFlush -----------------------------
(***************************************************************************)
(* The statistics of internal/op/stats.go: requests add to counters in     *)
(* memory, a periodic save copies to the database what is marked dirty,    *)
(* and the first request of a day saves the day that is over.  Saves may   *)
(* run at once: statsImportLock is only read-locked by them.               *)
(*                                                                         *)
(* The tables by channel, model and API key are kept alike: one of them is *)
(* modelled, its counters are numbers of requests.  Left out: the total    *)
(* and the hourly rows, which every save writes whole; imports, which      *)
(* exclude requests and saves; the removal of a row with its channel.  The *)
(* hourly ledgers are StatsLedger's.                                       *)
(***************************************************************************)
EXTENDS Integers, Sequences, FiniteSets

CONSTANTS
  StRequests,  \* requests that end; each may save the day before
  StSavers,    \* StatsSaveDBTask, SaveCache
  StKeys,      \* channels (models, API keys)
  StMax,       \* bound: the requests counted for one key or day
  StDays       \* bound: the last day

ASSUME StAssumption ==
  StMax \in Nat /\ StDays \in Nat \ {0} /\ StRequests \cap StSavers = {}

StWho == StRequests \cup StSavers
NoRow == -1
StRow == NoRow..StMax

VARIABLES
  stCache,     \* statsChannelCache: key -> counter, NoRow if absent
  stDirty,     \* statsChannelCacheNeedUpdate
  stRows,      \* table stats_channels
  stToday,     \* the calendar
  stDaily,     \* statsDailyCache: date and counter
  stDayRows,   \* table stats_dailies
  stOver,      \* pendingDailyOverrides
  stReq,       \* request -> where it stands, its key, the counter it read
  stSave,      \* saver -> where it stands and what it took
  stFinal,     \* history: day -> its counter when it was replaced
  stMixed      \* history: two saves have been under way at once

stVars == <<stCache, stDirty, stRows, stToday, stDaily, stDayRows, stOver, stReq, stSave,
            stFinal, stMixed>>

StIdle == [pc |-> "idle", day |-> 0, n |-> 0, keys |-> {}, old |-> <<>>, 
           rows |-> [k \in StKeys |-> NoRow]]

StInit ==
  /\ stCache = [k \in StKeys |-> NoRow] /\ stDirty = {}
  /\ stRows = [k \in StKeys |-> NoRow]
  /\ stToday = 1 /\ stDaily = [day |-> 1, n |-> 0]
  /\ stDayRows = [d \in 1..StDays |-> NoRow] /\ stOver = <<>>
  /\ stReq = [r \in StRequests |-> [pc |-> "idle", key |-> NoRow, n |-> 0]]
  /\ stSave = [s \in StWho |-> StIdle]
  /\ stFinal = [d \in 1..StDays |-> NoRow]
  /\ stMixed = FALSE

StSaving(s) == stSave[s].pc # "idle"
\* What a save does to the history when it starts.
StMix(s) == stMixed' = (stMixed \/ \E t \in StWho \ {s} : StSaving(t))

StMidnight ==
  /\ stToday < StDays
  /\ stToday' = stToday + 1
  /\ UNCHANGED <<stCache, stDirty, stRows, stDaily, stDayRows, stOver, stReq, stSave,
                 stFinal, stMixed>>

-----------------------------------------------------------------------------
(* A request: the day first (StatsDailyUpdate), then its rows.             *)

StDayAdd(r) ==
  /\ stReq[r].pc = "idle" /\ stDaily.day = stToday /\ stDaily.n < StMax
  /\ stDaily' = [stDaily EXCEPT !.n = @ + 1]
  /\ stReq' = [stReq EXCEPT ![r].pc = "row"]
  /\ UNCHANGED <<stCache, stDirty, stRows, stToday, stDayRows, stOver, stSave, stFinal, stMixed>>

\* The first request of a day replaces the counter and saves the old one
\* itself: statsSaveDBWithDailyOverride.
StDayRoll(r) ==
  /\ stReq[r].pc = "idle" /\ stDaily.day # stToday /\ StMax > 0
  /\ stFinal' = [stFinal EXCEPT ![stDaily.day] = stDaily.n]
  /\ stSave' = [stSave EXCEPT ![r] = [StIdle EXCEPT !.pc = "swap", !.day = stDaily.day,
                                                  !.n = stDaily.n]]
  /\ stDaily' = [day |-> stToday, n |-> 1]
  /\ stReq' = [stReq EXCEPT ![r].pc = "row"]
  /\ StMix(r)
  /\ UNCHANGED <<stCache, stDirty, stRows, stToday, stDayRows, stOver>>

\* StatsChannelUpdate: the row is read, written back and marked, each under a
\* lock of its own.
StRowGet(r, k) ==
  /\ stReq[r].pc = "row" /\ ~StSaving(r) /\ stCache[k] < StMax
  /\ stReq' = [stReq EXCEPT ![r] =
       [pc |-> "set", key |-> k, n |-> IF stCache[k] = NoRow THEN 0 ELSE stCache[k]]]
  /\ UNCHANGED <<stCache, stDirty, stRows, stToday, stDaily, stDayRows, stOver, stSave,
                 stFinal, stMixed>>

StRowSet(r) ==
  /\ stReq[r].pc = "set" /\ stReq[r].n < StMax
  /\ stCache' = [stCache EXCEPT ![stReq[r].key] = stReq[r].n + 1]
  /\ stReq' = [stReq EXCEPT ![r].pc = "mark"]
  /\ UNCHANGED <<stDirty, stRows, stToday, stDaily, stDayRows, stOver, stSave, stFinal, stMixed>>

StRowMark(r) ==
  /\ stReq[r].pc = "mark"
  /\ stDirty' = stDirty \cup {stReq[r].key}
  /\ stReq' = [stReq EXCEPT ![r] = [pc |-> "idle", key |-> NoRow, n |-> 0]]
  /\ UNCHANGED <<stCache, stRows, stToday, stDaily, stDayRows, stOver, stSave, stFinal, stMixed>>

-----------------------------------------------------------------------------
(* A save.  A failed write puts back what the save had taken.              *)

\* StatsSaveDB first retries the days whose save had failed: all are taken.
StSaveStart(s) ==
  /\ s \in StSavers /\ stSave[s].pc = "idle"
  /\ stSave' = [stSave EXCEPT ![s] = [StIdle EXCEPT !.pc = "old", !.old = stOver]]
  /\ stOver' = <<>>
  /\ StMix(s)
  /\ UNCHANGED <<stCache, stDirty, stRows, stToday, stDaily, stDayRows, stReq, stFinal>>

StOldDay(s) ==
  /\ stSave[s].pc = "old" /\ stSave[s].old # <<>>
  /\ LET d == Head(stSave[s].old)
     IN stDayRows' = [stDayRows EXCEPT ![d.day] = d.n]
  /\ stSave' = [stSave EXCEPT ![s].old = Tail(@)]
  /\ UNCHANGED <<stCache, stDirty, stRows, stToday, stDaily, stOver, stReq, stFinal, stMixed>>

StOldDayFails(s) ==
  /\ stSave[s].pc = "old" /\ stSave[s].old # <<>>
  /\ stOver' = stSave[s].old \o stOver
  /\ stSave' = [stSave EXCEPT ![s] = StIdle]
  /\ UNCHANGED <<stCache, stDirty, stRows, stToday, stDaily, stDayRows, stReq, stFinal, stMixed>>

\* Then it takes a copy of the day.
StCopyDay(s) ==
  /\ stSave[s].pc = "old" /\ stSave[s].old = <<>>
  /\ stSave' = [stSave EXCEPT ![s].pc = "swap", ![s].day = stDaily.day, ![s].n = stDaily.n]
  /\ UNCHANGED <<stCache, stDirty, stRows, stToday, stDaily, stDayRows, stOver, stReq,
                 stFinal, stMixed>>

\* Both kinds of save swap the marks out ...
StSwap(s) ==
  /\ stSave[s].pc = "swap"
  /\ stSave' = [stSave EXCEPT ![s].pc = "day", ![s].keys = stDirty]
  /\ stDirty' = {}
  /\ UNCHANGED <<stCache, stRows, stToday, stDaily, stDayRows, stOver, stReq, stFinal, stMixed>>

\* ... and persistStatsSnapshots writes the day, reads the rows, writes them.
StWriteDay(s) ==
  /\ stSave[s].pc = "day"
  /\ stDayRows' = [stDayRows EXCEPT ![stSave[s].day] = stSave[s].n]
  /\ stSave' = [stSave EXCEPT ![s].pc = "read"]
  /\ UNCHANGED <<stCache, stDirty, stRows, stToday, stDaily, stOver, stReq, stFinal, stMixed>>

StReadRows(s) ==
  /\ stSave[s].pc = "read"
  /\ stSave' = [stSave EXCEPT ![s].pc = "write",
       ![s].rows = [k \in StKeys |-> IF k \in stSave[s].keys THEN stCache[k] ELSE NoRow]]
  /\ UNCHANGED <<stCache, stDirty, stRows, stToday, stDaily, stDayRows, stOver, stReq,
                 stFinal, stMixed>>

StWriteRows(s) ==
  /\ stSave[s].pc = "write"
  /\ stRows' = [k \in StKeys |->
       IF stSave[s].rows[k] = NoRow THEN stRows[k] ELSE stSave[s].rows[k]]
  /\ stSave' = [stSave EXCEPT ![s].pc = "rest"]
  /\ UNCHANGED <<stCache, stDirty, stToday, stDaily, stDayRows, stOver, stReq, stFinal, stMixed>>

\* The other tables follow.
StSaveDone(s) ==
  /\ stSave[s].pc = "rest"
  /\ stSave' = [stSave EXCEPT ![s] = StIdle]
  /\ UNCHANGED <<stCache, stDirty, stRows, stToday, stDaily, stDayRows, stOver, stReq,
                 stFinal, stMixed>>

\* Faulty variant: the marks that were swapped out are not put back.
StSaveFailsForgetful(s) ==
  /\ stSave[s].pc \in {"day", "write", "rest"}
  /\ stOver' = IF s \in StRequests
                 THEN Append(stOver, [day |-> stSave[s].day, n |-> stSave[s].n])
                 ELSE stOver
  /\ stSave' = [stSave EXCEPT ![s] = StIdle]
  /\ UNCHANGED <<stCache, stDirty, stRows, stToday, stDaily, stDayRows, stReq, stFinal,
                 stMixed>>

\* restoreStatsDirtyIDs and, for the day that is over, enqueuePendingDailyOverride.
StSaveFails(s) ==
  /\ stSave[s].pc \in {"day", "write", "rest"}
  /\ stDirty' = stDirty \cup stSave[s].keys
  /\ stOver' = IF s \in StRequests
                 THEN Append(stOver, [day |-> stSave[s].day, n |-> stSave[s].n])
                 ELSE stOver
  /\ stSave' = [stSave EXCEPT ![s] = StIdle]
  /\ UNCHANGED <<stCache, stRows, stToday, stDaily, stDayRows, stReq, stFinal, stMixed>>

-----------------------------------------------------------------------------
StNext ==
  \/ StMidnight
  \/ \E r \in StRequests :
       \/ StDayAdd(r) \/ StDayRoll(r) \/ StRowSet(r) \/ StRowMark(r)
       \/ \E k \in StKeys : StRowGet(r, k)
  \/ \E s \in StWho :
       \/ StSaveStart(s) \/ StOldDay(s) \/ StOldDayFails(s) \/ StCopyDay(s)
       \/ StSwap(s) \/ StWriteDay(s) \/ StReadRows(s) \/ StWriteRows(s)
       \/ StSaveDone(s) \/ StSaveFails(s)

StSpec == StInit /\ [][StNext]_stVars

-----------------------------------------------------------------------------
(* Properties.                                                             *)

StDayCount == [day : 1..StDays, n : 0..StMax]
StCount ==
  [pc : {"idle", "row", "set", "mark"}, key : StKeys \cup {NoRow}, n : 0..StMax]
StSave ==
  [pc : {"idle", "old", "swap", "day", "read", "write", "rest"}, day : 0..StDays,
   n : 0..StMax, keys : SUBSET StKeys, old : Seq(StDayCount), rows : [StKeys -> StRow]]

StTypeOK ==
  /\ stCache \in [StKeys -> StRow] /\ stDirty \subseteq StKeys
  /\ stRows \in [StKeys -> StRow] /\ stToday \in 1..StDays
  /\ stDaily \in StDayCount /\ stDayRows \in [1..StDays -> StRow]
  /\ stOver \in Seq(StDayCount)
  /\ stReq \in [StRequests -> StCount] /\ stSave \in [StWho -> StSave]
  /\ stFinal \in [1..StDays -> StRow] /\ stMixed \in BOOLEAN

\* The counter of k is marked dirty, or about to be.
StMarked(k) == k \in stDirty \/ \E r \in StRequests : stReq[r].pc = "mark" /\ stReq[r].key = k

\* While saves do not overlap, a counter that is neither marked dirty, nor about
\* to be, nor in the hands of a save is what its row says: a save that fails, or
\* that runs while requests count, leaves no counter behind until the next
\* restart reads the row (restoreStatsDirtyIDs, StatsChannelUpdate).
StRowCurrent ==
  ~stMixed => \A k \in StKeys :
    stRows[k] = stCache[k] \/ StMarked(k) \/ \E s \in StWho : k \in stSave[s].keys

\* The table has the last counter of a day, or something still holds it.
StKept(d) ==
  LET last == [day |-> d, n |-> stFinal[d]]
  IN \/ stDayRows[d] = stFinal[d]
     \/ \E i \in 1..Len(stOver) : stOver[i] = last
     \/ \E s \in StWho :
          \/ stSave[s].day = d /\ stSave[s].n = stFinal[d]
          \/ \E i \in 1..Len(stSave[s].old) : stSave[s].old[i] = last

\* While saves do not overlap, the last counter of a day that is over is in the
\* table, or a save or the queue of retries still holds it: a rollover snapshot
\* is never silently dropped (stats.go:44-46).
StDayKept == ~stMixed => \A d \in 1..StDays : stFinal[d] # NoRow => StKept(d)

\* Nothing that was counted is missing from the tables unless something still
\* holds it, whatever fails.
StSaved == StRowCurrent /\ StDayKept
=============================================================================
