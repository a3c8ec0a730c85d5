------------------------------ MODULE RelayLog ------------------------------
(***************************************************************************)
(* The relay log of internal/op/log.go: request handlers append to a ring  *)
(* of recent logs and to a bounded queue, one flush at a time copies a     *)
(* batch of the queue to the database, an operator clears or reads it, and *)
(* the hooks of cmd/start.go flush what is left when the process ends.     *)
(*                                                                         *)
(* Each of relayLogPendingLock and relayLogRecentLock is held for one      *)
(* step; relayLogFlushLock is held over several and is a variable.  The    *)
(* flush signal is left out: it wakes the writer before its ticker does,   *)
(* and the writer may wake here at any time.  Subscribers of the live      *)
(* stream and the texts a filter looks at are left out, too.               *)
(***************************************************************************)
EXTENDS Integers, Sequences, FiniteSets, SequencesExt

CONSTANTS
  LogWriters,    \* request handlers that end
  LogReaders,    \* administrators that look up or list logs
  LogLast,       \* bound: the last ID snowflake hands out
  LogTime,       \* ID -> when its request started, the order of a listing
  LogBytes,      \* ID -> relayLogApproxBytes
  LogQueueSize,  \* relayLogQueueSize
  LogQueueBytes, \* relayLogQueueBytes
  LogBatch,      \* relayLogBatchSize
  LogBatches,    \* relayLogWriterMaxBatches
  LogRecentMax,  \* relayLogRecentMaxSize
  LogRowBatch,   \* relayLogCleanupBatchSize
  LogLimit       \* the size of a page

LogIds == 1..LogLast

ASSUME LogAssumption ==
  /\ LogLast \in Nat
  /\ LogTime \in [LogIds -> Nat] /\ LogBytes \in [LogIds -> Nat]
  /\ LogQueueSize \in Nat \ {0} /\ LogQueueBytes \in Nat
  /\ LogBatch \in Nat \ {0} /\ LogBatches \in Nat \ {0}
  /\ LogRecentMax \in Nat \ {0} /\ LogRowBatch \in Nat \ {0}
  /\ LogLimit \in Nat \ {0}

\* Who flushes: RelayLogWriterRun, the periodic RelayLogSaveDBTask, and the
\* goroutine that runs the shutdown hooks.  Clear takes the same lock.
LogFlushers == {"writer", "task", "main"}
LogFree == "free"
Unlimited == -1

VARIABLES
  logEnabled,      \* relay_log_keep_enabled
  logNext,         \* the next ID
  logAdd,          \* handler -> where its RelayLogAdd stands
  logPending,      \* relayLogPending
  logPendingBytes, \* relayLogPendingBytes
  logRecent,       \* relayLogRecent
  logFlushLock,    \* holder of relayLogFlushLock
  logFlush,        \* flusher -> where it stands, its batch, its batches left
  logClear,        \* where RelayLogClear stands
  logRead,         \* reader -> where its RelayLogGet or list call stands
  logPhase,        \* up, then the shutdown hooks
  logDb,           \* IDs in table relay_logs
  logAccepted,     \* history: IDs the queue took
  logRemoved       \* history: IDs cleared or expired

logVars == <<logEnabled, logNext, logAdd, logPending, logPendingBytes, logRecent,
             logFlushLock, logFlush, logClear, logRead, logPhase, logDb,
             logAccepted, logRemoved>>
logQueueVars == <<logPending, logPendingBytes>>
logSetVars == <<logDb, logAccepted, logRemoved>>

Ids(queue) == ToSet(queue)
BytesOf(queue) == SumFunction([i \in DOMAIN queue |-> LogBytes[queue[i]]])

NotAdding == [pc |-> "idle", id |-> 0, keep |-> FALSE]

LogInit ==
  /\ logEnabled = TRUE
  /\ logNext = 1
  /\ logAdd = [w \in LogWriters |-> NotAdding]
  /\ logPending = <<>> /\ logPendingBytes = 0 /\ logRecent = <<>>
  /\ logFlushLock = LogFree
  /\ logFlush = [f \in LogFlushers |-> [pc |-> "idle", batch |-> <<>>, left |-> 0]]
  /\ logClear = "idle"
  /\ logRead = [r \in LogReaders |->
                  [pc |-> "idle", id |-> 0, cached |-> <<>>, page |-> <<>>, live |-> {}]]
  /\ logPhase = "up"
  /\ logDb = {} /\ logAccepted = {} /\ logRemoved = {}

-----------------------------------------------------------------------------
(* RelayLogAdd: the setting is read and the ID drawn, then the log goes to *)
(* the ring, then to the queue.                                            *)

\* The administrator switches keeping on or off.
LogToggle ==
  /\ logPhase = "up"
  /\ logEnabled' = ~logEnabled
  /\ UNCHANGED <<logNext, logAdd, logQueueVars, logRecent, logFlushLock, logFlush,
                 logClear, logRead, logPhase, logSetVars>>

LogGenerate(w) ==
  /\ logAdd[w].pc = "idle" /\ logNext \in LogIds
  /\ logAdd' = [logAdd EXCEPT ![w] = [pc |-> "drawn", id |-> logNext, keep |-> logEnabled]]
  /\ logNext' = logNext + 1
  /\ UNCHANGED <<logEnabled, logQueueVars, logRecent, logFlushLock, logFlush, logClear,
                 logRead, logPhase, logSetVars>>

\* A full ring keeps its newer half.
Trim(ring) ==
  IF Len(ring) > LogRecentMax
    THEN SubSeq(ring, Len(ring) - LogRecentMax \div 2 + 1, Len(ring))
    ELSE ring

LogAppendRecent(w) ==
  /\ logAdd[w].pc = "drawn"
  /\ logRecent' = Trim(Append(logRecent, logAdd[w].id))
  /\ logAdd' = [logAdd EXCEPT ![w] = IF @.keep THEN [@ EXCEPT !.pc = "recent"] ELSE NotAdding]
  /\ UNCHANGED <<logEnabled, logNext, logQueueVars, logFlushLock, logFlush, logClear,
                 logRead, logPhase, logSetVars>>

QueueRefuses(id) ==
  \/ Len(logPending) >= LogQueueSize
  \/ logPendingBytes + LogBytes[id] > LogQueueBytes

LogEnqueue(w) ==
  /\ logAdd[w].pc = "recent" /\ ~QueueRefuses(logAdd[w].id)
  /\ logPending' = Append(logPending, logAdd[w].id)
  /\ logPendingBytes' = logPendingBytes + LogBytes[logAdd[w].id]
  /\ logAccepted' = logAccepted \cup {logAdd[w].id}
  /\ logAdd' = [logAdd EXCEPT ![w] = NotAdding]
  /\ UNCHANGED <<logEnabled, logNext, logRecent, logFlushLock, logFlush, logClear,
                 logRead, logPhase, logDb, logRemoved>>

LogDrop(w) ==
  /\ logAdd[w].pc = "recent" /\ QueueRefuses(logAdd[w].id)
  /\ logAdd' = [logAdd EXCEPT ![w] = NotAdding]
  /\ UNCHANGED <<logEnabled, logNext, logQueueVars, logRecent, logFlushLock, logFlush,
                 logClear, logRead, logPhase, logSetVars>>

-----------------------------------------------------------------------------
(* Flushing.  A flusher loops over batches until the queue is empty, a     *)
(* batch fails, its context ends, or (the writer) its batches are used up. *)

SetFlush(f, pc, batch, left) ==
  logFlush' = [logFlush EXCEPT ![f] = [pc |-> pc, batch |-> batch, left |-> left]]

\* Where a flusher goes when its loop is over: the save task and SaveCache
\* clean up when the loop ended well, the writer's last flush ends it, the
\* last flush of the hooks is followed by db.Close.
AfterLoop(f, well) ==
  CASE f = "writer" -> IF logFlush[f].left = Unlimited THEN "gone" ELSE "idle"
    [] f = "task" -> IF well THEN "cleanup" ELSE "idle"
    [] f = "main" -> IF logPhase = "save" /\ well THEN "cleanup" ELSE "next"

FlushRest == <<logEnabled, logNext, logAdd, logRecent, logClear, logRead, logPhase>>

\* The writer wakes on its ticker or on the signal.
LogWriterWake ==
  /\ logFlush["writer"].pc = "idle"
  /\ SetFlush("writer", "loop", <<>>, LogBatches)
  /\ UNCHANGED <<FlushRest, logQueueVars, logFlushLock, logSetVars>>

\* Its context was cancelled: a flush of its own, and the goroutine ends.
LogWriterLast ==
  /\ logPhase \in {"stop", "closed"} /\ logFlush["writer"].pc = "idle"
  /\ SetFlush("writer", "loop", <<>>, Unlimited)
  /\ UNCHANGED <<FlushRest, logQueueVars, logFlushLock, logSetVars>>

\* RelayLogSaveDBTask, every hour (task/init.go): trims the ring when nothing is kept.
LogTaskStart ==
  /\ logFlush["task"].pc = "idle"
  /\ IF logEnabled
       THEN SetFlush("task", "loop", <<>>, Unlimited) /\ UNCHANGED logRecent
       ELSE logRecent' = Trim(logRecent) /\ UNCHANGED logFlush
  /\ UNCHANGED <<logEnabled, logNext, logAdd, logClear, logRead, logPhase, logQueueVars,
                 logFlushLock, logSetVars>>

LogLoopDone(f) ==
  /\ logFlush[f].pc = "loop"
  /\ logPending = <<>> \/ logFlush[f].left = 0
  /\ SetFlush(f, AfterLoop(f, TRUE), <<>>, 0)
  /\ UNCHANGED <<FlushRest, logQueueVars, logFlushLock, logSetVars>>

\* The context is over: cancelled for the writer, timed out for the hooks.
LogLoopCancelled(f) ==
  /\ logFlush[f].pc = "loop" /\ logPhase # "up" /\ f \in {"writer", "main"}
  /\ SetFlush(f, AfterLoop(f, FALSE), <<>>, 0)
  /\ UNCHANGED <<FlushRest, logQueueVars, logFlushLock, logSetVars>>

LogTake(f) ==
  /\ logFlush[f].pc = "loop" /\ logFlush[f].left # 0
  /\ logPending # <<>> /\ logFlushLock = LogFree
  /\ logFlushLock' = f
  /\ SetFlush(f, "insert",
       SubSeq(logPending, 1, IF LogBatch < Len(logPending) THEN LogBatch ELSE Len(logPending)),
       logFlush[f].left)
  /\ UNCHANGED <<FlushRest, logQueueVars, logSetVars>>

LogInsert(f) ==
  /\ logFlush[f].pc = "insert" /\ logPhase # "closed"
  /\ logDb' = logDb \cup Ids(logFlush[f].batch)
  /\ logFlush' = [logFlush EXCEPT ![f].pc = "remove"]
  /\ UNCHANGED <<FlushRest, logQueueVars, logFlushLock, logAccepted, logRemoved>>

LogInsertFails(f) ==
  /\ logFlush[f].pc = "insert"
  /\ logFlushLock' = LogFree
  /\ SetFlush(f, AfterLoop(f, FALSE), <<>>, 0)
  /\ UNCHANGED <<FlushRest, logQueueVars, logSetVars>>

\* Faulty variant: the bytes of the batch stay counted.
FlushedUncounted(batch, queue, bytes) ==
  [queue |-> SelectSeq(queue, LAMBDA id : id \notin Ids(batch)), bytes |-> bytes]

\* The head of the queue is cut off if it still is the batch; else the
\* batch is picked out by ID and the bytes are counted afresh.
Flushed(batch, queue, bytes) ==
  LET n == Len(batch)
      atHead == /\ Len(queue) >= n /\ queue[1] = batch[1] /\ queue[n] = batch[n]
      kept == IF atHead THEN SubSeq(queue, n + 1, Len(queue))
                        ELSE SelectSeq(queue, LAMBDA id : id \notin Ids(batch))
      counted == IF atHead THEN bytes - BytesOf(batch) ELSE BytesOf(kept)
  IN [queue |-> kept, bytes |-> IF kept = <<>> \/ counted < 0 THEN 0 ELSE counted]

LogRemoveBatch(f) ==
  /\ logFlush[f].pc = "remove"
  /\ LET after == Flushed(logFlush[f].batch, logPending, logPendingBytes)
     IN logPending' = after.queue /\ logPendingBytes' = after.bytes
  /\ SetFlush(f, "loop", <<>>,
       IF logFlush[f].left = Unlimited THEN Unlimited ELSE logFlush[f].left - 1)
  /\ logFlushLock' = LogFree
  /\ UNCHANGED <<FlushRest, logSetVars>>

NewestFirst(id, other) ==
  \/ LogTime[id] > LogTime[other]
  \/ LogTime[id] = LogTime[other] /\ id > other

\* Rows in that order: before each are as many as are newer.
NewestRows(rows) ==
  [i \in 1..Cardinality(rows) |->
     CHOOSE id \in rows : Cardinality({other \in rows : NewestFirst(other, id)}) = i - 1]

\* A batch of rows to delete: the oldest ones, as many as fit or fewer.
Oldest(rows) ==
  /\ rows \subseteq logDb /\ Cardinality(rows) <= LogRowBatch
  /\ \A id \in rows, other \in logDb \ rows : NewestFirst(other, id)

\* relayLogCleanup: rows whose request started before the cutoff, in batches.
LogCleanup(f) ==
  /\ logFlush[f].pc = "cleanup" /\ logPhase # "closed"
  /\ \E rows \in SUBSET logDb :
       /\ rows # {} /\ Oldest(rows)
       /\ logDb' = logDb \ rows
       /\ logRemoved' = logRemoved \cup rows
  /\ UNCHANGED <<FlushRest, logQueueVars, logFlushLock, logFlush, logAccepted>>

LogCleanupDone(f) ==
  /\ logFlush[f].pc = "cleanup"
  /\ SetFlush(f, IF f = "main" THEN "next" ELSE "idle", <<>>, 0)
  /\ UNCHANGED <<FlushRest, logQueueVars, logFlushLock, logSetVars>>

LogFlusher(f) ==
  \/ LogLoopDone(f) \/ LogLoopCancelled(f) \/ LogTake(f) \/ LogInsert(f)
  \/ LogInsertFails(f) \/ LogRemoveBatch(f) \/ LogCleanup(f) \/ LogCleanupDone(f)

-----------------------------------------------------------------------------
(* The shutdown hooks: SaveCache, then the writer is stopped and the queue *)
(* flushed, then db.Close.  Handlers are not waited for.                   *)

LogShutdown ==
  /\ logPhase = "up"
  /\ logPhase' = "save"
  \* SaveCache returns before the logs when saving the statistics fails.
  /\ \/ logEnabled /\ SetFlush("main", "loop", <<>>, Unlimited)
     \/ SetFlush("main", "next", <<>>, 0)
  /\ UNCHANGED <<logEnabled, logNext, logAdd, logQueueVars, logRecent, logFlushLock,
                 logClear, logRead, logSetVars>>

LogStopWriter ==
  /\ logPhase = "save" /\ logFlush["main"].pc = "next"
  /\ logPhase' = "stop"
  /\ SetFlush("main", "loop", <<>>, Unlimited)
  /\ UNCHANGED <<logEnabled, logNext, logAdd, logQueueVars, logRecent, logFlushLock,
                 logClear, logRead, logSetVars>>

LogCloseDb ==
  /\ logPhase = "stop" /\ logFlush["main"].pc = "next"
  /\ logPhase' = "closed"
  /\ SetFlush("main", "gone", <<>>, 0)
  /\ UNCHANGED <<logEnabled, logNext, logAdd, logQueueVars, logRecent, logFlushLock,
                 logClear, logRead, logSetVars>>

-----------------------------------------------------------------------------
(* RelayLogClear holds the flush lock throughout.                          *)

\* Faulty variant: does not wait for the flush in progress.
LogClearQueueAtOnce ==
  /\ logClear = "idle"
  /\ logRemoved' = logRemoved \cup Ids(logPending)
  /\ logPending' = <<>> /\ logPendingBytes' = 0
  /\ logClear' = "recent"
  /\ UNCHANGED <<logEnabled, logNext, logAdd, logRecent, logFlushLock, logFlush, logRead,
                 logPhase, logDb, logAccepted>>

LogClearQueue ==
  /\ logClear = "idle" /\ logFlushLock = LogFree
  /\ logFlushLock' = "clear"
  /\ logRemoved' = logRemoved \cup Ids(logPending)
  /\ logPending' = <<>> /\ logPendingBytes' = 0
  /\ logClear' = "recent"
  /\ UNCHANGED <<logEnabled, logNext, logAdd, logRecent, logFlush, logRead, logPhase,
                 logDb, logAccepted>>

LogClearRecent ==
  /\ logClear = "recent"
  /\ logRecent' = <<>>
  /\ logClear' = "rows"
  /\ UNCHANGED <<logEnabled, logNext, logAdd, logQueueVars, logFlushLock, logFlush,
                 logRead, logPhase, logSetVars>>

\* One batch of rows, the last one if it is not full.
LogClearRows ==
  /\ logClear = "rows" /\ logPhase # "closed"
  /\ \E rows \in SUBSET logDb :
       /\ Oldest(rows)
       /\ Cardinality(rows) < LogRowBatch => rows = logDb
       /\ logDb' = logDb \ rows
       /\ logRemoved' = logRemoved \cup rows
       /\ IF Cardinality(rows) < LogRowBatch
            THEN logClear' = "idle" /\ logFlushLock' = LogFree
            ELSE UNCHANGED <<logClear, logFlushLock>>
  /\ UNCHANGED <<logEnabled, logNext, logAdd, logQueueVars, logRecent, logFlush,
                 logRead, logPhase, logAccepted>>

\* The database refuses, or the administrator has gone.
LogClearFails ==
  /\ logClear = "rows"
  /\ logClear' = "idle" /\ logFlushLock' = LogFree
  /\ UNCHANGED <<logEnabled, logNext, logAdd, logQueueVars, logRecent, logFlush,
                 logRead, logPhase, logSetVars>>

-----------------------------------------------------------------------------
(* Reading.                                                                *)

ReadRest == <<logEnabled, logNext, logAdd, logQueueVars, logRecent, logFlushLock,
              logFlush, logClear, logPhase, logSetVars>>

SetRead(r, pc, id, cached, page, live) ==
  logRead' = [logRead EXCEPT ![r] =
    [pc |-> pc, id |-> id, cached |-> cached, page |-> page, live |-> live]]

\* RelayLogGet of a log that was kept: the queue, the ring, the table.
LogGetPending(r, id) ==
  /\ logRead[r].pc = "idle" /\ id \in logAccepted
  /\ id \notin Ids(logPending)   \* else it is found
  /\ SetRead(r, "recent", id, <<>>, <<>>, {})
  /\ UNCHANGED ReadRest

LogGetRecent(r) ==
  /\ logRead[r].pc = "recent"
  /\ IF logRead[r].id \in Ids(logRecent)
       THEN SetRead(r, "idle", 0, <<>>, <<>>, {})
       ELSE SetRead(r, "row", logRead[r].id, <<>>, <<>>, {})
  /\ UNCHANGED ReadRest

LogGetRow(r) ==
  /\ logRead[r].pc = "row" /\ logPhase # "closed"
  /\ IF logRead[r].id \in logDb
       THEN SetRead(r, "idle", 0, <<>>, <<>>, {})
       ELSE SetRead(r, "notfound", logRead[r].id, <<>>, <<>>, {})
  /\ UNCHANGED ReadRest

\* relayLogBeforeCursor, for a cursor that gives both time and ID (0: none).
Before(id, cursor) ==
  \/ cursor = 0
  \/ LogTime[id] < LogTime[cursor]
  \/ LogTime[id] = LogTime[cursor] /\ id < cursor

\* The logs of a list that are to be shown, in its order.
Keeping(logs, shown) ==
  LET kept[i \in 0..Len(logs)] ==
        IF i = 0 THEN <<>>
        ELSE IF logs[i] \in shown THEN Append(kept[i - 1], logs[i]) ELSE kept[i - 1]
  IN kept[Len(logs)]

\* RelayLogListWithFilter in cursor mode: first what the queue holds...
LogListPending(r, cursor) ==
  LET cached == Reverse(logPending)
      before == Keeping(cached, {id \in LogIds : Before(id, cursor)})
  IN /\ logRead[r].pc = "idle" /\ logEnabled
     /\ SetRead(r, IF Len(before) > LogLimit THEN "listed" ELSE "rows", cursor, cached,
          SubSeq(before, 1, IF LogLimit < Len(before) THEN LogLimit + 1 ELSE Len(before)),
          {id \in logAccepted \ logRemoved : Before(id, cursor)})
     /\ UNCHANGED ReadRest

\* ... then as many rows as are missing, without those the queue had.

\* Faulty variant: a log that was flushed since the queue was read is shown twice.
LogListRowsAgain(r) ==
  LET read == logRead[r]
      rows == NewestRows({id \in logDb : Before(id, read.id)})
      wanted == LogLimit + 1 - Len(read.page)
  IN /\ read.pc = "rows" /\ logPhase # "closed"
     /\ SetRead(r, "listed", read.id, read.cached,
          read.page \o SubSeq(rows, 1, IF wanted < Len(rows) THEN wanted ELSE Len(rows)),
          read.live)
     /\ UNCHANGED ReadRest

LogListRows(r) ==
  LET read == logRead[r]
      rows == NewestRows({id \in logDb : Before(id, read.id)})
      wanted == LogLimit + 1 - Len(read.page)
      found == SubSeq(rows, 1, IF wanted < Len(rows) THEN wanted ELSE Len(rows))
      fresh == Keeping(found, LogIds \ Ids(read.cached))
  IN /\ read.pc = "rows" /\ logPhase # "closed"
     /\ SetRead(r, "listed", read.id, read.cached, read.page \o fresh, read.live)
     /\ UNCHANGED ReadRest

\* The answer is sent, or the database refuses.
LogReadDone(r) ==
  /\ logRead[r].pc \in {"row", "rows", "listed", "notfound"}
  /\ SetRead(r, "idle", 0, <<>>, <<>>, {})
  /\ UNCHANGED ReadRest

-----------------------------------------------------------------------------
LogNextStep ==
  \/ LogToggle \/ LogShutdown \/ LogStopWriter \/ LogCloseDb
  \/ LogWriterWake \/ LogWriterLast \/ LogTaskStart
  \/ LogClearQueue \/ LogClearRecent \/ LogClearRows \/ LogClearFails
  \/ \E w \in LogWriters :
       LogGenerate(w) \/ LogAppendRecent(w) \/ LogEnqueue(w) \/ LogDrop(w)
  \/ \E f \in LogFlushers : LogFlusher(f)
  \/ \E r \in LogReaders :
       \/ \E id \in LogIds : LogGetPending(r, id)
       \/ \E cursor \in 0..LogLast : LogListPending(r, cursor)
       \/ LogGetRecent(r) \/ LogGetRow(r) \/ LogListRows(r) \/ LogReadDone(r)

LogSpec == LogInit /\ [][LogNextStep]_logVars

-----------------------------------------------------------------------------
(* Properties.                                                             *)

LogTypeOK ==
  /\ logEnabled \in BOOLEAN
  /\ logNext \in 1..(LogLast + 1)
  /\ logAdd \in [LogWriters ->
       [pc : {"idle", "drawn", "recent"}, id : 0..LogLast, keep : BOOLEAN]]
  /\ logPending \in Seq(LogIds) /\ logPendingBytes \in Nat /\ logRecent \in Seq(LogIds)
  /\ logFlushLock \in LogFlushers \cup {"clear", LogFree}
  /\ logFlush \in [LogFlushers ->
       [pc : {"idle", "loop", "insert", "remove", "cleanup", "next", "gone"},
        batch : Seq(LogIds), left : -1..LogBatches]]
  /\ logClear \in {"idle", "recent", "rows"}
  /\ logRead \in [LogReaders ->
       [pc : {"idle", "recent", "row", "notfound", "rows", "listed"}, id : 0..LogLast,
        cached : Seq(LogIds), page : Seq(LogIds), live : SUBSET LogIds]]
  /\ logPhase \in {"up", "save", "stop", "closed"}
  /\ logDb \subseteq LogIds /\ logAccepted \subseteq LogIds /\ logRemoved \subseteq LogIds

\* Where a log stands, read off the queue and the table alone: one that was
\* accepted and is in neither counts as gone only if it was removed.
Life ==
  [l \in LogIds |->
     CASE l \in logDb \cap logRemoved -> "back"
       [] l \in logDb \ logRemoved -> "stored"
       [] l \in logRemoved \ logDb -> "gone"
       [] l \in Ids(logPending) \ (logDb \cup logRemoved) -> "waiting"
       [] l \in logAccepted \ (Ids(logPending) \cup logDb \cup logRemoved) -> "lost"
       [] OTHER -> "unseen"]

Lives == INSTANCE LogLife WITH Logs <- LogIds, life <- Life

\* A log the queue took (enqueueRelayLogPending) is in the queue or in the
\* table until it is cleared or expires, and one that was removed is never
\* inserted again: no flush that overlaps a failure, a clear, a cleanup or the
\* shutdown hooks loses it or brings it back.
LogImplementsLife == Lives!LifeSpec

\* The estimate that bounds the queue (relayLogPendingBytes) is what the queued
\* logs add up to, within its limit; and a batch in flight still is the head of
\* the queue, so that removing it by position takes no other log.
LogQueueAccounted ==
  /\ logPendingBytes = BytesOf(logPending)
  /\ logPendingBytes <= LogQueueBytes /\ Len(logPending) <= LogQueueSize
  /\ \A f \in LogFlushers :
       logFlush[f].pc \in {"insert", "remove"} => IsPrefix(logFlush[f].batch, logPending)

\* RelayLogGet looks in the queue, the ring and the table one after the other
\* while logs move from the first to the last: a log that had been accepted is
\* reported as not found only if it was removed.
LogGetFinds ==
  \A r \in LogReaders : logRead[r].pc = "notfound" => logRead[r].id \in logRemoved

\* The queue and the table are not read at one moment, either.  A page of a
\* listing shows no log twice; and if none of the logs it saw in the queue had
\* reached the table, a page that says nothing follows (no more than LogLimit
\* logs) holds every log before its cursor that was there and was not removed.
LogPageSound ==
  \A r \in LogReaders : logRead[r].pc = "listed" =>
    LET page == logRead[r].page
    IN /\ IsInjective(page)
       /\ \/ Len(page) > LogLimit
          \/ Ids(logRead[r].cached) \cap (logDb \cup logRemoved) # {}
          \/ logRead[r].live \ logRemoved \subseteq Ids(page)

\* What administrators are shown, by either way of looking.
LogReadsSound == LogGetFinds /\ LogPageSound
=============================================================================
