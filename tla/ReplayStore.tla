---------------------------- MODULE ReplayStore ----------------------------
(***************************************************************************)
(* The store of conversations that HTTP requests replay, in                *)
(* internal/relay/responses_replay_store.go: a lock-free map, and two      *)
(* counters that are brought up to date after it, by every request that    *)
(* stores or loads and by the sweeper.  Each step here is one operation of *)
(* sync.Map or of an atomic counter.                                       *)
(*                                                                         *)
(* Any entry may be found expired at any time.  A load that finds a living *)
(* entry changes nothing and is left out, as are the entries without a     *)
(* state, which nobody stores.                                             *)
(***************************************************************************)
EXTENDS Integers, FiniteSets, Functions

CONSTANTS
  RsActors,      \* requests, and the sweeper
  RsKeys,        \* (API key, group, model, response) of a conversation
  RsSizes,       \* estimateStateSize
  RsMaxEntries,  \* responsesReplayStoreMaxEntries
  RsMaxSize,     \* responsesReplayStoreMaxSize
  RsLast         \* bound: entries made

ASSUME RsAssumption ==
  /\ IsFiniteSet(RsActors) /\ IsFiniteSet(RsKeys)
  /\ RsSizes \subseteq Nat /\ RsMaxEntries \in Nat /\ RsMaxSize \in Nat /\ RsLast \in Nat

\* An entry is compared by address: by the number it was made as.
RsNone == [id |-> 0, size |-> 0]
RsEntries == [id : 1..RsLast, size : RsSizes] \cup {RsNone}
RsIdle == "idle"

VARIABLES
  rsMap,     \* responsesReplayStore: key -> entry
  rsCount,   \* responsesReplayStoreStats.entries
  rsSize,    \* responsesReplayStoreStats.totalSize
  rsNext,    \* entries made so far, and one
  rsOp,      \* actor -> where it stands, and its key, entry and what that replaced
  rsShared   \* history: an operation began while its key was in other hands

rsVars == <<rsMap, rsCount, rsSize, rsNext, rsOp, rsShared>>

RsNoOp == [pc |-> RsIdle, key |-> RsIdle, new |-> RsNone, old |-> RsNone, seen |-> 0]

RsInit ==
  /\ rsMap = [k \in RsKeys |-> RsNone]
  /\ rsCount = 0 /\ rsSize = 0 /\ rsNext = 1
  /\ rsOp = [a \in RsActors |-> RsNoOp]
  /\ rsShared = FALSE

RsGoto(a, pc) == rsOp' = [rsOp EXCEPT ![a].pc = pc]
RsEnd(a) == rsOp' = [rsOp EXCEPT ![a] = RsNoOp]

\* The history of sharing, kept by the two steps that begin an operation.
RsSharing(a, k) ==
  rsShared' = (rsShared \/ \E b \in RsActors \ {a} : rsOp[b].pc # RsIdle /\ rsOp[b].key = k)

-----------------------------------------------------------------------------
(* storeResponsesReplayState: the entry is put in the map first.           *)

RsSwap(a, k, size) ==
  /\ rsOp[a].pc = RsIdle /\ rsNext <= RsLast
  /\ LET new == [id |-> rsNext, size |-> size]
     IN /\ rsMap' = [rsMap EXCEPT ![k] = new]
        /\ rsOp' = [rsOp EXCEPT ![a] =
             [pc |-> IF rsMap[k] = RsNone THEN "added" ELSE "replaced",
              key |-> k, new |-> new, old |-> rsMap[k], seen |-> 0]]
  /\ rsNext' = rsNext + 1
  /\ RsSharing(a, k)
  /\ UNCHANGED <<rsCount, rsSize>>

\* A key that was there: the difference in size is counted; an entry that grew
\* over the limit is taken back.
RsAddGrowth(a) ==
  /\ rsOp[a].pc = "replaced"
  /\ rsSize' = rsSize + rsOp[a].new.size - rsOp[a].old.size
  /\ IF rsOp[a].new.size > rsOp[a].old.size THEN RsGoto(a, "grown") ELSE RsEnd(a)
  /\ UNCHANGED <<rsMap, rsCount, rsNext, rsShared>>

RsCheckGrowth(a) ==
  /\ rsOp[a].pc = "grown"
  /\ IF rsSize > RsMaxSize THEN RsGoto(a, "restore") ELSE RsEnd(a)
  /\ UNCHANGED <<rsMap, rsCount, rsSize, rsNext, rsShared>>

RsRestore(a) ==
  /\ rsOp[a].pc = "restore"
  /\ IF rsMap[rsOp[a].key] = rsOp[a].new
       THEN /\ rsMap' = [rsMap EXCEPT ![rsOp[a].key] = rsOp[a].old]
            /\ RsGoto(a, "restored")
       ELSE RsEnd(a) /\ UNCHANGED rsMap
  /\ UNCHANGED <<rsCount, rsSize, rsNext, rsShared>>

RsSubGrowth(a) ==
  /\ rsOp[a].pc = "restored"
  /\ rsSize' = rsSize + rsOp[a].old.size - rsOp[a].new.size
  /\ RsEnd(a)
  /\ UNCHANGED <<rsMap, rsCount, rsNext, rsShared>>

\* A new key: both counters go up, and beyond a limit the entry is dropped.
RsAddEntry(a) ==
  /\ rsOp[a].pc = "added"
  /\ rsCount' = rsCount + 1
  /\ rsOp' = [rsOp EXCEPT ![a].pc = "counted", ![a].seen = rsCount + 1]
  /\ UNCHANGED <<rsMap, rsSize, rsNext, rsShared>>

RsAddSize(a) ==
  /\ rsOp[a].pc = "counted"
  /\ rsSize' = rsSize + rsOp[a].new.size
  /\ RsGoto(a, "sized")
  /\ UNCHANGED <<rsMap, rsCount, rsNext, rsShared>>

RsCheck(a) ==
  /\ rsOp[a].pc = "sized"
  /\ IF rsOp[a].seen > RsMaxEntries \/ rsSize > RsMaxSize
       THEN RsGoto(a, "drop") ELSE RsEnd(a)
  /\ UNCHANGED <<rsMap, rsCount, rsSize, rsNext, rsShared>>

-----------------------------------------------------------------------------
(* A load, or the sweep, reads an entry that has expired ...               *)

RsFindExpired(a, k) ==
  /\ rsOp[a].pc = RsIdle /\ rsMap[k] # RsNone
  /\ rsOp' = [rsOp EXCEPT ![a] = [RsNoOp EXCEPT !.pc = "drop", !.key = k, !.new = rsMap[k]]]
  /\ RsSharing(a, k)
  /\ UNCHANGED <<rsMap, rsCount, rsSize, rsNext>>

\* Faulty variant: deletes whatever is there by now.
RsDropBlindly(a) ==
  /\ rsOp[a].pc = "drop"
  /\ rsMap' = [rsMap EXCEPT ![rsOp[a].key] = RsNone]
  /\ RsGoto(a, "dropped")
  /\ UNCHANGED <<rsCount, rsSize, rsNext, rsShared>>

\* ... and deletes it, as does a store beyond the limits, if it still is there.
RsDrop(a) ==
  /\ rsOp[a].pc = "drop"
  /\ IF rsMap[rsOp[a].key] = rsOp[a].new
       THEN rsMap' = [rsMap EXCEPT ![rsOp[a].key] = RsNone] /\ RsGoto(a, "dropped")
       ELSE RsEnd(a) /\ UNCHANGED rsMap
  /\ UNCHANGED <<rsCount, rsSize, rsNext, rsShared>>

RsSubEntry(a) ==
  /\ rsOp[a].pc = "dropped"
  /\ rsCount' = rsCount - 1
  /\ RsGoto(a, "uncounted")
  /\ UNCHANGED <<rsMap, rsSize, rsNext, rsShared>>

RsSubSize(a) ==
  /\ rsOp[a].pc = "uncounted"
  /\ rsSize' = rsSize - rsOp[a].new.size
  /\ RsEnd(a)
  /\ UNCHANGED <<rsMap, rsCount, rsNext, rsShared>>

-----------------------------------------------------------------------------
RsNextStep ==
  \E a \in RsActors :
    \/ \E k \in RsKeys : RsFindExpired(a, k) \/ \E size \in RsSizes : RsSwap(a, k, size)
    \/ RsAddGrowth(a) \/ RsCheckGrowth(a) \/ RsRestore(a) \/ RsSubGrowth(a)
    \/ RsAddEntry(a) \/ RsAddSize(a) \/ RsCheck(a)
    \/ RsDrop(a) \/ RsSubEntry(a) \/ RsSubSize(a)

RsSpec == RsInit /\ [][RsNextStep]_rsVars

-----------------------------------------------------------------------------
(* Properties.                                                             *)

RsTypeOK ==
  /\ rsMap \in [RsKeys -> RsEntries] /\ rsCount \in Int /\ rsSize \in Int
  /\ rsNext \in 1..(RsLast + 1) /\ rsShared \in BOOLEAN
  /\ rsOp \in [RsActors ->
       [pc : {RsIdle, "replaced", "grown", "restore", "restored", "added", "counted",
              "sized", "drop", "dropped", "uncounted"},
        key : RsKeys \cup {RsIdle}, new : RsEntries, old : RsEntries, seen : Int]]

\* What the counters do not yet say of an actor's last change of the map.
RsUncounted(op) ==
  CASE op.pc = "added" -> 1 [] op.pc = "dropped" -> -1 [] OTHER -> 0
RsUnsized(op) ==
  CASE op.pc \in {"added", "counted"} -> op.new.size
    [] op.pc = "replaced" -> op.new.size - op.old.size
    [] op.pc = "restored" -> op.old.size - op.new.size
    [] op.pc \in {"dropped", "uncounted"} -> -op.new.size
    [] OTHER -> 0

\* The counters of entries and bytes are those of the map but for the changes
\* their actors are about to count: no store, rollback, load or sweep counts an
\* entry twice or forgets one that another replaced or deleted between its steps.
RsAccounted ==
  /\ SumFunction([k \in RsKeys |-> IF rsMap[k] = RsNone THEN 0 ELSE 1])
       = rsCount + SumFunction([a \in RsActors |-> RsUncounted(rsOp[a])])
  /\ SumFunction([k \in RsKeys |-> rsMap[k].size])
       = rsSize + SumFunction([a \in RsActors |-> RsUnsized(rsOp[a])])

\* When no operation is under way the store is within both limits
\* (responsesReplayStoreMaxEntries, ...MaxSize), however many stores went past
\* them at once, as long as no two operations had one key at once.  Where they
\* did, the rollback of an entry that another store has replaced is given up,
\* and that store does not check; and an entry that has expired and is dropped
\* before it is counted makes room that is not there.
RsBounded ==
  ~rsShared /\ (\A a \in RsActors : rsOp[a].pc = RsIdle) =>
    rsCount <= RsMaxEntries /\ rsSize <= RsMaxSize

\* The limits hold, and the counters they are checked against are true.
RsSound == RsAccounted /\ RsBounded
=============================================================================
