------------------------- MODULE ChannelConcurrency -------------------------
(***************************************************************************)
(* The lock-free in-flight counter of one channel                          *)
(* (internal/relay/balancer/concurrency.go).                               *)
(*                                                                         *)
(* A sync.Map holds a pointer to the channel's atomic counter while the    *)
(* counter is in use.  TryAcquireChannel and ReleaseChannel first fetch    *)
(* that pointer and then load and compare-and-swap the counter behind it;  *)
(* the release that brings a counter to zero removes it from the map, and  *)
(* a configuration change removes it at any time.  Each access to the map  *)
(* or to a counter is one step here, so a goroutine may work on a counter  *)
(* that has left the map since.                                            *)
(*                                                                         *)
(* Counters are identities, as pointers are.  A counter no goroutine and   *)
(* not the map refers to is garbage and may be handed out again, with      *)
(* value zero.                                                             *)
(***************************************************************************)
EXTENDS Integers, FiniteSets

CONSTANTS
  Goroutines,        \* request handlers that use the channel
  Counters,          \* identities of *atomic.Int64 values
  Missing,           \* the map has no entry for the channel
  Limits,            \* values of channel.MaxConcurrency; 0 admits without a limit
  ConfigChanges      \* whether the channel may be reconfigured meanwhile

ASSUME ConcurrencyAssumption ==
  /\ IsFiniteSet(Goroutines)
  /\ Missing \notin Counters
  /\ Limits \subseteq Nat
  /\ ConfigChanges \in BOOLEAN

VARIABLES
  maxConcurrency,  \* the channel's limit, which every call is given
  mapped,    \* globalConcurrency[channelID]
  value,    \* counter -> its value
  at,
  counter,  \* the pointer a goroutine fetched last
  current   \* the value it loaded last

ccVars == <<maxConcurrency, mapped, value, at, counter, current>>

CcInit ==
  /\ maxConcurrency \in Limits
  /\ mapped = Missing
  /\ value = [c \in Counters |-> 0]
  /\ at = [g \in Goroutines |-> "idle"]
  /\ counter = [g \in Goroutines |-> Missing]
  /\ current = [g \in Goroutines |-> 0]

Goto(g, from, to) == at[g] = from /\ at' = [at EXCEPT ![g] = to]

\* A goroutine that leaves a call forgets its local variables.
Return(g, from) ==
  /\ at[g] = from
  /\ at' = [at EXCEPT ![g] = "idle"]
  /\ counter' = [counter EXCEPT ![g] = Missing]
  /\ current' = [current EXCEPT ![g] = 0]

Garbage == {c \in Counters : c # mapped /\ \A g \in Goroutines : counter[g] # c}

-----------------------------------------------------------------------------
(* TryAcquireChannel *)

\* channelConcurrency: LoadOrStore of a new counter.
FetchCounter(g) ==
  /\ Goto(g, "idle", "load")
  /\ \/ /\ mapped # Missing
        /\ counter' = [counter EXCEPT ![g] = mapped]
        /\ UNCHANGED <<mapped, value>>
     \/ /\ mapped = Missing
        /\ \E c \in Garbage :
             /\ mapped' = c
             /\ value' = [value EXCEPT ![c] = 0]
             /\ counter' = [counter EXCEPT ![g] = c]
  /\ UNCHANGED current

\* Without a limit the counter is still kept, for the load-based balancers.
AddUnlimited(g) ==
  /\ Goto(g, "load", "holding")
  /\ maxConcurrency = 0
  /\ value' = [value EXCEPT ![counter[g]] = @ + 1]
  /\ UNCHANGED <<mapped, counter, current>>

\* Faulty variant: admits one request more than the limit.
LoadOffByOne(g) ==
  /\ Goto(g, "load", "swap")
  /\ maxConcurrency > 0
  /\ value[counter[g]] <= maxConcurrency
  /\ current' = [current EXCEPT ![g] = value[counter[g]]]
  /\ UNCHANGED <<mapped, value, counter>>

Load(g) ==
  /\ Goto(g, "load", "swap")
  /\ maxConcurrency > 0
  /\ value[counter[g]] < maxConcurrency
  /\ current' = [current EXCEPT ![g] = value[counter[g]]]
  /\ UNCHANGED <<mapped, value, counter>>

Refuse(g) ==
  /\ Return(g, "load")
  /\ maxConcurrency > 0
  /\ value[counter[g]] >= maxConcurrency
  /\ UNCHANGED <<mapped, value>>

Swap(g) ==
  /\ at[g] = "swap"
  /\ IF value[counter[g]] = current[g]
     THEN /\ Goto(g, "swap", "holding")
          /\ value' = [value EXCEPT ![counter[g]] = current[g] + 1]
     ELSE /\ Goto(g, "swap", "load")
          /\ UNCHANGED value
  /\ current' = [current EXCEPT ![g] = 0]
  /\ UNCHANGED <<mapped, counter>>

-----------------------------------------------------------------------------
(* ReleaseChannel *)

\* The pointer is fetched again: it need not be the one the slot was taken from.
FetchForRelease(g) ==
  /\ mapped # Missing
  /\ Goto(g, "holding", "loadRelease")
  /\ counter' = [counter EXCEPT ![g] = mapped]
  /\ UNCHANGED <<mapped, value, current>>

\* Faulty variant: the last slot is never given back.
KeepLastSlot(g) ==
  /\ at[g] \in {"holding", "loadRelease"}
  /\ IF at[g] = "holding" THEN mapped = Missing ELSE value[counter[g]] <= 1
  /\ Return(g, at[g])
  /\ UNCHANGED <<mapped, value>>

NothingToRelease(g) ==
  /\ at[g] \in {"holding", "loadRelease"}
  /\ IF at[g] = "holding" THEN mapped = Missing ELSE value[counter[g]] <= 0
  /\ Return(g, at[g])
  /\ UNCHANGED <<mapped, value>>

LoadRelease(g) ==
  /\ Goto(g, "loadRelease", "swapRelease")
  /\ value[counter[g]] > 0
  /\ current' = [current EXCEPT ![g] = value[counter[g]]]
  /\ UNCHANGED <<mapped, value, counter>>

SwapRelease(g) ==
  /\ at[g] = "swapRelease"
  /\ \/ /\ value[counter[g]] # current[g]
        /\ Goto(g, "swapRelease", "loadRelease")
        /\ current' = [current EXCEPT ![g] = 0]
        /\ UNCHANGED <<value, counter>>
     \/ /\ value[counter[g]] = current[g]
        /\ value' = [value EXCEPT ![counter[g]] = current[g] - 1]
        /\ IF current[g] = 1
           THEN Goto(g, "swapRelease", "remove") /\ UNCHANGED <<counter, current>>
           ELSE Return(g, "swapRelease")
  /\ UNCHANGED mapped

\* CompareAndDelete: only the counter just emptied is removed, but it may have
\* been taken up again since.
RemoveCounter(g) ==
  /\ Return(g, "remove")
  /\ mapped' = IF mapped = counter[g] THEN Missing ELSE mapped
  /\ UNCHANGED value

-----------------------------------------------------------------------------

\* resetConcurrencyByChannel, from ResetStateByChannel on a configuration change.
ResetConcurrency ==
  /\ ConfigChanges
  /\ mapped' = Missing
  /\ UNCHANGED <<value, at, counter, current>>

TryAcquireChannel(g) ==
  FetchCounter(g) \/ AddUnlimited(g) \/ Load(g) \/ Refuse(g) \/ Swap(g)

ReleaseChannel(g) ==
  \/ FetchForRelease(g) \/ NothingToRelease(g)
  \/ LoadRelease(g) \/ SwapRelease(g) \/ RemoveCounter(g)

CcNext ==
  /\ \/ \E g \in Goroutines : TryAcquireChannel(g) \/ ReleaseChannel(g)
     \/ ResetConcurrency
  /\ UNCHANGED maxConcurrency

CcSpec == CcInit /\ [][CcNext]_ccVars

-----------------------------------------------------------------------------

CurrentChannelConcurrency == IF mapped = Missing THEN 0 ELSE value[mapped]

\* Goroutines that hold a slot they have not given back.
Holding == {g \in Goroutines : at[g] \in {"holding", "loadRelease", "swapRelease"}}

InCall == {"load", "swap", "loadRelease", "swapRelease", "remove", "holding"}

\* Type correctness; a goroutine inside a call has a counter.
CcTypeOK ==
  /\ maxConcurrency \in Limits
  /\ mapped \in Counters \cup {Missing}
  /\ value \in [Counters -> Nat]
  /\ at \in [Goroutines -> InCall \cup {"idle"}]
  /\ counter \in [Goroutines -> Counters \cup {Missing}]
  /\ \A g \in Goroutines : at[g] \in InCall => counter[g] \in Counters
  /\ current \in [Goroutines -> Nat]

\* No counter passes the limit or falls below zero, however loads and swaps of several goroutines
\* interleave.  (The number of requests may: see NeverOverMax.)
CounterWithinLimit ==
  \A c \in Counters :
    /\ value[c] >= 0
    /\ maxConcurrency > 0 => value[c] <= maxConcurrency

\* The load the balancers see and admission is decided on is never more than the
\* requests that hold a slot: no interleaving of releases, removals, new counters
\* and configuration changes leaves a slot taken that nobody will give back.
LoadNotOverstated == CurrentChannelConcurrency <= Cardinality(Holding)

\* What the comment of TryAcquireChannel (concurrency.go:15) promises: slots are
\* reserved "without exceeding maxConcurrency".
NeverOverMax == maxConcurrency > 0 => Cardinality(Holding) <= maxConcurrency

=============================================================================
