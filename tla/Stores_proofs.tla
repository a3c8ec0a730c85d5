--------------------------- MODULE Stores_proofs ---------------------------
(***************************************************************************)
(* The leaderboard's ledger, the statistics, the relay log, the replay     *)
(* store and conversations, for any number of requests, savers, readers    *)
(* and restarts.                                                           *)
(*                                                                         *)
(* The leaderboard shows every request once: memory, the flush in          *)
(* progress, the live rows and the backfilled rows have no request in      *)
(* common, the last two because the cutoff parts them, and the barrier     *)
(* freezes them for a query.                                               *)
(*                                                                         *)
(* Where no save overlaps another, no counter is lost to the table: what a *)
(* save has read or written is the counter in memory, or the counter is    *)
(* marked for the next save.                                               *)
(*                                                                         *)
(* The relay log implements LogLife, for any number of handlers and        *)
(* readers, any IDs, sizes and limits: the queue, the batch in flight and  *)
(* the table together hold every accepted log that was not removed.  The   *)
(* byte counter of its queue is what the queue holds, and neither a lookup *)
(* nor a listing, which read the queue and the table at two moments, is    *)
(* misled by logs that move meanwhile.                                     *)
(*                                                                         *)
(* The counters of the replay store are what its map holds, but for the    *)
(* operations under way.  The sums in both are added up over finite sets:  *)
(* any element may be taken out of such a sum first.                       *)
(*                                                                         *)
(* Conversations in the Responses protocol, for any number of models,      *)
(* channels, requests and attempts.                                        *)
(*                                                                         *)
(* A client reads one answer: while a round runs nothing was written       *)
(* through its writer, in its first run nothing at all, and before its     *)
(* second no more than the passthrough wrote.                              *)
(*                                                                         *)
(* What is replayed is the conversation that the request continues, or     *)
(* what was recorded of it. A kept state records the conversation up to a  *)
(* response, and on a socket, where clients do not fork, that is the       *)
(* latest response of its model, hence the one the request continues; the  *)
(* items of a conversation are earlier requests and answers, so the        *)
(* request is new to it.                                                   *)
(***************************************************************************)
EXTENDS StatsLedger, StatsFlush, RelayLog, ReplayStore, Continuation, FiniteSetTheorems,
        WellFoundedInduction, TLAPS

(* ---- sums over finite sets ---- *)

\* Induction: a set that has zero, and with each number the next, has all.
LEMMA Upward ==
  ASSUME NEW G, 0 \in G, \A n \in Nat : n \in G => n + 1 \in G
  PROVE  \A n \in Nat : n \in G
<1> DEFINE Missing == Nat \ G
<1> SUFFICES ASSUME Missing # {} PROVE FALSE
  OBVIOUS
<1>1. PICK n \in Missing : \A m \in Missing : ~(<<m, n>> \in OpToRel(<, Nat))
  BY NatLessThanWellFounded, WFMin
<1>2. n \in Nat \ {0}
  BY <1>1
<1>3. n - 1 \in Nat /\ n - 1 < n
  BY <1>2
<1>4. <<n - 1, n>> \in OpToRel(<, Nat)
  BY <1>2, <1>3 DEF OpToRel
<1>5. n - 1 \in G
  BY <1>1, <1>3, <1>4
<1> QED  BY <1>2, <1>3, <1>5

\* The sum of a function over a finite set of its arguments, added up from any element
\* (SumFunctionOnSet chooses one at a time).
Pick(s) == CHOOSE x \in s : TRUE
Total(f, S) == SumFunctionOnSet(f, S)
Adds(it, f, S) ==
  it = [s \in SUBSET S |-> IF s = {} THEN 0 ELSE f[Pick(s)] + it[s \ {Pick(s)}]]

\* The library's definition, in these words.
LEMMA TotalAdds == ASSUME NEW f, NEW S PROVE Total(f, S) = (CHOOSE it : Adds(it, f, S))[S]
  BY DEF Total, SumFunctionOnSet, FoldFunctionOnSet, MapThenFoldSet, Adds, Pick

\* Without the element picked a finite set has one less.
LEMMA PickLess ==
  ASSUME NEW s, IsFiniteSet(s), s # {}
  PROVE  /\ Pick(s) \in s /\ IsFiniteSet(s \ {Pick(s)})
         /\ Cardinality(s) \in Nat \ {0}
         /\ Cardinality(s \ {Pick(s)}) = Cardinality(s) - 1
<1>1. Pick(s) \in s
  BY DEF Pick
<1> QED  BY <1>1, FS_RemoveElement, FS_CardinalityType, FS_EmptySet

\* There is a function that adds up every part of a finite set: it is extended from the
\* parts of at most n elements to those of n + 1.
LEMMA AddsExists ==
  ASSUME NEW f, NEW S, IsFiniteSet(S)
  PROVE  \E it : Adds(it, f, S)
<1> DEFINE Upto(n) == {s \in SUBSET S : Cardinality(s) <= n}
           Val(it, s) == IF s = {} THEN 0 ELSE f[Pick(s)] + it[s \ {Pick(s)}]
           AddsTo(it, n) == it = [s \in Upto(n) |-> Val(it, s)]
           G == {n \in Nat : \E it : AddsTo(it, n)}
<1>0. \A s \in SUBSET S : IsFiniteSet(s) /\ Cardinality(s) \in Nat
  BY FS_Subset, FS_CardinalityType
<1>1. 0 \in G
  <2> DEFINE it == [s \in Upto(0) |-> 0]
  <2>1. \A s \in Upto(0) : s = {}
    BY <1>0, FS_EmptySet
  <2>2. AddsTo(it, 0)
    BY <2>1
  <2> QED  BY <2>2
<1>2. ASSUME NEW n \in Nat, n \in G PROVE n + 1 \in G
  <2>1. PICK it : AddsTo(it, n)
    BY <1>2
  <2> DEFINE ju == [s \in Upto(n + 1) |-> Val(it, s)]
  <2>2. \A t \in Upto(n) : ju[t] = it[t]
    <3>1. Upto(n) \subseteq Upto(n + 1)
      BY <1>0
    <3> QED  BY <2>1, <3>1
  <2>3. \A s \in Upto(n + 1) : s # {} => s \ {Pick(s)} \in Upto(n)
    BY <1>0, PickLess
  <2>4. \A s \in Upto(n + 1) : Val(it, s) = Val(ju, s)
    BY <2>2, <2>3
  <2>5. AddsTo(ju, n + 1)
    BY <2>4
  <2> HIDE DEF AddsTo, ju
  <2> QED  BY <2>5
<1>3. Cardinality(S) \in G
  <2> HIDE DEF G
  <2> QED  BY <1>0, <1>1, <1>2, Upward
<1>4. Upto(Cardinality(S)) = SUBSET S
  BY <1>0, FS_Subset
<1> QED  BY <1>3, <1>4 DEF Adds

\* A sum is the sum of its parts, from whichever element one begins.
LEMMA TotalUnfolds ==
  ASSUME NEW f, NEW S, IsFiniteSet(S)
  PROVE  Total(f, S) = IF S = {} THEN 0 ELSE f[Pick(S)] + Total(f, S \ {Pick(S)})
<1> DEFINE it == CHOOSE it : Adds(it, f, S)
<1>1. Adds(it, f, S)
  BY AddsExists
<1>2. CASE S = {}
  BY <1>1, <1>2, TotalAdds DEF Adds
<1>3. CASE S # {}
  <2> DEFINE T == S \ {Pick(S)}
             ju == CHOOSE ju : Adds(ju, f, T)
             G == {n \in Nat : \A s \in SUBSET T : Cardinality(s) = n => it[s] = ju[s]}
  <2>1. IsFiniteSet(T)
    BY <1>3, PickLess
  <2>2. Adds(ju, f, T)
    BY <2>1, AddsExists
  <2>3. \A s \in SUBSET T : IsFiniteSet(s) /\ Cardinality(s) \in Nat /\ s \in SUBSET S
    BY <2>1, FS_Subset, FS_CardinalityType
  <2> HIDE DEF it, ju, T
  <2>4. \A s \in SUBSET T :
          /\ it[s] = IF s = {} THEN 0 ELSE f[Pick(s)] + it[s \ {Pick(s)}]
          /\ ju[s] = IF s = {} THEN 0 ELSE f[Pick(s)] + ju[s \ {Pick(s)}]
    BY <1>1, <2>2, <2>3 DEF Adds
  <2>5. 0 \in G
    BY <2>3, <2>4, FS_EmptySet
  <2>6. ASSUME NEW n \in Nat, n \in G PROVE n + 1 \in G
    <3> SUFFICES ASSUME NEW s \in SUBSET T, Cardinality(s) = n + 1 PROVE it[s] = ju[s]
      OBVIOUS
    <3>1. s # {}
      BY FS_EmptySet
    <3>2. s \ {Pick(s)} \in SUBSET T /\ Cardinality(s \ {Pick(s)}) = n
      BY <2>3, <3>1, PickLess
    <3> QED  BY <2>4, <2>6, <3>1, <3>2
  <2>7. \A n \in Nat : n \in G
    <3> HIDE DEF G
    <3> QED  BY <2>5, <2>6, Upward
  <2>8. it[T] = ju[T]
    BY <2>3, <2>7
  <2>9. Total(f, S) = it[S] /\ Total(f, T) = ju[T]
    BY TotalAdds DEF it, ju
  <2>10. it[S] = f[Pick(S)] + it[T]
    BY <1>1, <1>3 DEF Adds, T
  <2> QED  BY <1>3, <2>8, <2>9, <2>10 DEF T
<1> QED  BY <1>2, <1>3

\* What is used of the parts of a finite set.
LEMMA PartsOf ==
  ASSUME NEW S, IsFiniteSet(S), NEW s \in SUBSET S
  PROVE  IsFiniteSet(s) /\ Cardinality(s) \in Nat /\ (Cardinality(s) = 0 <=> s = {})
  BY FS_Subset, FS_CardinalityType, FS_EmptySet

\* The sum of nothing is zero.
LEMMA TotalEmpty == ASSUME NEW f PROVE Total(f, {}) = 0
  BY FS_EmptySet, TotalUnfolds

\* A sum of integers is an integer ...
LEMMA TotalIsInt ==
  ASSUME NEW f, NEW S, IsFiniteSet(S), \A y \in S : f[y] \in Int
  PROVE  Total(f, S) \in Int
<1> DEFINE G == {n \in Nat : \A s \in SUBSET S : Cardinality(s) = n => Total(f, s) \in Int}
<1>1. 0 \in G
  BY PartsOf, TotalEmpty
<1>2. ASSUME NEW n \in Nat, n \in G PROVE n + 1 \in G
  <2> SUFFICES ASSUME NEW s \in SUBSET S, Cardinality(s) = n + 1 PROVE Total(f, s) \in Int
    OBVIOUS
  <2>1. /\ s # {} /\ IsFiniteSet(s) /\ Pick(s) \in S
        /\ s \ {Pick(s)} \in SUBSET S /\ Cardinality(s \ {Pick(s)}) = n
    BY PartsOf, PickLess
  <2>2. Total(f, s) = f[Pick(s)] + Total(f, s \ {Pick(s)})
    BY <2>1, TotalUnfolds
  <2> QED  BY <1>2, <2>1, <2>2
<1>3. \A n \in Nat : n \in G
  <2> HIDE DEF G
  <2> QED  BY <1>1, <1>2, Upward
<1> QED  BY <1>3, PartsOf

\* ... and any element may be taken out of it.
LEMMA TotalTakesOut ==
  ASSUME NEW f, NEW S, IsFiniteSet(S), \A y \in S : f[y] \in Int
  PROVE  \A x \in S : Total(f, S) = f[x] + Total(f, S \ {x})
<1> DEFINE Good(s) == \A x \in s : Total(f, s) = f[x] + Total(f, s \ {x})
           G == {n \in Nat : \A s \in SUBSET S : Cardinality(s) = n => Good(s)}
<1>1. 0 \in G
  BY PartsOf, TotalEmpty
<1>2. ASSUME NEW n \in Nat, n \in G PROVE n + 1 \in G
  <2> SUFFICES ASSUME NEW s \in SUBSET S, Cardinality(s) = n + 1 PROVE Good(s)
    OBVIOUS
  <2> DEFINE p == Pick(s)
             t == s \ {p}
  <2>1. IsFiniteSet(s) /\ s # {} /\ p \in s /\ t \in SUBSET S /\ Cardinality(t) = n
    BY PartsOf, PickLess
  <2>2. Good(t)
    BY <1>2, <2>1
  <2>3. Total(f, s) = f[p] + Total(f, t)
    BY <2>1, TotalUnfolds
  <2> HIDE DEF p
  <2>4. ASSUME NEW x \in s, x # p PROVE Total(f, s) = f[x] + Total(f, s \ {x})
    <3> DEFINE u == s \ {x}
    <3>1. u \in SUBSET S /\ Cardinality(u) = n /\ p \in u
      BY <2>1, <2>4, FS_RemoveElement
    <3>2. Good(u)
      BY <1>2, <3>1
    <3>3. Total(f, u) = f[p] + Total(f, u \ {p})
      BY <3>1, <3>2
    <3>4. Total(f, t) = f[x] + Total(f, t \ {x})
      BY <2>1, <2>2, <2>4
    <3>5. t \ {x} = u \ {p} /\ t \ {x} \in SUBSET S
      BY <2>1
    <3>6. Total(f, u \ {p}) \in Int /\ f[p] \in Int /\ f[x] \in Int
      BY <2>1, TotalIsInt, FS_Subset
    <3>7. Total(f, s) = f[x] + Total(f, u)
      <4>1. Total(f, t \ {x}) = Total(f, u \ {p})
        BY <3>5
      <4> HIDE DEF t, u
      <4> QED  BY <2>3, <3>3, <3>4, <3>6, <4>1
    <3> QED  BY <3>7
  <2> QED  BY <2>1, <2>2, <2>3, <2>4 DEF t
<1>3. \A n \in Nat : n \in G
  <2> HIDE DEF G
  <2> QED  BY <1>1, <1>2, Upward
<1> QED  BY <1>3, PartsOf

\* Sums of the same numbers are the same.
LEMMA TotalSame ==
  ASSUME NEW f, NEW g, NEW S, IsFiniteSet(S), \A y \in S : f[y] = g[y]
  PROVE  Total(f, S) = Total(g, S)
<1> DEFINE G == {n \in Nat : \A s \in SUBSET S : Cardinality(s) = n => Total(f, s) = Total(g, s)}
<1>1. 0 \in G
  BY PartsOf, TotalEmpty
<1>2. ASSUME NEW n \in Nat, n \in G PROVE n + 1 \in G
  <2> SUFFICES ASSUME NEW s \in SUBSET S, Cardinality(s) = n + 1 PROVE Total(f, s) = Total(g, s)
    OBVIOUS
  <2>1. /\ s # {} /\ IsFiniteSet(s) /\ Pick(s) \in S
        /\ s \ {Pick(s)} \in SUBSET S /\ Cardinality(s \ {Pick(s)}) = n
    BY PartsOf, PickLess
  <2>2. /\ Total(f, s) = f[Pick(s)] + Total(f, s \ {Pick(s)})
        /\ Total(g, s) = g[Pick(s)] + Total(g, s \ {Pick(s)})
    BY <2>1, TotalUnfolds
  <2> QED  BY <1>2, <2>1, <2>2
<1>3. \A n \in Nat : n \in G
  <2> HIDE DEF G
  <2> QED  BY <1>1, <1>2, Upward
<1> QED  BY <1>3, PartsOf

\* A sum of naturals is a natural.
LEMMA TotalNatural ==
  ASSUME NEW f, NEW S, IsFiniteSet(S), \A y \in S : f[y] \in Nat
  PROVE  Total(f, S) \in Nat
<1> DEFINE G == {n \in Nat : \A s \in SUBSET S : Cardinality(s) = n => Total(f, s) \in Nat}
<1>1. 0 \in G
  BY PartsOf, TotalEmpty
<1>2. ASSUME NEW n \in Nat, n \in G PROVE n + 1 \in G
  <2> SUFFICES ASSUME NEW s \in SUBSET S, Cardinality(s) = n + 1 PROVE Total(f, s) \in Nat
    OBVIOUS
  <2>1. /\ s # {} /\ IsFiniteSet(s) /\ Pick(s) \in S
        /\ s \ {Pick(s)} \in SUBSET S /\ Cardinality(s \ {Pick(s)}) = n
    BY PartsOf, PickLess
  <2>2. Total(f, s) = f[Pick(s)] + Total(f, s \ {Pick(s)})
    BY <2>1, TotalUnfolds
  <2> QED  BY <1>2, <2>1, <2>2
<1>3. \A n \in Nat : n \in G
  <2> HIDE DEF G
  <2> QED  BY <1>1, <1>2, Upward
<1> QED  BY <1>3, PartsOf

\* A sum of zeros is zero.
LEMMA TotalZero ==
  ASSUME NEW f, NEW S, IsFiniteSet(S), \A y \in S : f[y] = 0
  PROVE  Total(f, S) = 0
<1> DEFINE G == {n \in Nat : \A s \in SUBSET S : Cardinality(s) = n => Total(f, s) = 0}
<1>1. 0 \in G
  BY PartsOf, TotalEmpty
<1>2. ASSUME NEW n \in Nat, n \in G PROVE n + 1 \in G
  <2> SUFFICES ASSUME NEW s \in SUBSET S, Cardinality(s) = n + 1 PROVE Total(f, s) = 0
    OBVIOUS
  <2>1. /\ s # {} /\ IsFiniteSet(s) /\ Pick(s) \in S
        /\ s \ {Pick(s)} \in SUBSET S /\ Cardinality(s \ {Pick(s)}) = n
    BY PartsOf, PickLess
  <2>2. Total(f, s) = f[Pick(s)] + Total(f, s \ {Pick(s)})
    BY <2>1, TotalUnfolds
  <2> QED  BY <1>2, <2>1, <2>2
<1>3. \A n \in Nat : n \in G
  <2> HIDE DEF G
  <2> QED  BY <1>1, <1>2, Upward
<1> QED  BY <1>3, PartsOf

\* Where one number changes, the sum changes by as much.
LEMMA TotalChanges ==
  ASSUME NEW S, IsFiniteSet(S), NEW f, NEW g, NEW x \in S,
         \A y \in S : f[y] \in Int /\ g[y] \in Int, \A y \in S \ {x} : g[y] = f[y]
  PROVE  /\ Total(f, S) \in Int /\ Total(g, S) \in Int
         /\ Total(g, S) = Total(f, S) - f[x] + g[x]
<1>1. IsFiniteSet(S \ {x})
  BY FS_RemoveElement
<1>2. Total(f, S \ {x}) = Total(g, S \ {x}) /\ Total(f, S \ {x}) \in Int
  BY <1>1, TotalSame, TotalIsInt
<1>3. Total(f, S) = f[x] + Total(f, S \ {x}) /\ Total(g, S) = g[x] + Total(g, S \ {x})
  BY TotalTakesOut
<1> QED  BY <1>2, <1>3

\* The sum of a function is that over its domain.
LEMMA SumIsTotal == ASSUME NEW f PROVE SumFunction(f) = Total(f, DOMAIN f)
  BY DEF SumFunction, Total

\* The places of a sequence are finitely many.
LEMMA RowsAreFinite == \A n \in Nat : IsFiniteSet(1..n)
  BY FS_Interval

\* A sum over numbers in a row grows at its end ...
LEMMA TotalGrows ==
  ASSUME NEW f, NEW n \in Nat, \A i \in 1..(n + 1) : f[i] \in Int
  PROVE  Total(f, 1..(n + 1)) = Total(f, 1..n) + f[n + 1] /\ Total(f, 1..n) \in Int
<1>1. IsFiniteSet(1..(n + 1)) /\ IsFiniteSet(1..n)
  BY FS_Interval
<1>2. (1..(n + 1)) \ {n + 1} = 1..n /\ n + 1 \in 1..(n + 1)
  OBVIOUS
<1>3. Total(f, 1..(n + 1)) = f[n + 1] + Total(f, (1..(n + 1)) \ {n + 1})
  BY <1>1, <1>2, TotalTakesOut
<1>4. Total(f, 1..n) \in Int
  BY <1>1, TotalIsInt
<1>5. f[n + 1] \in Int
  BY <1>2
<1>6. Total(f, 1..(n + 1)) = f[n + 1] + Total(f, 1..n)
  BY <1>2, <1>3
<1> QED  BY <1>4, <1>5, <1>6

\* ... and falls into that of its head and that of what follows.
LEMMA TotalParts ==
  ASSUME NEW f, NEW g, NEW n \in Nat, NEW m \in Nat, NEW l, l = n + m,
         \A i \in 1..l : f[i] \in Int, \A i \in 1..m : g[i] = f[n + i]
  PROVE  Total(f, 1..l) = Total(f, 1..n) + Total(g, 1..m)
<1> DEFINE G == {k \in Nat : k <= m => Total(f, 1..(n + k)) = Total(f, 1..n) + Total(g, 1..k)}
<1>1. 0 \in G
  <2>1. Total(f, 1..n) \in Int
    <3>1. \A i \in 1..n : f[i] \in Int
      OBVIOUS
    <3> QED  BY <3>1, RowsAreFinite, TotalIsInt
  <2>2. 1..0 = {}
    OBVIOUS
  <2> QED  BY <2>1, <2>2, TotalEmpty
<1>2. ASSUME NEW k \in Nat, k \in G PROVE k + 1 \in G
  <2> SUFFICES ASSUME k + 1 <= m
               PROVE  Total(f, 1..(n + (k + 1))) = Total(f, 1..n) + Total(g, 1..(k + 1))
    OBVIOUS
  <2>1. Total(f, 1..((n + k) + 1)) = Total(f, 1..(n + k)) + f[(n + k) + 1]
    <3>1. \A i \in 1..((n + k) + 1) : f[i] \in Int
      OBVIOUS
    <3>2. n + k \in Nat
      OBVIOUS
    <3> QED  BY <3>1, <3>2, TotalGrows
  <2>2. Total(g, 1..(k + 1)) = Total(g, 1..k) + g[k + 1] /\ Total(g, 1..k) \in Int
    <3>1. \A i \in 1..(k + 1) : g[i] \in Int
      OBVIOUS
    <3> QED  BY <3>1, TotalGrows
  <2>3. Total(f, 1..(n + k)) = Total(f, 1..n) + Total(g, 1..k)
    BY <1>2
  <2>4. Total(f, 1..n) \in Int
    <3>1. \A i \in 1..n : f[i] \in Int
      OBVIOUS
    <3> QED  BY <3>1, RowsAreFinite, TotalIsInt
  <2>5. g[k + 1] = f[(n + k) + 1] /\ g[k + 1] \in Int /\ n + (k + 1) = (n + k) + 1
    OBVIOUS
  <2> QED  BY <2>1, <2>2, <2>3, <2>4, <2>5
<1>3. m \in G
  <2> HIDE DEF G
  <2> QED  BY <1>1, <1>2, Upward
<1> QED  BY <1>3

(* ---- the leaderboard's ledger (StatsLedger) ---- *)

\* The barrier is the saver's while it has detached the cache, and shuts queries out.
Barred ==
  /\ ldSaver.pc = "write" <=> ldBarrier = "saver"
  /\ ldSaver.pc = "write" => \A r \in LdReaders : ldRead[r].pc # "cache"
  /\ ldSaver.pc = "idle" => ldSaver.took = {}

\* A request is in one place: memory, the flush in progress, or the live rows.
Apart ==
  /\ \A e \in LdEvents : ldLive[e] \in {0, 1} /\ (ldLive[e] = 1 => e < ldNext)
  /\ \A e \in ldCache : ldLive[e] = 0 /\ e \notin ldSaver.took /\ ldSince <= e /\ e < ldNext
  /\ \A e \in ldSaver.took : ldLive[e] = 0 /\ ldSince <= e /\ e < ldNext

\* The cutoff parts what was backfilled from what was recorded, once it is known.
Parted ==
  /\ ldSince <= ldNext /\ 0 < ldSince /\ ldCutoff <= ldSince
  /\ ldFill.pc \in {"collect", "replace"} => ldCutoff # NoCutoff
  /\ \A e \in ldFill.rows \cup ldOld : e < ldCutoff
  /\ ~ldEarly => \A e \in LdEvents : ldLive[e] = 1 => ldCutoff # NoCutoff /\ ldCutoff <= e

\* What a query has added up is still what the tables hold, and all it must show is in
\* them or in memory.
Reading ==
  \A r \in LdReaders : ldRead[r].pc = "cache" =>
    /\ ldRead[r].seen = Add(ldLive, Count(ldOld))
    /\ \A e \in ldRead[r].must : e \in ldCache \/ ldLive[e] = 1

LdInv == LdTypeOK /\ Barred /\ Apart /\ Parted /\ Reading /\ LdShownOnce

-----------------------------------------------------------------------------

LEMMA EventsAreNumbers ==
  /\ \A e \in LdEvents : e \in Nat /\ 1 <= e /\ e <= LdLast
  /\ LdLast \in Nat \ {0} /\ LdStarts \in Nat \ {0}
BY LdAssumption DEF LdAssumption, LdEvents

LEMMA Sums ==
  /\ \A S : Count(S) \in [LdEvents -> Nat]
  /\ \A rows \in [LdEvents -> Nat], more \in [LdEvents -> Nat] :
       /\ Add(rows, more) \in [LdEvents -> Nat]
       /\ \A e \in LdEvents : Add(rows, more)[e] = rows[e] + more[e]
  /\ \A S, e : e \in LdEvents => Count(S)[e] = IF e \in S THEN 1 ELSE 0
  /\ Nothing \in [LdEvents -> Nat] /\ \A e \in LdEvents : Nothing[e] = 0
BY DEF Count, Add, Nothing

\* The shape of the state.
LEMMA LdStepTypeOK ==
  ASSUME LdInv, [LdNext]_ldVars
  PROVE  LdTypeOK'
<1>1. CASE LdRecord
  BY <1>1, EventsAreNumbers, Sums
  DEF LdRecord, LdTypeOK, LdNobody, LdNoSave, LdNoFill, LdNotReading, LdMayRead, LdMayWrite,
      NoCutoff, LdInv
<1>2. CASE LdDetach
  BY <1>2, EventsAreNumbers, Sums
  DEF LdDetach, LdTypeOK, LdNobody, LdNoSave, LdNoFill, LdNotReading, LdMayRead, LdMayWrite,
      NoCutoff, LdInv
<1>3. CASE LdUpsert
  BY <1>3, EventsAreNumbers, Sums
  DEF LdUpsert, LdTypeOK, LdNobody, LdNoSave, LdNoFill, LdNotReading, LdMayRead, LdMayWrite,
      NoCutoff, LdInv
<1>4. CASE LdUpsertFails
  BY <1>4, EventsAreNumbers, Sums
  DEF LdUpsertFails, LdTypeOK, LdNobody, LdNoSave, LdNoFill, LdNotReading, LdMayRead,
      LdMayWrite, NoCutoff, LdInv
<1>5. CASE LdPrepare
  BY <1>5, EventsAreNumbers, Sums
  DEF LdPrepare, LdTypeOK, LdNobody, LdNoSave, LdNoFill, LdNotReading, LdMayRead, LdMayWrite,
      NoCutoff, LdInv
<1>6. CASE LdCollect
  BY <1>6, EventsAreNumbers, Sums
  DEF LdCollect, LdTypeOK, LdNobody, LdNoSave, LdNoFill, LdNotReading, LdMayRead, LdMayWrite,
      NoCutoff, LdInv
<1>7. CASE LdReplace
  BY <1>7, EventsAreNumbers, Sums
  DEF LdReplace, LdTypeOK, LdNobody, LdNoSave, LdNoFill, LdNotReading, LdMayRead, LdMayWrite,
      NoCutoff, LdInv
<1>8. CASE LdFillFails
  BY <1>8, EventsAreNumbers, Sums
  DEF LdFillFails, LdTypeOK, LdNobody, LdNoSave, LdNoFill, LdNotReading, LdMayRead, LdMayWrite,
      NoCutoff, LdInv
<1>9. CASE LdRestart
  BY <1>9, EventsAreNumbers, Sums
  DEF LdRestart, LdTypeOK, LdNobody, LdNoSave, LdNoFill, LdNotReading, LdMayRead, LdMayWrite,
      NoCutoff, LdInv
<1>10. ASSUME NEW e \in LdEvents, LdLogged(e)
      PROVE  LdTypeOK'
  BY <1>10, EventsAreNumbers, Sums
  DEF LdLogged, LdTypeOK, LdNobody, LdNoSave, LdNoFill, LdNotReading, LdMayRead, LdMayWrite,
      NoCutoff, LdInv
<1>11. ASSUME NEW e \in LdEvents, LdExpire(e)
      PROVE  LdTypeOK'
  BY <1>11, EventsAreNumbers, Sums
  DEF LdExpire, LdTypeOK, LdNobody, LdNoSave, LdNoFill, LdNotReading, LdMayRead, LdMayWrite,
      NoCutoff, LdInv
<1>12. ASSUME NEW r \in LdReaders, LdQueryRows(r)
      PROVE  LdTypeOK'
  BY <1>12, EventsAreNumbers, Sums
  DEF LdQueryRows, LdTypeOK, LdNobody, LdNoSave, LdNoFill, LdNotReading, LdMayRead, LdMayWrite,
      NoCutoff, LdInv
<1>13. ASSUME NEW r \in LdReaders, LdQueryCache(r)
      PROVE  LdTypeOK'
  <2>1. ldRead[r].seen \in [LdEvents -> Nat] /\ ldRead[r].must \subseteq LdEvents
    BY DEF LdInv, LdTypeOK
  <2>2. Add(ldRead[r].seen, Count(ldCache)) \in [LdEvents -> Nat]
    BY <2>1, Sums
  <2> DEFINE Reader == [pc : {"idle", "cache", "shown"}, seen : [LdEvents -> Nat],
                       must : SUBSET LdEvents]
  <2>3. PICK s \in [LdEvents -> Nat] : s = Add(ldRead[r].seen, Count(ldCache))
    BY <2>2
  <2>4. ldRead' \in [LdReaders -> Reader]
    <3>1. ldRead \in [LdReaders -> Reader]
      BY DEF LdInv, LdTypeOK
    <3>2. ldRead' = [ldRead EXCEPT ![r].pc = "shown", ![r].seen = s]
      BY <1>13, <2>3 DEF LdQueryCache
    <3>3. QED
      BY <3>1, <3>2
  <2>5. QED
    BY <1>13, <2>4 DEF LdQueryCache, LdInv, LdTypeOK
<1>14. ASSUME NEW r \in LdReaders, LdQueryDone(r)
      PROVE  LdTypeOK'
  BY <1>14, EventsAreNumbers, Sums
  DEF LdQueryDone, LdTypeOK, LdNobody, LdNoSave, LdNoFill, LdNotReading, LdMayRead, LdMayWrite,
      NoCutoff, LdInv
<1>15. CASE UNCHANGED ldVars
  BY <1>15 DEF LdTypeOK, LdNobody, LdNoSave, LdNoFill, LdNotReading, LdMayRead, LdMayWrite,
      NoCutoff, LdInv, ldVars
<1>16. QED
  BY <1>1, <1>2, <1>3, <1>4, <1>5, <1>6, <1>7, <1>8, <1>9, <1>10, <1>11, <1>12, <1>13, <1>14,
      <1>15 DEF LdNext

\* The barrier.
LEMMA StepBarred ==
  ASSUME LdInv, [LdNext]_ldVars
  PROVE  Barred'
<1>1. CASE LdRecord
  BY <1>1
  DEF LdRecord, Barred, LdTypeOK, LdNobody, LdNoSave, LdNoFill, LdNotReading, LdMayRead,
      LdMayWrite, NoCutoff, LdInv
<1>2. CASE LdDetach
  BY <1>2
  DEF LdDetach, Barred, LdTypeOK, LdNobody, LdNoSave, LdNoFill, LdNotReading, LdMayRead,
      LdMayWrite, NoCutoff, LdInv
<1>3. CASE LdUpsert
  BY <1>3
  DEF LdUpsert, Barred, LdTypeOK, LdNobody, LdNoSave, LdNoFill, LdNotReading, LdMayRead,
      LdMayWrite, NoCutoff, LdInv
<1>4. CASE LdUpsertFails
  BY <1>4
  DEF LdUpsertFails, Barred, LdTypeOK, LdNobody, LdNoSave, LdNoFill, LdNotReading, LdMayRead,
      LdMayWrite, NoCutoff, LdInv
<1>5. CASE LdPrepare
  BY <1>5
  DEF LdPrepare, Barred, LdTypeOK, LdNobody, LdNoSave, LdNoFill, LdNotReading, LdMayRead,
      LdMayWrite, NoCutoff, LdInv
<1>6. CASE LdCollect
  BY <1>6
  DEF LdCollect, Barred, LdTypeOK, LdNobody, LdNoSave, LdNoFill, LdNotReading, LdMayRead,
      LdMayWrite, NoCutoff, LdInv
<1>7. CASE LdReplace
  BY <1>7
  DEF LdReplace, Barred, LdTypeOK, LdNobody, LdNoSave, LdNoFill, LdNotReading, LdMayRead,
      LdMayWrite, NoCutoff, LdInv
<1>8. CASE LdFillFails
  BY <1>8
  DEF LdFillFails, Barred, LdTypeOK, LdNobody, LdNoSave, LdNoFill, LdNotReading, LdMayRead,
      LdMayWrite, NoCutoff, LdInv
<1>9. CASE LdRestart
  BY <1>9
  DEF LdRestart, Barred, LdTypeOK, LdNobody, LdNoSave, LdNoFill, LdNotReading, LdMayRead,
      LdMayWrite, NoCutoff, LdInv
<1>10. ASSUME NEW e \in LdEvents, LdLogged(e)
      PROVE  Barred'
  BY <1>10
  DEF LdLogged, Barred, LdTypeOK, LdNobody, LdNoSave, LdNoFill, LdNotReading, LdMayRead,
      LdMayWrite, NoCutoff, LdInv
<1>11. ASSUME NEW e \in LdEvents, LdExpire(e)
      PROVE  Barred'
  BY <1>11
  DEF LdExpire, Barred, LdTypeOK, LdNobody, LdNoSave, LdNoFill, LdNotReading, LdMayRead,
      LdMayWrite, NoCutoff, LdInv
<1>12. ASSUME NEW r \in LdReaders, LdQueryRows(r)
      PROVE  Barred'
  BY <1>12
  DEF LdQueryRows, Barred, LdTypeOK, LdNobody, LdNoSave, LdNoFill, LdNotReading, LdMayRead,
      LdMayWrite, NoCutoff, LdInv
<1>13. ASSUME NEW r \in LdReaders, LdQueryCache(r)
      PROVE  Barred'
  BY <1>13
  DEF LdQueryCache, Barred, LdTypeOK, LdNobody, LdNoSave, LdNoFill, LdNotReading, LdMayRead,
      LdMayWrite, NoCutoff, LdInv
<1>14. ASSUME NEW r \in LdReaders, LdQueryDone(r)
      PROVE  Barred'
  BY <1>14
  DEF LdQueryDone, Barred, LdTypeOK, LdNobody, LdNoSave, LdNoFill, LdNotReading, LdMayRead,
      LdMayWrite, NoCutoff, LdInv
<1>15. CASE UNCHANGED ldVars
  BY <1>15 DEF Barred, LdTypeOK, LdNobody, LdNoSave, LdNoFill, LdNotReading, LdMayRead,
      LdMayWrite, NoCutoff, LdInv, ldVars
<1>16. QED
  BY <1>1, <1>2, <1>3, <1>4, <1>5, <1>6, <1>7, <1>8, <1>9, <1>10, <1>11, <1>12, <1>13, <1>14,
      <1>15 DEF LdNext

\* One place.
LEMMA StepApart ==
  ASSUME LdInv, [LdNext]_ldVars
  PROVE  Apart'
<1>1. CASE LdRecord
  BY <1>1, EventsAreNumbers, Sums
  DEF LdRecord, Apart, Parted, Barred, LdTypeOK, LdNobody, LdNoSave, LdNoFill, LdNotReading,
      LdMayRead, LdMayWrite, NoCutoff, LdInv
<1>2. CASE LdDetach
  BY <1>2, EventsAreNumbers, Sums
  DEF LdDetach, Apart, Parted, Barred, LdTypeOK, LdNobody, LdNoSave, LdNoFill, LdNotReading,
      LdMayRead, LdMayWrite, NoCutoff, LdInv
<1>3. CASE LdUpsert
  BY <1>3, EventsAreNumbers, Sums
  DEF LdUpsert, Apart, Parted, Barred, LdTypeOK, LdNobody, LdNoSave, LdNoFill, LdNotReading,
      LdMayRead, LdMayWrite, NoCutoff, LdInv
<1>4. CASE LdUpsertFails
  BY <1>4, EventsAreNumbers, Sums
  DEF LdUpsertFails, Apart, Parted, Barred, LdTypeOK, LdNobody, LdNoSave, LdNoFill,
      LdNotReading, LdMayRead, LdMayWrite, NoCutoff, LdInv
<1>5. CASE LdPrepare
  BY <1>5, EventsAreNumbers, Sums
  DEF LdPrepare, Apart, Parted, Barred, LdTypeOK, LdNobody, LdNoSave, LdNoFill, LdNotReading,
      LdMayRead, LdMayWrite, NoCutoff, LdInv
<1>6. CASE LdCollect
  BY <1>6, EventsAreNumbers, Sums
  DEF LdCollect, Apart, Parted, Barred, LdTypeOK, LdNobody, LdNoSave, LdNoFill, LdNotReading,
      LdMayRead, LdMayWrite, NoCutoff, LdInv
<1>7. CASE LdReplace
  BY <1>7, EventsAreNumbers, Sums
  DEF LdReplace, Apart, Parted, Barred, LdTypeOK, LdNobody, LdNoSave, LdNoFill, LdNotReading,
      LdMayRead, LdMayWrite, NoCutoff, LdInv
<1>8. CASE LdFillFails
  BY <1>8, EventsAreNumbers, Sums
  DEF LdFillFails, Apart, Parted, Barred, LdTypeOK, LdNobody, LdNoSave, LdNoFill, LdNotReading,
      LdMayRead, LdMayWrite, NoCutoff, LdInv
<1>9. CASE LdRestart
  BY <1>9, EventsAreNumbers, Sums
  DEF LdRestart, Apart, Parted, Barred, LdTypeOK, LdNobody, LdNoSave, LdNoFill, LdNotReading,
      LdMayRead, LdMayWrite, NoCutoff, LdInv
<1>10. ASSUME NEW e \in LdEvents, LdLogged(e)
      PROVE  Apart'
  BY <1>10, EventsAreNumbers, Sums
  DEF LdLogged, Apart, Parted, Barred, LdTypeOK, LdNobody, LdNoSave, LdNoFill, LdNotReading,
      LdMayRead, LdMayWrite, NoCutoff, LdInv
<1>11. ASSUME NEW e \in LdEvents, LdExpire(e)
      PROVE  Apart'
  BY <1>11, EventsAreNumbers, Sums
  DEF LdExpire, Apart, Parted, Barred, LdTypeOK, LdNobody, LdNoSave, LdNoFill, LdNotReading,
      LdMayRead, LdMayWrite, NoCutoff, LdInv
<1>12. ASSUME NEW r \in LdReaders, LdQueryRows(r)
      PROVE  Apart'
  BY <1>12, EventsAreNumbers, Sums
  DEF LdQueryRows, Apart, Parted, Barred, LdTypeOK, LdNobody, LdNoSave, LdNoFill, LdNotReading,
      LdMayRead, LdMayWrite, NoCutoff, LdInv
<1>13. ASSUME NEW r \in LdReaders, LdQueryCache(r)
      PROVE  Apart'
  BY <1>13, EventsAreNumbers, Sums
  DEF LdQueryCache, Apart, Parted, Barred, LdTypeOK, LdNobody, LdNoSave, LdNoFill,
      LdNotReading, LdMayRead, LdMayWrite, NoCutoff, LdInv
<1>14. ASSUME NEW r \in LdReaders, LdQueryDone(r)
      PROVE  Apart'
  BY <1>14, EventsAreNumbers, Sums
  DEF LdQueryDone, Apart, Parted, Barred, LdTypeOK, LdNobody, LdNoSave, LdNoFill, LdNotReading,
      LdMayRead, LdMayWrite, NoCutoff, LdInv
<1>15. CASE UNCHANGED ldVars
  BY <1>15 DEF Apart, Parted, Barred, LdTypeOK, LdNobody, LdNoSave, LdNoFill, LdNotReading,
      LdMayRead, LdMayWrite, NoCutoff, LdInv, ldVars
<1>16. QED
  BY <1>1, <1>2, <1>3, <1>4, <1>5, <1>6, <1>7, <1>8, <1>9, <1>10, <1>11, <1>12, <1>13, <1>14,
      <1>15 DEF LdNext

\* The cutoff.
LEMMA StepParted ==
  ASSUME LdInv, [LdNext]_ldVars
  PROVE  Parted'
<1>1. CASE LdRecord
  BY <1>1, EventsAreNumbers, Sums
  DEF LdRecord, Parted, Apart, LdTypeOK, LdNobody, LdNoSave, LdNoFill, LdNotReading, LdMayRead,
      LdMayWrite, NoCutoff, LdInv
<1>2. CASE LdDetach
  BY <1>2, EventsAreNumbers, Sums
  DEF LdDetach, Parted, Apart, LdTypeOK, LdNobody, LdNoSave, LdNoFill, LdNotReading, LdMayRead,
      LdMayWrite, NoCutoff, LdInv
<1>3. CASE LdUpsert
  <2>1. ASSUME ~ldEarly', NEW e \in LdEvents, ldLive'[e] = 1
        PROVE  ldCutoff # NoCutoff /\ ldCutoff <= e
    <3>1. ~ldEarly /\ ldCutoff # NoCutoff
      BY <1>3, <2>1 DEF LdUpsert
    <3>2. ldLive[e] = 1 \/ e \in ldSaver.took
      <4>1. ldLive \in [LdEvents -> Nat]
        BY DEF LdInv, LdTypeOK
      <4>2. ldLive'[e] = ldLive[e] + Count(ldSaver.took)[e]
        BY <1>3, <4>1, Sums DEF LdUpsert
      <4>3. QED
        BY <2>1, <4>1, <4>2, Sums
    <3>3. ldCutoff <= ldSince /\ ldCutoff \in Nat /\ ldSince \in Nat /\ e \in Nat
      BY EventsAreNumbers DEF LdInv, Parted, LdTypeOK
    <3>4. CASE ldLive[e] = 1
      BY <3>1, <3>4 DEF LdInv, Parted
    <3>5. CASE e \in ldSaver.took
      BY <3>1, <3>3, <3>5 DEF LdInv, Apart
    <3>6. QED
      BY <3>2, <3>4, <3>5
  <2>2. QED
    BY <1>3, <2>1 DEF LdUpsert, LdNoSave, LdInv, Parted
<1>4. CASE LdUpsertFails
  BY <1>4, EventsAreNumbers, Sums
  DEF LdUpsertFails, Parted, Apart, LdTypeOK, LdNobody, LdNoSave, LdNoFill, LdNotReading,
      LdMayRead, LdMayWrite, NoCutoff, LdInv
<1>5. CASE LdPrepare
  BY <1>5, EventsAreNumbers, Sums
  DEF LdPrepare, Parted, Apart, LdTypeOK, LdNobody, LdNoSave, LdNoFill, LdNotReading,
      LdMayRead, LdMayWrite, NoCutoff, LdInv
<1>6. CASE LdCollect
  BY <1>6, EventsAreNumbers, Sums
  DEF LdCollect, Parted, Apart, LdTypeOK, LdNobody, LdNoSave, LdNoFill, LdNotReading,
      LdMayRead, LdMayWrite, NoCutoff, LdInv
<1>7. CASE LdReplace
  BY <1>7, EventsAreNumbers, Sums
  DEF LdReplace, Parted, Apart, LdTypeOK, LdNobody, LdNoSave, LdNoFill, LdNotReading,
      LdMayRead, LdMayWrite, NoCutoff, LdInv
<1>8. CASE LdFillFails
  BY <1>8, EventsAreNumbers, Sums
  DEF LdFillFails, Parted, Apart, LdTypeOK, LdNobody, LdNoSave, LdNoFill, LdNotReading,
      LdMayRead, LdMayWrite, NoCutoff, LdInv
<1>9. CASE LdRestart
  BY <1>9, EventsAreNumbers, Sums
  DEF LdRestart, Parted, Apart, LdTypeOK, LdNobody, LdNoSave, LdNoFill, LdNotReading,
      LdMayRead, LdMayWrite, NoCutoff, LdInv
<1>10. ASSUME NEW e \in LdEvents, LdLogged(e)
      PROVE  Parted'
  BY <1>10, EventsAreNumbers, Sums
  DEF LdLogged, Parted, Apart, LdTypeOK, LdNobody, LdNoSave, LdNoFill, LdNotReading, LdMayRead,
      LdMayWrite, NoCutoff, LdInv
<1>11. ASSUME NEW e \in LdEvents, LdExpire(e)
      PROVE  Parted'
  BY <1>11, EventsAreNumbers, Sums
  DEF LdExpire, Parted, Apart, LdTypeOK, LdNobody, LdNoSave, LdNoFill, LdNotReading, LdMayRead,
      LdMayWrite, NoCutoff, LdInv
<1>12. ASSUME NEW r \in LdReaders, LdQueryRows(r)
      PROVE  Parted'
  BY <1>12, EventsAreNumbers, Sums
  DEF LdQueryRows, Parted, Apart, LdTypeOK, LdNobody, LdNoSave, LdNoFill, LdNotReading,
      LdMayRead, LdMayWrite, NoCutoff, LdInv
<1>13. ASSUME NEW r \in LdReaders, LdQueryCache(r)
      PROVE  Parted'
  BY <1>13, EventsAreNumbers, Sums
  DEF LdQueryCache, Parted, Apart, LdTypeOK, LdNobody, LdNoSave, LdNoFill, LdNotReading,
      LdMayRead, LdMayWrite, NoCutoff, LdInv
<1>14. ASSUME NEW r \in LdReaders, LdQueryDone(r)
      PROVE  Parted'
  BY <1>14, EventsAreNumbers, Sums
  DEF LdQueryDone, Parted, Apart, LdTypeOK, LdNobody, LdNoSave, LdNoFill, LdNotReading,
      LdMayRead, LdMayWrite, NoCutoff, LdInv
<1>15. CASE UNCHANGED ldVars
  BY <1>15 DEF Parted, Apart, LdTypeOK, LdNobody, LdNoSave, LdNoFill, LdNotReading, LdMayRead,
      LdMayWrite, NoCutoff, LdInv, ldVars
<1>16. QED
  BY <1>1, <1>2, <1>3, <1>4, <1>5, <1>6, <1>7, <1>8, <1>9, <1>10, <1>11, <1>12, <1>13, <1>14,
      <1>15 DEF LdNext

\* A query.
LEMMA StepReading ==
  ASSUME LdInv, [LdNext]_ldVars
  PROVE  Reading'
<1>1. CASE LdRecord
  BY <1>1, EventsAreNumbers
  DEF LdRecord, Reading, Barred, Apart, LdTypeOK, LdNobody, LdNoSave, LdNoFill, LdNotReading,
      LdMayRead, LdMayWrite, NoCutoff, LdInv
<1>2. CASE LdDetach
  BY <1>2, EventsAreNumbers
  DEF LdDetach, Reading, Barred, Apart, LdTypeOK, LdNobody, LdNoSave, LdNoFill, LdNotReading,
      LdMayRead, LdMayWrite, NoCutoff, LdInv
<1>3. CASE LdUpsert
  BY <1>3, EventsAreNumbers
  DEF LdUpsert, Reading, Barred, Apart, LdTypeOK, LdNobody, LdNoSave, LdNoFill, LdNotReading,
      LdMayRead, LdMayWrite, NoCutoff, LdInv
<1>4. CASE LdUpsertFails
  BY <1>4, EventsAreNumbers
  DEF LdUpsertFails, Reading, Barred, Apart, LdTypeOK, LdNobody, LdNoSave, LdNoFill,
      LdNotReading, LdMayRead, LdMayWrite, NoCutoff, LdInv
<1>5. CASE LdPrepare
  BY <1>5, EventsAreNumbers
  DEF LdPrepare, Reading, Barred, Apart, LdTypeOK, LdNobody, LdNoSave, LdNoFill, LdNotReading,
      LdMayRead, LdMayWrite, NoCutoff, LdInv
<1>6. CASE LdCollect
  BY <1>6, EventsAreNumbers
  DEF LdCollect, Reading, Barred, Apart, LdTypeOK, LdNobody, LdNoSave, LdNoFill, LdNotReading,
      LdMayRead, LdMayWrite, NoCutoff, LdInv
<1>7. CASE LdReplace
  BY <1>7, EventsAreNumbers
  DEF LdReplace, Reading, Barred, Apart, LdTypeOK, LdNobody, LdNoSave, LdNoFill, LdNotReading,
      LdMayRead, LdMayWrite, NoCutoff, LdInv
<1>8. CASE LdFillFails
  BY <1>8, EventsAreNumbers
  DEF LdFillFails, Reading, Barred, Apart, LdTypeOK, LdNobody, LdNoSave, LdNoFill,
      LdNotReading, LdMayRead, LdMayWrite, NoCutoff, LdInv
<1>9. CASE LdRestart
  BY <1>9, EventsAreNumbers
  DEF LdRestart, Reading, Barred, Apart, LdTypeOK, LdNobody, LdNoSave, LdNoFill, LdNotReading,
      LdMayRead, LdMayWrite, NoCutoff, LdInv
<1>10. ASSUME NEW e \in LdEvents, LdLogged(e)
      PROVE  Reading'
  BY <1>10, EventsAreNumbers
  DEF LdLogged, Reading, Barred, Apart, LdTypeOK, LdNobody, LdNoSave, LdNoFill, LdNotReading,
      LdMayRead, LdMayWrite, NoCutoff, LdInv
<1>11. ASSUME NEW e \in LdEvents, LdExpire(e)
      PROVE  Reading'
  BY <1>11, EventsAreNumbers
  DEF LdExpire, Reading, Barred, Apart, LdTypeOK, LdNobody, LdNoSave, LdNoFill, LdNotReading,
      LdMayRead, LdMayWrite, NoCutoff, LdInv
<1>12. ASSUME NEW r \in LdReaders, LdQueryRows(r)
      PROVE  Reading'
  BY <1>12, EventsAreNumbers
  DEF LdQueryRows, Reading, Barred, Apart, LdTypeOK, LdNobody, LdNoSave, LdNoFill,
      LdNotReading, LdMayRead, LdMayWrite, NoCutoff, LdInv
<1>13. ASSUME NEW r \in LdReaders, LdQueryCache(r)
      PROVE  Reading'
  BY <1>13, EventsAreNumbers
  DEF LdQueryCache, Reading, Barred, Apart, LdTypeOK, LdNobody, LdNoSave, LdNoFill,
      LdNotReading, LdMayRead, LdMayWrite, NoCutoff, LdInv
<1>14. ASSUME NEW r \in LdReaders, LdQueryDone(r)
      PROVE  Reading'
  BY <1>14, EventsAreNumbers
  DEF LdQueryDone, Reading, Barred, Apart, LdTypeOK, LdNobody, LdNoSave, LdNoFill,
      LdNotReading, LdMayRead, LdMayWrite, NoCutoff, LdInv
<1>15. CASE UNCHANGED ldVars
  BY <1>15 DEF Reading, Barred, Apart, LdTypeOK, LdNobody, LdNoSave, LdNoFill, LdNotReading,
      LdMayRead, LdMayWrite, NoCutoff, LdInv, ldVars
<1>16. QED
  BY <1>1, <1>2, <1>3, <1>4, <1>5, <1>6, <1>7, <1>8, <1>9, <1>10, <1>11, <1>12, <1>13, <1>14,
      <1>15 DEF LdNext

\* Its result.
LEMMA StepShown ==
  ASSUME LdInv, [LdNext]_ldVars
  PROVE  LdShownOnce'
<1>1. CASE LdRecord
  BY <1>1, EventsAreNumbers
  DEF LdRecord, LdShownOnce, LdTypeOK, LdNobody, LdNoSave, LdNoFill, LdNotReading, LdMayRead,
      LdMayWrite, NoCutoff, LdInv
<1>2. CASE LdDetach
  BY <1>2, EventsAreNumbers
  DEF LdDetach, LdShownOnce, LdTypeOK, LdNobody, LdNoSave, LdNoFill, LdNotReading, LdMayRead,
      LdMayWrite, NoCutoff, LdInv
<1>3. CASE LdUpsert
  BY <1>3, EventsAreNumbers
  DEF LdUpsert, LdShownOnce, LdTypeOK, LdNobody, LdNoSave, LdNoFill, LdNotReading, LdMayRead,
      LdMayWrite, NoCutoff, LdInv
<1>4. CASE LdUpsertFails
  BY <1>4, EventsAreNumbers
  DEF LdUpsertFails, LdShownOnce, LdTypeOK, LdNobody, LdNoSave, LdNoFill, LdNotReading,
      LdMayRead, LdMayWrite, NoCutoff, LdInv
<1>5. CASE LdPrepare
  BY <1>5, EventsAreNumbers
  DEF LdPrepare, LdShownOnce, LdTypeOK, LdNobody, LdNoSave, LdNoFill, LdNotReading, LdMayRead,
      LdMayWrite, NoCutoff, LdInv
<1>6. CASE LdCollect
  BY <1>6, EventsAreNumbers
  DEF LdCollect, LdShownOnce, LdTypeOK, LdNobody, LdNoSave, LdNoFill, LdNotReading, LdMayRead,
      LdMayWrite, NoCutoff, LdInv
<1>7. CASE LdReplace
  BY <1>7, EventsAreNumbers
  DEF LdReplace, LdShownOnce, LdTypeOK, LdNobody, LdNoSave, LdNoFill, LdNotReading, LdMayRead,
      LdMayWrite, NoCutoff, LdInv
<1>8. CASE LdFillFails
  BY <1>8, EventsAreNumbers
  DEF LdFillFails, LdShownOnce, LdTypeOK, LdNobody, LdNoSave, LdNoFill, LdNotReading,
      LdMayRead, LdMayWrite, NoCutoff, LdInv
<1>9. CASE LdRestart
  BY <1>9, EventsAreNumbers
  DEF LdRestart, LdShownOnce, LdTypeOK, LdNobody, LdNoSave, LdNoFill, LdNotReading, LdMayRead,
      LdMayWrite, NoCutoff, LdInv
<1>10. ASSUME NEW e \in LdEvents, LdLogged(e)
      PROVE  LdShownOnce'
  BY <1>10, EventsAreNumbers
  DEF LdLogged, LdShownOnce, LdTypeOK, LdNobody, LdNoSave, LdNoFill, LdNotReading, LdMayRead,
      LdMayWrite, NoCutoff, LdInv
<1>11. ASSUME NEW e \in LdEvents, LdExpire(e)
      PROVE  LdShownOnce'
  BY <1>11, EventsAreNumbers
  DEF LdExpire, LdShownOnce, LdTypeOK, LdNobody, LdNoSave, LdNoFill, LdNotReading, LdMayRead,
      LdMayWrite, NoCutoff, LdInv
<1>12. ASSUME NEW r \in LdReaders, LdQueryRows(r)
      PROVE  LdShownOnce'
  BY <1>12, EventsAreNumbers
  DEF LdQueryRows, LdShownOnce, LdTypeOK, LdNobody, LdNoSave, LdNoFill, LdNotReading,
      LdMayRead, LdMayWrite, NoCutoff, LdInv
<1>13. ASSUME NEW r \in LdReaders, LdQueryCache(r)
      PROVE  LdShownOnce'
  <2>1. /\ ldRead[r].seen \in [LdEvents -> Nat] /\ ldRead[r].must \subseteq LdEvents
        /\ ldLive \in [LdEvents -> Nat]
    BY DEF LdInv, LdTypeOK
  <2>2. ldRead'[r].seen = Add(ldRead[r].seen, Count(ldCache)) /\ ldRead'[r].must =
      ldRead[r].must
        /\ ldEarly' = ldEarly /\ \A q \in LdReaders \ {r} : ldRead'[q] = ldRead[q]
    BY <1>13 DEF LdQueryCache, LdInv, LdTypeOK
  <2>3. ldRead[r].seen = Add(ldLive, Count(ldOld))
        /\ \A e \in ldRead[r].must : e \in ldCache \/ ldLive[e] = 1
    BY <1>13 DEF LdQueryCache, LdInv, Reading
  <2>4. \A e \in LdEvents : ldRead'[r].seen[e]
          = ldLive[e] + (IF e \in ldOld THEN 1 ELSE 0) + (IF e \in ldCache THEN 1 ELSE 0)
    BY <2>1, <2>2, <2>3, Sums
  <2>5. ASSUME ~ldEarly, NEW e \in LdEvents
        PROVE  /\ ldLive[e] \in {0, 1}
               /\ e \in ldOld => ldLive[e] = 0 /\ e \notin ldCache
               /\ e \in ldCache => ldLive[e] = 0
    <3>1. ldLive[e] \in {0, 1} /\ (e \in ldCache => ldLive[e] = 0 /\ ldSince <= e)
      BY DEF LdInv, Apart
    <3>2. (e \in ldOld => e < ldCutoff) /\ ldCutoff <= ldSince
          /\ (ldLive[e] = 1 => ldCutoff <= e)
      BY <2>5 DEF LdInv, Parted
    <3>3. ldCutoff \in Nat /\ ldSince \in Nat /\ e \in Nat
      BY EventsAreNumbers DEF LdInv, LdTypeOK
    <3>4. QED
      BY <3>1, <3>2, <3>3
  <2>6. ASSUME ~ldEarly
        PROVE  /\ \A e \in LdEvents : ldRead'[r].seen[e] <= 1
               /\ \A e \in ldRead'[r].must : ldRead'[r].seen[e] = 1
    BY <2>1, <2>2, <2>3, <2>4, <2>5, <2>6
  <2>7. QED
    BY <2>2, <2>6 DEF LdInv, LdShownOnce
<1>14. ASSUME NEW r \in LdReaders, LdQueryDone(r)
      PROVE  LdShownOnce'
  BY <1>14, EventsAreNumbers
  DEF LdQueryDone, LdShownOnce, LdTypeOK, LdNobody, LdNoSave, LdNoFill, LdNotReading,
      LdMayRead, LdMayWrite, NoCutoff, LdInv
<1>15. CASE UNCHANGED ldVars
  BY <1>15 DEF LdShownOnce, LdTypeOK, LdNobody, LdNoSave, LdNoFill, LdNotReading, LdMayRead,
      LdMayWrite, NoCutoff, LdInv, ldVars
<1>16. QED
  BY <1>1, <1>2, <1>3, <1>4, <1>5, <1>6, <1>7, <1>8, <1>9, <1>10, <1>11, <1>12, <1>13, <1>14,
      <1>15 DEF LdNext

-----------------------------------------------------------------------------

LEMMA LdInitially == LdInit => LdInv
<1> SUFFICES ASSUME LdInit PROVE LdInv
  OBVIOUS
<1>1. LdTypeOK
  <2>1. ldEarly \in BOOLEAN
    BY Zenon DEF LdInit
  <2>2. QED
    BY <2>1, EventsAreNumbers, Sums DEF LdInit, LdTypeOK, LdNobody, LdNoSave, LdNoFill,
        LdNotReading, NoCutoff, LdEvents
<1>2. Barred /\ Reading /\ LdShownOnce
  BY DEF LdInit, Barred, Reading, LdShownOnce, LdNobody, LdNoSave, LdNotReading
<1>3. Apart /\ Parted
  BY Sums, EventsAreNumbers DEF LdInit, Apart, Parted, LdNoSave, LdNoFill, NoCutoff
<1>4. QED
  BY <1>1, <1>2, <1>3 DEF LdInv

THEOREM LdInvariance == LdSpec => []LdInv
<1>1. LdInv /\ [LdNext]_ldVars => LdInv'
  BY LdStepTypeOK, StepBarred, StepApart, StepParted, StepReading, StepShown DEF LdInv
<1>2. QED
  BY <1>1, LdInitially, PTL DEF LdSpec

\* The ledger's tables, caches and tasks keep their shape (stats_leaderboard.go).
THEOREM LdTypeCorrect == LdSpec => []LdTypeOK
<1>1. LdInv => LdTypeOK
  BY DEF LdInv
<1>2. QED
  BY <1>1, LdInvariance, PTL

\* A query of the leaderboard shows each recorded request, and none twice, whatever
\* flushes, failures, backfills and restarts it meets, unless rows were written before
\* a cutoff was.
THEOREM ShownOnce == LdSpec => []LdShownOnce
<1>1. LdInv => LdShownOnce
  BY DEF LdInv
<1>2. QED
  BY <1>1, LdInvariance, PTL

(* ---- statistics and their saves (StatsFlush) ---- *)

\* A save runs in a request that is at its rows, or in a saver; what is not saving is idle.
StOneSave ==
  /\ ~stMixed => \A s, t \in StWho : StSaving(s) /\ StSaving(t) => s = t
  /\ \A s \in StWho : ~StSaving(s) => stSave[s] = StIdle
  /\ \A r \in StRequests : StSaving(r) => stReq[r].pc = "row"
  /\ \A r \in StRequests : stReq[r].pc \in {"set", "mark"} => stReq[r].key \in StKeys

\* What a save holds at each of its places.
StHolds ==
  \A s \in StWho :
    /\ stSave[s].pc = "old" => s \in StSavers /\ stSave[s].day = 0
    /\ stSave[s].pc # "old" => stSave[s].old = <<>>
    /\ stSave[s].pc \in {"idle", "old", "swap"} => stSave[s].keys = {}
    /\ stSave[s].pc \notin {"idle", "old"} => stSave[s].day # 0
    /\ \A k \in StKeys : stSave[s].rows[k] # NoRow => stCache[k] # NoRow /\ k \in stSave[s].keys

\* What a save has read is what it is to save, or is marked anew; so is what it has written.
StRowsHeld ==
  /\ \A k \in StKeys : stCache[k] = NoRow => stRows[k] = NoRow
  /\ ~stMixed => \A s \in StWho : \A k \in stSave[s].keys :
       /\ stSave[s].pc = "write" => stSave[s].rows[k] = stCache[k] \/ StMarked(k)
       /\ stSave[s].pc = "rest" => stRows[k] = stCache[k] \/ StMarked(k)

\* The day that runs has no last counter; a request saves the last counter of a day that is
\* over and only that is retried, a saver saves the day that runs.
StDaysHeld ==
  /\ stDaily.day <= stToday
  /\ \A d \in 1..StDays : stFinal[d] # NoRow => d < stDaily.day
  /\ ~stMixed =>
       /\ \A i \in DOMAIN stOver : stOver[i].n = stFinal[stOver[i].day]
       /\ \A s \in StWho : \A i \in DOMAIN stSave[s].old :
            stSave[s].old[i].n = stFinal[stSave[s].old[i].day]
       /\ \A s \in StWho : StSaving(s) /\ stSave[s].pc # "old" =>
            /\ s \in StRequests => stSave[s].n = stFinal[stSave[s].day]
            /\ s \in StSavers => stFinal[stSave[s].day] = NoRow
            /\ stSave[s].pc \in {"read", "write", "rest"} =>
                 stDayRows[stSave[s].day] = stSave[s].n

StInv == StTypeOK /\ StOneSave /\ StHolds /\ StRowsHeld /\ StDaysHeld /\ StSaved

LEMMA StBounds ==
  /\ StMax \in Nat /\ StDays \in Nat \ {0} /\ NoRow \notin 0..StMax
  /\ 0..StMax \subseteq StRow /\ NoRow \in StRow
  /\ \A s \in StWho : s \in StRequests <=> s \notin StSavers
BY StAssumption DEF StAssumption, StRow, NoRow, StWho

LEMMA StIdleHolds ==
  /\ StIdle.pc = "idle" /\ StIdle.day = 0 /\ StIdle.n = 0 /\ StIdle.keys = {}
  /\ StIdle.old = <<>> /\ \A k \in StKeys : StIdle.rows[k] = NoRow
  /\ StIdle \in StSave
BY StBounds DEF StIdle, StSave

LEMMA StInitially == StInit => StInv
<1> SUFFICES ASSUME StInit PROVE StInv
  OBVIOUS
<1>1. StTypeOK
  <2>1. stReq \in [StRequests -> StCount] /\ stSave \in [StWho -> StSave]
    BY StBounds, StIdleHolds DEF StInit, StCount
  <2>2. stDaily \in StDayCount /\ stToday \in 1..StDays
    BY StBounds DEF StInit, StDayCount
  <2>3. QED
    <3>1. stOver \in Seq(StDayCount)
      BY DEF StInit
    <3>2. /\ stCache \in [StKeys -> StRow] /\ stRows \in [StKeys -> StRow]
          /\ stDayRows \in [1..StDays -> StRow] /\ stFinal \in [1..StDays -> StRow]
          /\ stDirty \subseteq StKeys
      BY StBounds DEF StInit
    <3>3. stMixed \in BOOLEAN
      BY Zenon DEF StInit
    <3>4. QED
      BY <2>1, <2>2, <3>1, <3>2, <3>3 DEF StTypeOK
<1>2. \A s \in StWho : stSave[s] = StIdle
  BY DEF StInit
<1>3. StOneSave /\ StHolds
  <2>1. \A r \in StRequests : r \in StWho /\ stReq[r].pc = "idle"
    BY DEF StInit, StWho
  <2>2. QED
    BY <1>2, <2>1, StIdleHolds DEF StInit, StOneSave, StHolds, StSaving
<1>4. StRowsHeld /\ StSaved
  BY <1>2, StIdleHolds DEF StInit, StRowsHeld, StSaved, StRowCurrent, StDayKept
<1>5. StDaysHeld
  BY <1>2, StIdleHolds DEF StInit, StDaysHeld, StSaving
<1>6. QED
  BY <1>1, <1>3, <1>4, <1>5 DEF StInv

\* While one save runs all others are idle.
LEMMA StOthersIdle ==
  ASSUME StInv, ~stMixed, NEW s \in StWho, StSaving(s)
  PROVE  \A t \in StWho \ {s} : stSave[t] = StIdle
BY DEF StInv, StOneSave

\* What requests count, and midnight.
LEMMA StCounting ==
  ASSUME StInv, \/ StMidnight
                \/ \E r \in StRequests : \/ StDayAdd(r) \/ StRowSet(r) \/ StRowMark(r)
                                         \/ \E k \in StKeys : StRowGet(r, k)
  PROVE  StInv'
<1> USE DEF StInv
<1>1. UNCHANGED <<stRows, stDayRows, stOver, stSave, stFinal, stMixed>>
  BY DEF StMidnight, StDayAdd, StRowSet, StRowMark, StRowGet
<1>2. CASE StMidnight
  <2>1. StTypeOK'
    BY <1>2, StBounds DEF StMidnight, StTypeOK
  <2>2. StOneSave' /\ StHolds' /\ StRowsHeld' /\ StSaved'
    BY <1>2 DEF StMidnight, StOneSave, StHolds, StRowsHeld, StMarked, StSaved, StRowCurrent,
       StDayKept, StKept, StSaving
  <2>3. StDaysHeld'
    BY <1>2, StBounds DEF StMidnight, StDaysHeld, StSaving, StTypeOK, StDayCount
  <2>4. QED
    BY <2>1, <2>2, <2>3
<1>3. ASSUME NEW r \in StRequests, StDayAdd(r) PROVE StInv'
  <2>1. StTypeOK'
    <3>1. stDaily' \in StDayCount
      BY <1>3, StBounds DEF StDayAdd, StTypeOK, StDayCount
    <3>2. stReq' \in [StRequests -> StCount]
      BY <1>3 DEF StDayAdd, StTypeOK, StCount
    <3>3. QED
      BY <1>3, <3>1, <3>2 DEF StDayAdd, StTypeOK
  <2>2. StOneSave' /\ StHolds'
    BY <1>3 DEF StDayAdd, StOneSave, StHolds, StSaving, StTypeOK
  <2>3. StRowsHeld' /\ StSaved'
    <3>1. \A q \in StRequests : (stReq'[q].pc = "mark" <=> stReq[q].pc = "mark")
                                /\ stReq'[q].key = stReq[q].key
      BY <1>3 DEF StDayAdd, StTypeOK, StCount
    <3>2. QED
      BY <1>3, <3>1 DEF StDayAdd, StRowsHeld, StMarked, StSaved, StRowCurrent, StDayKept, StKept
  <2>4. StDaysHeld'
    BY <1>3 DEF StDayAdd, StDaysHeld, StSaving, StTypeOK, StDayCount
  <2>5. QED
    BY <2>1, <2>2, <2>3, <2>4
<1>4. ASSUME NEW r \in StRequests, NEW k \in StKeys, StRowGet(r, k) PROVE StInv'
  <2>1. StTypeOK'
    <3>1. (IF stCache[k] = NoRow THEN 0 ELSE stCache[k]) \in 0..StMax
      BY StBounds DEF StTypeOK, StRow, NoRow
    <3>2. QED
      BY <1>4, <3>1 DEF StRowGet, StTypeOK, StCount
  <2>2. StOneSave' /\ StHolds'
    BY <1>4 DEF StRowGet, StOneSave, StHolds, StSaving, StTypeOK
  <2>3. StRowsHeld' /\ StSaved'
    <3>1. \A q \in StRequests :
            stReq[q].pc = "mark" => stReq'[q].pc = "mark" /\ stReq'[q].key = stReq[q].key
      BY <1>4 DEF StRowGet, StTypeOK
    <3>2. QED
      BY <1>4, <3>1 DEF StRowGet, StRowsHeld, StMarked, StSaved, StRowCurrent, StDayKept, StKept
  <2>4. StDaysHeld'
    BY <1>4 DEF StRowGet, StDaysHeld, StSaving
  <2>5. QED
    BY <2>1, <2>2, <2>3, <2>4
<1>5. ASSUME NEW r \in StRequests, StRowSet(r) PROVE StInv'
  <2> DEFINE k == stReq[r].key
  <2>1. /\ k \in StKeys /\ stReq[r].n + 1 \in 0..StMax /\ stReq[r].n + 1 # NoRow
        /\ stCache' = [stCache EXCEPT ![k] = stReq[r].n + 1]
        /\ stReq'[r].pc = "mark" /\ stReq'[r].key = k
        /\ \A q \in StRequests \ {r} : stReq'[q] = stReq[q]
        /\ stReq[r].pc = "set" /\ UNCHANGED stDirty /\ UNCHANGED <<stToday, stDaily>>
    BY <1>5, StBounds DEF StRowSet, StOneSave, StTypeOK, StCount, NoRow
  <2>2. StTypeOK'
    <3>1. stCache' \in [StKeys -> StRow]
      BY <2>1, StBounds DEF StTypeOK
    <3>2. stReq' \in [StRequests -> StCount]
      BY <1>5 DEF StRowSet, StTypeOK, StCount
    <3>3. QED
      BY <1>5, <2>1, <3>1, <3>2 DEF StRowSet, StTypeOK
  <2>3. StOneSave'
    BY <1>1, <2>1 DEF StOneSave, StSaving
  <2>4. \A j \in StKeys : /\ StMarked(j) => StMarked(j)'
                          /\ stCache'[j] = stCache[j] \/ StMarked(j)'
                          /\ stCache[j] # NoRow => stCache'[j] # NoRow
    BY <1>1, <2>1 DEF StMarked, StTypeOK
  <2>5. StRowsHeld'
    BY <1>1, <2>4 DEF StRowsHeld, StTypeOK, StSave
  <2>6. StSaved'
    BY <1>1, <2>1, <2>4 DEF StSaved, StRowCurrent, StMarked, StDayKept, StKept
  <2>7. StDaysHeld' /\ StHolds'
    BY <1>1, <2>1, <2>4 DEF StDaysHeld, StHolds, StSaving
  <2>8. QED
    BY <2>2, <2>3, <2>5, <2>6, <2>7
<1>6. ASSUME NEW r \in StRequests, StRowMark(r) PROVE StInv'
  <2>1. /\ stDirty' = stDirty \cup {stReq[r].key} /\ stReq[r].key \in StKeys
        /\ stReq'[r].pc = "idle" /\ stReq[r].pc = "mark"
        /\ \A q \in StRequests \ {r} : stReq'[q] = stReq[q]
        /\ UNCHANGED <<stCache, stToday, stDaily>>
    BY <1>6 DEF StRowMark, StOneSave, StTypeOK, StCount
  <2>2. StTypeOK'
    BY <1>6, <2>1, StBounds DEF StRowMark, StTypeOK, StCount
  <2>3. StOneSave' /\ StHolds'
    BY <1>1, <2>1 DEF StOneSave, StHolds, StSaving
  <2>4. \A j \in StKeys : StMarked(j) => StMarked(j)'
    BY <2>1 DEF StMarked
  <2>5. StRowsHeld'
    BY <1>1, <2>1, <2>4 DEF StRowsHeld, StTypeOK, StSave
  <2>6. StSaved'
    BY <1>1, <2>1, <2>4 DEF StSaved, StRowCurrent, StMarked, StDayKept, StKept
  <2>7. StDaysHeld'
    BY <1>1, <2>1 DEF StDaysHeld, StSaving
  <2>8. QED
    BY <2>2, <2>3, <2>5, <2>6, <2>7
<1>7. QED
  BY <1>2, <1>3, <1>4, <1>5, <1>6

\* The first request of a day, and a saver, begin a save.
LEMMA StStarts ==
  ASSUME StInv, (\E r \in StRequests : StDayRoll(r)) \/ \E s \in StWho : StSaveStart(s)
  PROVE  StInv'
<1> USE DEF StInv
<1>1. ASSUME NEW r \in StRequests, StDayRoll(r) PROVE StInv'
  <2>0. PICK d \in 1..StDays : d = stDaily.day
    BY DEF StTypeOK, StDayCount
  <2> DEFINE new == [StIdle EXCEPT !.pc = "swap", !.day = d, !.n = stDaily.n]
  <2>1. /\ r \in StWho /\ r \notin StSavers /\ d = stDaily.day /\ stDaily.n \in 0..StMax
        /\ d # 0 /\ stDaily.n # NoRow /\ d < stToday /\ stToday \in 1..StDays
    BY <1>1, <2>0, StBounds DEF StDayRoll, StDaysHeld, StTypeOK, StDayCount, StWho, NoRow
  <2>2. /\ new.pc = "swap" /\ new.day = d /\ new.n = stDaily.n /\ new.keys = {}
        /\ new.old = <<>> /\ \A k \in StKeys : new.rows[k] = NoRow
        /\ new \in StSave
    <3>1. new \in StSave
      <4>1. d \in 0..StDays /\ stDaily.n \in 0..StMax
        BY <2>1
      <4>2. QED
        BY <4>1, StIdleHolds DEF StSave
    <3>2. QED
      BY <3>1, StIdleHolds DEF StIdle
  <2>3. /\ stReq[r].pc = "idle" /\ ~StSaving(r) /\ stSave[r] = StIdle
        /\ stSave' = [stSave EXCEPT ![r] = new]
        /\ stSave'[r] = new /\ \A t \in StWho \ {r} : stSave'[t] = stSave[t]
        /\ stReq'[r].pc = "row" /\ \A q \in StRequests \ {r} : stReq'[q] = stReq[q]
        /\ stFinal'[d] = stDaily.n
        /\ \A e \in 1..StDays \ {d} : stFinal'[e] = stFinal[e]
        /\ stDaily'.day = stToday
        /\ UNCHANGED <<stCache, stDirty, stRows, stToday, stDayRows, stOver>>
    BY <1>1, <2>1 DEF StDayRoll, StOneSave, StTypeOK, StCount
  <2>4. ~stMixed' => ~stMixed /\ \A t \in StWho \ {r} : ~StSaving(t)
    BY <1>1 DEF StDayRoll, StMix
  <2>5. StTypeOK'
    <3>1. stReq' \in [StRequests -> StCount]
      BY <1>1 DEF StDayRoll, StTypeOK, StCount
    <3>2. stDaily' \in StDayCount
      BY <1>1, <2>1, StBounds DEF StDayRoll, StTypeOK, StDayCount
    <3>3. stFinal' \in [1..StDays -> StRow]
      BY <1>1, <2>1, StBounds DEF StDayRoll, StTypeOK
    <3>4. stMixed' \in BOOLEAN
      BY <1>1, Zenon DEF StDayRoll, StMix, StTypeOK
    <3>5. stSave' \in [StWho -> StSave]
      BY <2>2, <2>3 DEF StTypeOK
    <3>6. QED
      BY <2>3, <3>1, <3>2, <3>3, <3>4, <3>5 DEF StTypeOK
  <2>6. StOneSave'
    <3>1. \A t \in StWho \ {r} : StSaving(t)' <=> StSaving(t)
      BY <2>3 DEF StSaving
    <3>2. QED
      BY <2>1, <2>3, <2>4, <3>1 DEF StOneSave, StSaving
  <2>7. StHolds'
    BY <2>1, <2>2, <2>3 DEF StHolds
  <2>8. \A k \in StKeys : StMarked(k) => StMarked(k)'
    BY <2>3 DEF StMarked
  <2>9. StRowsHeld'
    BY <2>2, <2>3, <2>4, <2>8 DEF StRowsHeld, StTypeOK, StSave
  <2>10. StDaysHeld'
    <3>1. \A i \in DOMAIN stOver : stOver[i].day \in 1..StDays /\ stOver[i].n # NoRow
      <4>1. \A i \in DOMAIN stOver : stOver[i] \in StDayCount
        BY DEF StTypeOK
      <4>2. QED
        BY <4>1, StBounds DEF StDayCount
    <3>2. \A e \in 1..StDays : stFinal[e] # NoRow => e # d
      BY <2>1 DEF StDaysHeld, StTypeOK, StDayCount
    <3>3. ~stMixed' => \A i \in DOMAIN stOver' : stOver'[i].n = stFinal'[stOver'[i].day]
      BY <2>3, <2>4, <3>1, <3>2 DEF StDaysHeld
    <3>4. \A e \in 1..StDays : stFinal'[e] # NoRow => e < stDaily'.day
      BY <2>1, <2>3 DEF StDaysHeld, StTypeOK, StDayCount
    <3>5. ~stMixed' => \A t \in StWho \ {r} : stSave'[t] = StIdle
      BY <2>3, <2>4 DEF StOneSave
    <3>6. QED
      BY <2>1, <2>2, <2>3, <3>3, <3>4, <3>5, StIdleHolds DEF StDaysHeld, StSaving
  <2>11. StRowCurrent'
    BY <2>3, <2>4, <2>8, StIdleHolds DEF StSaved, StRowCurrent, StMarked
  <2>12. StDayKept'
    <3>1. StKept(d)'
      BY <2>1, <2>2, <2>3 DEF StKept
    <3>2. ASSUME NEW e \in 1..StDays \ {d}, StKept(e) PROVE StKept(e)'
      <4>1. e # 0 /\ stFinal'[e] = stFinal[e]
        BY <2>3
      <4>2. CASE \E s \in StWho : stSave[s].day = e /\ stSave[s].n = stFinal[e]
        BY <2>3, <4>1, <4>2, StIdleHolds DEF StKept
      <4>3. CASE \E s \in StWho : \E i \in 1..Len(stSave[s].old) :
                   stSave[s].old[i] = [day |-> e, n |-> stFinal[e]]
        BY <2>3, <4>1, <4>3, StIdleHolds DEF StKept
      <4>4. QED
        BY <2>3, <3>2, <4>1, <4>2, <4>3 DEF StKept
    <3>3. QED
      BY <2>3, <2>4, <3>1, <3>2 DEF StSaved, StDayKept
  <2>13. QED
    BY <2>5, <2>6, <2>7, <2>9, <2>10, <2>11, <2>12 DEF StSaved
<1>2. ASSUME NEW s \in StWho, StSaveStart(s) PROVE StInv'
  <2> DEFINE new == [StIdle EXCEPT !.pc = "old", !.old = stOver]
  <2>1. /\ new.pc = "old" /\ new.day = 0 /\ new.keys = {} /\ new.old = stOver
        /\ \A k \in StKeys : new.rows[k] = NoRow
        /\ new \in StSave
    BY StIdleHolds DEF StSave, StIdle, StTypeOK
  <2>2. /\ s \in StSavers /\ s \notin StRequests /\ stSave[s] = StIdle /\ ~StSaving(s)
        /\ stSave' = [stSave EXCEPT ![s] = new]
        /\ stSave'[s] = new /\ \A t \in StWho \ {s} : stSave'[t] = stSave[t]
        /\ stOver' = <<>>
        /\ UNCHANGED <<stCache, stDirty, stRows, stToday, stDaily, stDayRows, stReq, stFinal>>
    BY <1>2, StBounds DEF StSaveStart, StOneSave, StSaving, StTypeOK
  <2>3. ~stMixed' => ~stMixed /\ \A t \in StWho \ {s} : ~StSaving(t)
    BY <1>2 DEF StSaveStart, StMix
  <2>4. StTypeOK'
    <3>1. stMixed' \in BOOLEAN
      BY <1>2, Zenon DEF StSaveStart, StMix, StTypeOK
    <3>2. stSave' \in [StWho -> StSave] /\ stOver' \in Seq(StDayCount)
      BY <2>1, <2>2 DEF StTypeOK
    <3>3. QED
      BY <2>2, <3>1, <3>2 DEF StTypeOK
  <2>5. StOneSave'
    <3>1. \A t \in StWho \ {s} : StSaving(t)' <=> StSaving(t)
      BY <2>2 DEF StSaving
    <3>2. QED
      BY <2>1, <2>2, <2>3, <3>1 DEF StOneSave, StSaving
  <2>6. StHolds'
    BY <2>1, <2>2 DEF StHolds
  <2>7. StRowsHeld' /\ StRowCurrent'
    BY <2>1, <2>2, <2>3, StIdleHolds DEF StRowsHeld, StSaved, StRowCurrent, StMarked
  <2>8. StDaysHeld'
    BY <2>1, <2>2, <2>3 DEF StDaysHeld, StSaving
  <2>9. StDayKept'
    <3>1. ASSUME NEW e \in 1..StDays, StKept(e) PROVE StKept(e)'
      <4>1. e # 0
        OBVIOUS
      <4>2. CASE \E i \in 1..Len(stOver) : stOver[i] = [day |-> e, n |-> stFinal[e]]
        <5>1. \E i \in 1..Len(stSave'[s].old) : stSave'[s].old[i] = [day |-> e, n |-> stFinal'[e]]
          BY ZenonT(60), <2>1, <2>2, <4>2
        <5>2. QED
          BY <5>1 DEF StKept
      <4>3. CASE \E t \in StWho : stSave[t].day = e /\ stSave[t].n = stFinal[e]
        BY <2>2, <4>1, <4>3, StIdleHolds DEF StKept
      <4>4. CASE \E t \in StWho : \E i \in 1..Len(stSave[t].old) :
                   stSave[t].old[i] = [day |-> e, n |-> stFinal[e]]
        BY <2>2, <4>4, StIdleHolds DEF StKept
      <4>5. QED
        BY <2>2, <3>1, <4>2, <4>3, <4>4 DEF StKept
    <3>2. QED
      BY <2>2, <2>3, <3>1 DEF StSaved, StDayKept
  <2>10. QED
    BY <2>4, <2>5, <2>6, <2>7, <2>8, <2>9 DEF StSaved
<1>3. QED
  BY <1>1, <1>2

\* What a step of the save s leaves as it was.
StStep(s, new) ==
  /\ UNCHANGED <<stCache, stToday, stDaily, stReq, stFinal, stMixed>>
  /\ stSave' = [stSave EXCEPT ![s] = new]

LEMMA StStepMeans ==
  ASSUME StInv, NEW s \in StWho, NEW new \in StSave, StStep(s, new), StSaving(s)
  PROVE  /\ stSave' \in [StWho -> StSave] /\ stSave'[s] = new
         /\ \A t \in StWho \ {s} : stSave'[t] = stSave[t]
         /\ ~stMixed => \A t \in StWho \ {s} : stSave[t] = StIdle /\ stSave'[t] = StIdle
         /\ (new = StIdle \/ new.pc # "idle") => StOneSave'
<1>1. /\ stSave' \in [StWho -> StSave] /\ stSave'[s] = new
      /\ \A t \in StWho \ {s} : stSave'[t] = stSave[t]
  BY DEF StStep, StInv, StTypeOK
<1>2. ~stMixed => \A t \in StWho \ {s} : stSave[t] = StIdle
  BY StOthersIdle
<1>3. ASSUME new = StIdle \/ new.pc # "idle" PROVE StOneSave'
  <2>1. \A t \in StWho : StSaving(t)' => StSaving(t)
    BY <1>1 DEF StSaving
  <2>2. UNCHANGED <<stReq, stMixed>>
    BY DEF StStep
  <2>3. ~stMixed' => \A t, u \in StWho : StSaving(t)' /\ StSaving(u)' => t = u
    BY <2>1, <2>2 DEF StInv, StOneSave
  <2>4. \A t \in StWho : ~StSaving(t)' => stSave'[t] = StIdle
    BY <1>1, <1>3 DEF StInv, StOneSave, StSaving
  <2>5. \A r \in StRequests : StSaving(r)' => stReq'[r].pc = "row"
    BY <2>1, <2>2 DEF StInv, StOneSave, StWho
  <2>6. \A r \in StRequests : stReq'[r].pc \in {"set", "mark"} => stReq'[r].key \in StKeys
    BY <2>2 DEF StInv, StOneSave
  <2>7. QED
    BY <2>3, <2>4, <2>5, <2>6 DEF StOneSave
<1>4. QED
  BY <1>1, <1>2, <1>3

\* A save of a saver: the days whose save had failed, then the day that runs.
LEMMA StOldDays ==
  ASSUME StInv, NEW s \in StWho, StOldDay(s) \/ StOldDayFails(s) \/ StCopyDay(s)
  PROVE  StInv'
<1> USE DEF StInv
<1>1. /\ StSaving(s) /\ stSave[s].pc = "old" /\ s \in StSavers /\ s \notin StRequests
      /\ stSave[s] \in StSave /\ stSave[s].keys = {} /\ stSave[s].old \in Seq(StDayCount)
      /\ \A k \in StKeys : stSave[s].rows[k] = NoRow
      /\ UNCHANGED <<stCache, stDirty, stRows, stToday, stDaily, stReq, stFinal, stMixed>>
  BY StBounds DEF StOldDay, StOldDayFails, StCopyDay, StSaving, StHolds, StTypeOK, StSave
<1>2. CASE StOldDay(s)
  <2>1. PICK d \in StDayCount : d = Head(stSave[s].old)
    BY <1>1, <1>2 DEF StOldDay
  <2>2. PICK new \in StSave : new = [stSave[s] EXCEPT !.old = Tail(@)]
    <3>1. Tail(stSave[s].old) \in Seq(StDayCount)
      BY <1>1, <1>2 DEF StOldDay
    <3>2. [stSave[s] EXCEPT !.old = Tail(@)] \in StSave
      BY <1>1, <3>1 DEF StSave
    <3>3. QED
      BY <3>2
  <2>3. /\ new.pc = "old" /\ new.day = stSave[s].day /\ new.n = stSave[s].n
        /\ new.keys = {} /\ new.rows = stSave[s].rows
        /\ new.old = Tail(stSave[s].old) /\ Len(new.old) = Len(stSave[s].old) - 1
        /\ \A i \in 1..Len(new.old) : new.old[i] = stSave[s].old[i + 1]
    BY <1>1, <1>2, <2>2 DEF StOldDay, StSave
  <2>4. StStep(s, new) /\ stDayRows' = [stDayRows EXCEPT ![d.day] = d.n] /\ UNCHANGED stOver
    BY <1>2, <2>1, <2>2 DEF StOldDay, StStep
  <2>5. /\ stSave' \in [StWho -> StSave] /\ stSave'[s] = new
        /\ \A t \in StWho \ {s} : stSave'[t] = stSave[t]
        /\ ~stMixed => \A t \in StWho \ {s} : stSave[t] = StIdle /\ stSave'[t] = StIdle
        /\ StOneSave'
    BY <1>1, <2>3, <2>4, StStepMeans
  <2>6. StTypeOK'
    <3>1. stDayRows' \in [1..StDays -> StRow]
      BY <2>1, <2>4, StBounds DEF StTypeOK, StDayCount
    <3>2. QED
      BY <1>1, <2>4, <2>5, <3>1 DEF StTypeOK
  <2>7. StHolds'
    BY <1>1, <2>3, <2>5 DEF StHolds
  <2>8. StRowsHeld' /\ StRowCurrent'
    BY <1>1, <2>3, <2>5 DEF StRowsHeld, StSaved, StRowCurrent, StMarked
  <2>9. StDaysHeld'
    <3>1. \A i \in DOMAIN new.old : i \in 1..Len(new.old) /\ i + 1 \in DOMAIN stSave[s].old
      BY <1>1, <2>2, <2>3 DEF StSave
    <3>2. ~stMixed => \A i \in DOMAIN new.old : new.old[i].n = stFinal[new.old[i].day]
      BY <2>3, <3>1 DEF StDaysHeld
    <3>3. QED
      <4>1. ~stMixed => \A t \in StWho : \A i \in DOMAIN stSave'[t].old :
              stSave'[t].old[i].n = stFinal'[stSave'[t].old[i].day]
        BY <1>1, <2>5, <3>2, StIdleHolds
      <4>2. ~stMixed => \A t \in StWho : stSave'[t].pc \in {"idle", "old"}
        BY <2>3, <2>5, StIdleHolds
      <4>3. QED
        BY <1>1, <2>4, <4>1, <4>2 DEF StDaysHeld, StSaving
  <2>10. StDayKept'
    <3>1. ~stMixed => d.n = stFinal[d.day]
      BY <1>1, <1>2, <2>1 DEF StDaysHeld, StOldDay
    <3>2. ASSUME ~stMixed, NEW e \in 1..StDays, StKept(e) PROVE StKept(e)'
      <4>1. stDayRows[e] = stFinal[e] => stDayRows'[e] = stFinal'[e]
        BY <1>1, <2>1, <2>4, <3>1, <3>2 DEF StTypeOK, StDayCount
      <4>2. CASE \E i \in 1..Len(stSave[s].old) : stSave[s].old[i] = [day |-> e, n |-> stFinal[e]]
        <5>1. PICK i \in 1..Len(stSave[s].old) : stSave[s].old[i] = [day |-> e, n |-> stFinal[e]]
          BY <4>2
        <5>2. CASE i = 1
          BY <1>1, <2>1, <2>4, <5>1, <5>2 DEF StKept, StTypeOK
        <5>3. CASE i # 1
          <6>1. i - 1 \in 1..Len(new.old) /\ new.old[i - 1] = [day |-> e, n |-> stFinal[e]]
            BY <1>1, <2>3, <5>1, <5>3
          <6>2. QED
            BY <1>1, <2>5, <6>1 DEF StKept
        <5>4. QED
          BY <5>2, <5>3
      <4>3. CASE \E t \in StWho \ {s} : \E i \in 1..Len(stSave[t].old) :
                   stSave[t].old[i] = [day |-> e, n |-> stFinal[e]]
        BY <1>1, <2>5, <4>3 DEF StKept
      <4>4. CASE \E t \in StWho : stSave[t].day = e /\ stSave[t].n = stFinal[e]
        BY <1>1, <2>3, <2>5, <4>4 DEF StKept
      <4>5. CASE \E i \in 1..Len(stOver) : stOver[i] = [day |-> e, n |-> stFinal[e]]
        BY <1>1, <2>4, <4>5 DEF StKept
      <4>6. QED
        BY <1>1, <3>2, <4>1, <4>2, <4>3, <4>4, <4>5 DEF StKept
    <3>3. QED
      BY <1>1, <3>2 DEF StSaved, StDayKept
  <2>11. QED
    BY <2>5, <2>6, <2>7, <2>8, <2>9, <2>10 DEF StSaved
<1>3. CASE StOldDayFails(s)
  <2>1. StStep(s, StIdle) /\ stOver' = stSave[s].old \o stOver /\ UNCHANGED stDayRows
    BY <1>3 DEF StOldDayFails, StStep
  <2>2. /\ stSave' \in [StWho -> StSave] /\ stSave'[s] = StIdle
        /\ \A t \in StWho \ {s} : stSave'[t] = stSave[t]
        /\ ~stMixed => \A t \in StWho \ {s} : stSave[t] = StIdle /\ stSave'[t] = StIdle
        /\ StOneSave'
    BY <1>1, <2>1, StIdleHolds, StStepMeans
  <2>3. /\ stOver' \in Seq(StDayCount) /\ Len(stOver') = Len(stSave[s].old) + Len(stOver)
        /\ \A i \in 1..Len(stSave[s].old) : stOver'[i] = stSave[s].old[i]
        /\ \A i \in 1..Len(stOver) : stOver'[Len(stSave[s].old) + i] = stOver[i]
    BY <1>1, <2>1 DEF StTypeOK
  <2>4. StTypeOK'
    BY <1>1, <2>1, <2>2, <2>3 DEF StTypeOK
  <2>5. StHolds'
    BY <1>1, <2>2, StIdleHolds DEF StHolds
  <2>6. StRowsHeld' /\ StRowCurrent'
    BY <1>1, <2>2, StIdleHolds DEF StRowsHeld, StSaved, StRowCurrent, StMarked
  <2>7. StDaysHeld'
    <3>1. ASSUME ~stMixed, NEW i \in DOMAIN stOver' PROVE stOver'[i].n = stFinal[stOver'[i].day]
      <4>1. Len(stSave[s].old) \in Nat /\ Len(stOver) \in Nat /\ i \in 1..Len(stOver')
            /\ DOMAIN stOver = 1..Len(stOver) /\ DOMAIN stSave[s].old = 1..Len(stSave[s].old)
        BY <1>1, <2>3 DEF StTypeOK
      <4>2. CASE i \in 1..Len(stSave[s].old)
        BY <2>3, <3>1, <4>1, <4>2 DEF StDaysHeld
      <4>3. CASE i \notin 1..Len(stSave[s].old)
        <5>1. PICK j \in 1..Len(stOver) : i = Len(stSave[s].old) + j
          <6>1. i - Len(stSave[s].old) \in 1..Len(stOver)
            <7>1. Len(stOver') = Len(stSave[s].old) + Len(stOver)
              BY <2>3
            <7>2. QED
              BY SMTT(30), <4>1, <4>3, <7>1
          <6>2. QED
            BY <4>1, <6>1
        <5>2. QED
          BY SMTT(30), <2>3, <3>1, <4>1, <5>1 DEF StDaysHeld
      <4>4. QED
        BY <4>2, <4>3
    <3>2. ~stMixed => \A t \in StWho : stSave'[t] = StIdle
      BY <2>2
    <3>3. QED
      BY <1>1, <2>1, <3>1, <3>2, StIdleHolds DEF StDaysHeld, StSaving
  <2>8. StDayKept'
    <3>1. ASSUME ~stMixed, NEW e \in 1..StDays, StKept(e) PROVE StKept(e)'
      <4>1. Len(stSave[s].old) \in Nat /\ Len(stOver) \in Nat /\ e # 0
        BY <1>1 DEF StTypeOK
      <4>2. CASE \E i \in 1..Len(stSave[s].old) : stSave[s].old[i] = [day |-> e, n |-> stFinal[e]]
        <5>1. PICK i \in 1..Len(stSave[s].old) : stSave[s].old[i] = [day |-> e, n |-> stFinal[e]]
          BY <4>2
        <5>2. i \in 1..Len(stOver')
          BY <2>3, <4>1
        <5>3. QED
          BY <1>1, <2>3, <5>1, <5>2 DEF StKept
      <4>3. CASE \E i \in 1..Len(stOver) : stOver[i] = [day |-> e, n |-> stFinal[e]]
        <5>1. PICK i \in 1..Len(stOver) : stOver[i] = [day |-> e, n |-> stFinal[e]]
          BY <4>3
        <5>2. Len(stSave[s].old) + i \in 1..Len(stOver')
          BY <2>3, <4>1
        <5>3. QED
          BY <1>1, <2>3, <5>1, <5>2 DEF StKept
      <4>4. CASE \E t \in StWho \ {s} : \E i \in 1..Len(stSave[t].old) :
                   stSave[t].old[i] = [day |-> e, n |-> stFinal[e]]
        BY <1>1, <2>2, <4>4 DEF StKept
      <4>5. CASE \E t \in StWho : stSave[t].day = e /\ stSave[t].n = stFinal[e]
        BY <1>1, <2>2, <4>1, <4>5 DEF StKept, StHolds
      <4>6. QED
        BY <1>1, <2>1, <3>1, <4>2, <4>3, <4>4, <4>5 DEF StKept
    <3>2. QED
      BY <1>1, <3>1 DEF StSaved, StDayKept
  <2>9. QED
    BY <2>2, <2>4, <2>5, <2>6, <2>7, <2>8 DEF StSaved
<1>4. CASE StCopyDay(s)
  <2>1. PICK new \in StSave :
          new = [stSave[s] EXCEPT !.pc = "swap", !.day = stDaily.day, !.n = stDaily.n]
    <3>1. stDaily.day \in 0..StDays /\ stDaily.n \in 0..StMax
      BY StBounds DEF StTypeOK, StDayCount
    <3>2. [stSave[s] EXCEPT !.pc = "swap", !.day = stDaily.day, !.n = stDaily.n] \in StSave
      BY <1>1, <3>1 DEF StSave
    <3>3. QED
      BY <3>2
  <2>2. /\ new.pc = "swap" /\ new.day = stDaily.day /\ new.n = stDaily.n /\ new.day # 0
        /\ new.keys = {} /\ new.rows = stSave[s].rows /\ new.old = <<>> /\ stSave[s].old = <<>>
        /\ stSave[s].day = 0 /\ stDaily.day \in 1..StDays
    BY <1>1, <1>4, <2>1 DEF StCopyDay, StSave, StTypeOK, StDayCount, StHolds
  <2>3. StStep(s, new) /\ UNCHANGED <<stOver, stDayRows>>
    BY <1>4, <2>1, <1>1 DEF StCopyDay, StStep, StTypeOK
  <2>4. /\ stSave' \in [StWho -> StSave] /\ stSave'[s] = new
        /\ \A t \in StWho \ {s} : stSave'[t] = stSave[t]
        /\ ~stMixed => \A t \in StWho \ {s} : stSave[t] = StIdle /\ stSave'[t] = StIdle
        /\ StOneSave'
    BY <1>1, <2>2, <2>3, StStepMeans
  <2>5. StTypeOK'
    BY <1>1, <2>3, <2>4 DEF StTypeOK
  <2>6. StHolds'
    BY <1>1, <2>2, <2>4 DEF StHolds
  <2>7. StRowsHeld' /\ StRowCurrent'
    BY <1>1, <2>2, <2>4 DEF StRowsHeld, StSaved, StRowCurrent, StMarked
  <2>8. StDaysHeld'
    <3>1. stFinal[stDaily.day] = NoRow
      BY <2>2 DEF StDaysHeld
    <3>2. ~stMixed => \A t \in StWho \ {s} : stSave'[t] = StIdle
      BY <2>4
    <3>3. QED
      BY <1>1, <2>2, <2>3, <2>4, <3>1, <3>2, StIdleHolds DEF StDaysHeld, StSaving
  <2>9. StDayKept'
    <3>1. ASSUME ~stMixed, NEW e \in 1..StDays, StKept(e) PROVE StKept(e)'
      <4>1. CASE \E t \in StWho : \/ stSave[t].day = e /\ stSave[t].n = stFinal[e]
                                  \/ \E i \in 1..Len(stSave[t].old) :
                                       stSave[t].old[i] = [day |-> e, n |-> stFinal[e]]
        <5>1. PICK t \in StWho : \/ stSave[t].day = e /\ stSave[t].n = stFinal[e]
                                 \/ \E i \in 1..Len(stSave[t].old) :
                                      stSave[t].old[i] = [day |-> e, n |-> stFinal[e]]
          BY <4>1
        <5>2. t # s
          BY <2>2, <5>1
        <5>3. QED
          BY <1>1, <2>4, <5>1, <5>2 DEF StKept
      <4>2. QED
        BY <1>1, <2>3, <3>1, <4>1 DEF StKept
    <3>2. QED
      BY <1>1, <3>1 DEF StSaved, StDayKept
  <2>10. QED
    BY <2>4, <2>5, <2>6, <2>7, <2>8, <2>9 DEF StSaved
<1>5. QED
  BY <1>2, <1>3, <1>4

\* What both kinds of save do then.
LEMMA StWrites ==
  ASSUME StInv, NEW s \in StWho,
         StSwap(s) \/ StWriteDay(s) \/ StReadRows(s) \/ StWriteRows(s)
  PROVE  StInv'
<1> USE DEF StInv
<1>1. /\ StSaving(s) /\ stSave[s].pc \in {"swap", "day", "read", "write"}
      /\ stSave[s] \in StSave /\ stSave[s].old = <<>>
      /\ stSave[s].day \in 1..StDays /\ stSave[s].n \in 0..StMax /\ stSave[s].keys \subseteq StKeys
      /\ stSave[s].rows \in [StKeys -> StRow]
      /\ UNCHANGED <<stCache, stToday, stDaily, stOver, stReq, stFinal, stMixed>>
  BY DEF StSwap, StWriteDay, StReadRows, StWriteRows, StSaving, StHolds, StTypeOK, StSave
<1>2. ASSUME NEW new \in StSave, StStep(s, new), new.pc \notin {"idle", "old"},
             new.old = <<>>, new.day = stSave[s].day, new.n = stSave[s].n,
             \A k \in StKeys : new.rows[k] # NoRow => stCache[k] # NoRow /\ k \in new.keys,
             new.pc = "swap" => new.keys = {},
             stDirty' \subseteq StKeys, stRows' \in [StKeys -> StRow],
             stDayRows' \in [1..StDays -> StRow],
             \A d \in 1..StDays : d # new.day => stDayRows'[d] = stDayRows[d],
             ~stMixed /\ new.pc \in {"read", "write", "rest"} => stDayRows'[new.day] = new.n,
             stDayRows'[new.day] \in {stDayRows[new.day], new.n}
      PROVE  /\ StTypeOK' /\ StOneSave' /\ StHolds' /\ StDaysHeld' /\ StDayKept'
             /\ stSave'[s] = new
             /\ \A t \in StWho \ {s} : stSave'[t] = stSave[t]
             /\ ~stMixed => \A t \in StWho \ {s} : stSave[t] = StIdle /\ stSave'[t] = StIdle
  <2>1. /\ stSave' \in [StWho -> StSave] /\ stSave'[s] = new
        /\ \A t \in StWho \ {s} : stSave'[t] = stSave[t]
        /\ ~stMixed => \A t \in StWho \ {s} : stSave[t] = StIdle /\ stSave'[t] = StIdle
        /\ StOneSave'
    BY <1>1, <1>2, StStepMeans
  <2>2. StTypeOK'
    BY <1>1, <1>2, <2>1 DEF StTypeOK
  <2>3. StHolds'
    BY <1>1, <1>2, <2>1 DEF StHolds
  <2>4. StDaysHeld'
    <3>1. ~stMixed => /\ s \in StRequests => new.n = stFinal[new.day]
                      /\ s \in StSavers => stFinal[new.day] = NoRow
      BY <1>1, <1>2 DEF StDaysHeld
    <3>2. \A i \in DOMAIN new.old : FALSE
      BY <1>2
    <3>3. QED
      BY <1>1, <1>2, <2>1, <3>1, <3>2, StIdleHolds DEF StDaysHeld, StSaving
  <2>5. StDayKept'
    <3>1. ASSUME ~stMixed, NEW e \in 1..StDays, stFinal[e] # NoRow, StKept(e)
          PROVE  StKept(e)'
      <4>1. CASE e = new.day /\ new.n = stFinal[e]
        BY <1>1, <1>2, <2>1, <4>1 DEF StKept
      <4>2. CASE e = new.day /\ new.n # stFinal[e]
        <5>1. s \in StSavers
          BY <1>1, <1>2, <3>1, <4>2 DEF StDaysHeld, StWho
        <5>2. QED
          BY <1>1, <1>2, <3>1, <4>2, <5>1 DEF StDaysHeld
      <4>3. CASE e # new.day
        BY <1>1, <1>2, <2>1, <3>1, <4>3 DEF StKept
      <4>4. QED
        BY <4>1, <4>2, <4>3
    <3>2. QED
      BY <1>1, <3>1 DEF StSaved, StDayKept
  <2>6. QED
    BY <2>1, <2>2, <2>3, <2>4, <2>5
<1>3. CASE StSwap(s)
  <2>1. PICK new \in StSave : new = [stSave[s] EXCEPT !.pc = "day", !.keys = stDirty]
    <3>1. [stSave[s] EXCEPT !.pc = "day", !.keys = stDirty] \in StSave
      BY <1>1 DEF StSave, StTypeOK
    <3>2. QED
      BY <3>1
  <2>2. /\ new.pc = "day" /\ new.day = stSave[s].day /\ new.n = stSave[s].n
        /\ new.keys = stDirty /\ new.rows = stSave[s].rows /\ new.old = stSave[s].old
    BY <1>1, <2>1 DEF StSave
  <2>3. /\ StStep(s, new) /\ stDirty' = {} /\ UNCHANGED <<stRows, stDayRows>>
        /\ stSave[s].keys = {}
    BY <1>3, <2>1 DEF StSwap, StStep, StHolds, StTypeOK
  <2>4. /\ StTypeOK' /\ StOneSave' /\ StHolds' /\ StDaysHeld' /\ StDayKept'
        /\ stSave'[s] = new
        /\ \A t \in StWho \ {s} : stSave'[t] = stSave[t]
        /\ ~stMixed => \A t \in StWho \ {s} : stSave[t] = StIdle /\ stSave'[t] = StIdle
    <3>1. \A k \in StKeys : new.rows[k] # NoRow => stCache[k] # NoRow /\ k \in new.keys
      BY <2>2, <2>3 DEF StHolds
    <3>2. QED
      BY <1>1, <1>2, <2>2, <2>3, <3>1 DEF StTypeOK
  <2>5. StRowsHeld'
    BY <1>1, <2>2, <2>3, <2>4, StIdleHolds DEF StRowsHeld
  <2>6. StRowCurrent'
    BY <1>1, <2>2, <2>3, <2>4, StIdleHolds DEF StSaved, StRowCurrent, StMarked
  <2>7. QED
    BY <2>4, <2>5, <2>6 DEF StSaved
<1>4. CASE StWriteDay(s)
  <2>1. PICK new \in StSave : new = [stSave[s] EXCEPT !.pc = "read"]
    BY <1>1 DEF StSave
  <2>2. /\ new.pc = "read" /\ new.day = stSave[s].day /\ new.n = stSave[s].n
        /\ new.keys = stSave[s].keys /\ new.rows = stSave[s].rows /\ new.old = stSave[s].old
    BY <1>1, <2>1 DEF StSave
  <2>3. /\ StStep(s, new) /\ UNCHANGED <<stDirty, stRows>>
        /\ stDayRows' = [stDayRows EXCEPT ![stSave[s].day] = stSave[s].n]
    BY <1>4, <2>1 DEF StWriteDay, StStep, StTypeOK
  <2>4. /\ StTypeOK' /\ StOneSave' /\ StHolds' /\ StDaysHeld' /\ StDayKept'
        /\ stSave'[s] = new
        /\ \A t \in StWho \ {s} : stSave'[t] = stSave[t]
        /\ ~stMixed => \A t \in StWho \ {s} : stSave[t] = StIdle /\ stSave'[t] = StIdle
    <3>1. \A k \in StKeys : new.rows[k] # NoRow => stCache[k] # NoRow /\ k \in new.keys
      BY <2>2 DEF StHolds
    <3>2. /\ stDayRows' \in [1..StDays -> StRow] /\ stDayRows'[new.day] = new.n
          /\ \A d \in 1..StDays : d # new.day => stDayRows'[d] = stDayRows[d]
      BY <1>1, <2>2, <2>3, StBounds DEF StTypeOK
    <3>3. QED
      BY <1>1, <1>2, <2>2, <2>3, <3>1, <3>2 DEF StTypeOK
  <2>5. StRowsHeld'
    BY <1>1, <2>2, <2>3, <2>4, StIdleHolds DEF StRowsHeld
  <2>6. StRowCurrent'
    BY <1>1, <2>2, <2>3, <2>4, StIdleHolds DEF StSaved, StRowCurrent, StMarked
  <2>7. QED
    BY <2>4, <2>5, <2>6 DEF StSaved
<1>5. CASE StReadRows(s)
  <2> DEFINE read == [k \in StKeys |-> IF k \in stSave[s].keys THEN stCache[k] ELSE NoRow]
  <2>0. read \in [StKeys -> StRow]
    BY StBounds DEF StTypeOK
  <2>1. PICK new \in StSave : new = [stSave[s] EXCEPT !.pc = "write", !.rows = read]
    <3>1. [stSave[s] EXCEPT !.pc = "write", !.rows = read] \in StSave
      BY <1>1, <2>0 DEF StSave
    <3>2. QED
      BY <3>1
  <2>2. /\ new.pc = "write" /\ new.day = stSave[s].day /\ new.n = stSave[s].n
        /\ new.keys = stSave[s].keys /\ new.rows = read /\ new.old = stSave[s].old
    BY <1>1, <2>1 DEF StSave
  <2>3. StStep(s, new) /\ UNCHANGED <<stDirty, stRows, stDayRows>> /\ stSave[s].pc = "read"
    BY <1>5, <2>1 DEF StReadRows, StStep, StTypeOK
  <2>4. /\ StTypeOK' /\ StOneSave' /\ StHolds' /\ StDaysHeld' /\ StDayKept'
        /\ stSave'[s] = new
        /\ \A t \in StWho \ {s} : stSave'[t] = stSave[t]
        /\ ~stMixed => \A t \in StWho \ {s} : stSave[t] = StIdle /\ stSave'[t] = StIdle
    <3>1. \A k \in StKeys : new.rows[k] # NoRow => stCache[k] # NoRow /\ k \in new.keys
      BY <2>2
    <3>2. ~stMixed => stDayRows[new.day] = new.n
      BY <1>1, <2>2, <2>3 DEF StDaysHeld, StSaving
    <3>3. QED
      BY <1>1, <1>2, <2>2, <2>3, <3>1, <3>2 DEF StTypeOK
  <2>5. StRowsHeld'
    BY <1>1, <2>2, <2>3, <2>4, StIdleHolds DEF StRowsHeld
  <2>6. StRowCurrent'
    BY <1>1, <2>2, <2>3, <2>4, StIdleHolds DEF StSaved, StRowCurrent, StMarked
  <2>7. QED
    BY <2>4, <2>5, <2>6 DEF StSaved
<1>6. CASE StWriteRows(s)
  <2>1. PICK new \in StSave : new = [stSave[s] EXCEPT !.pc = "rest"]
    BY <1>1 DEF StSave
  <2>2. /\ new.pc = "rest" /\ new.day = stSave[s].day /\ new.n = stSave[s].n
        /\ new.keys = stSave[s].keys /\ new.rows = stSave[s].rows /\ new.old = stSave[s].old
    BY <1>1, <2>1 DEF StSave
  <2>3. /\ StStep(s, new) /\ UNCHANGED <<stDirty, stDayRows>> /\ stSave[s].pc = "write"
        /\ stRows' = [k \in StKeys |-> IF stSave[s].rows[k] = NoRow THEN stRows[k]
                                                                  ELSE stSave[s].rows[k]]
    BY <1>6, <2>1 DEF StWriteRows, StStep, StTypeOK
  <2>4. /\ StTypeOK' /\ StOneSave' /\ StHolds' /\ StDaysHeld' /\ StDayKept'
        /\ stSave'[s] = new
        /\ \A t \in StWho \ {s} : stSave'[t] = stSave[t]
        /\ ~stMixed => \A t \in StWho \ {s} : stSave[t] = StIdle /\ stSave'[t] = StIdle
    <3>1. \A k \in StKeys : new.rows[k] # NoRow => stCache[k] # NoRow /\ k \in new.keys
      BY <2>2 DEF StHolds
    <3>2. ~stMixed => stDayRows[new.day] = new.n
      BY <1>1, <2>2, <2>3 DEF StDaysHeld, StSaving
    <3>3. stRows' \in [StKeys -> StRow]
      BY <1>1, <2>3 DEF StTypeOK
    <3>4. QED
      BY <1>1, <1>2, <2>2, <2>3, <3>1, <3>2, <3>3 DEF StTypeOK
  <2>5. \A k \in StKeys : /\ k \notin stSave[s].keys => stRows'[k] = stRows[k]
                          /\ stCache[k] = NoRow => stRows'[k] = NoRow
    BY <2>3 DEF StHolds, StRowsHeld
  <2>6. StRowsHeld'
    <3>1. ASSUME ~stMixed, NEW k \in stSave[s].keys
          PROVE  stRows'[k] = stCache[k] \/ StMarked(k)
      <4>1. stSave[s].rows[k] = stCache[k] \/ StMarked(k)
        BY <1>1, <2>3, <3>1 DEF StRowsHeld
      <4>2. stRows'[k] = IF stSave[s].rows[k] = NoRow THEN stRows[k] ELSE stSave[s].rows[k]
        BY <1>1, <2>3
      <4>3. QED
        BY <1>1, <4>1, <4>2 DEF StRowsHeld
    <3>2. \A k \in StKeys : StMarked(k)' <=> StMarked(k)
      BY <1>1, <2>3 DEF StMarked
    <3>3. QED
      BY <1>1, <2>2, <2>4, <2>5, <3>1, <3>2, StIdleHolds DEF StRowsHeld
  <2>7. StRowCurrent'
    BY <1>1, <2>2, <2>3, <2>4, <2>5, StIdleHolds DEF StSaved, StRowCurrent, StMarked
  <2>8. QED
    BY <2>4, <2>6, <2>7 DEF StSaved
<1>7. QED
  BY <1>3, <1>4, <1>5, <1>6

\* A save ends, or fails and puts back what it had taken.
LEMMA StSaveEnds ==
  ASSUME StInv, NEW s \in StWho, StSaveDone(s) \/ StSaveFails(s)
  PROVE  StInv'
<1> USE DEF StInv
<1> DEFINE own == [day |-> stSave[s].day, n |-> stSave[s].n]
<1>1. /\ StSaving(s) /\ stSave[s].pc \in {"day", "write", "rest"}
      /\ stSave[s] \in StSave /\ stSave[s].old = <<>> /\ stSave[s].keys \subseteq StKeys
      /\ stSave[s].day \in 1..StDays /\ stSave[s].n \in 0..StMax /\ own \in StDayCount
      /\ StStep(s, StIdle) /\ UNCHANGED <<stRows, stDayRows>>
      /\ UNCHANGED <<stCache, stToday, stDaily, stReq, stFinal, stMixed>>
  BY DEF StSaveDone, StSaveFails, StSaving, StHolds, StTypeOK, StSave, StDayCount, StStep
<1>2. \/ stSave[s].pc = "rest" /\ UNCHANGED <<stDirty, stOver>>
      \/ /\ stDirty' = stDirty \cup stSave[s].keys
         /\ stOver' = IF s \in StRequests THEN Append(stOver, own) ELSE stOver
  BY DEF StSaveDone, StSaveFails
<1>3. /\ stSave' \in [StWho -> StSave] /\ stSave'[s] = StIdle
      /\ \A t \in StWho \ {s} : stSave'[t] = stSave[t]
      /\ ~stMixed => \A t \in StWho : stSave'[t] = StIdle
      /\ ~stMixed => \A t \in StWho \ {s} : stSave[t] = StIdle
      /\ StOneSave'
  BY <1>1, StIdleHolds, StStepMeans
<1>4. /\ stOver' \in Seq(StDayCount) /\ Len(stOver) \in Nat /\ Len(stOver') >= Len(stOver)
      /\ \A i \in 1..Len(stOver) : stOver'[i] = stOver[i]
      /\ \A i \in 1..Len(stOver') : i \in 1..Len(stOver) \/ (s \in StRequests /\ stOver'[i] = own)
  <2>1. stOver \in Seq(StDayCount)
    BY DEF StTypeOK
  <2>2. CASE UNCHANGED stOver
    BY <2>1, <2>2
  <2>3. CASE s \in StRequests /\ stOver' = Append(stOver, own)
    BY <1>1, <2>1, <2>3
  <2>4. QED
    BY <1>2, <2>2, <2>3
<1>5. StTypeOK'
  BY <1>1, <1>2, <1>3, <1>4 DEF StTypeOK
<1>6. StHolds'
  BY <1>1, <1>3, StIdleHolds DEF StHolds
<1>7. /\ \A k \in StKeys : StMarked(k) => StMarked(k)'
      /\ ~stMixed => \A k \in stSave[s].keys : stRows[k] = stCache[k] \/ StMarked(k)'
  <2>1. \A k \in StKeys : StMarked(k) => StMarked(k)'
    BY <1>1, <1>2 DEF StMarked
  <2>2. QED
    BY <1>1, <1>2, <2>1 DEF StMarked, StRowsHeld
<1>8. StRowsHeld'
  BY <1>1, <1>3, StIdleHolds DEF StRowsHeld
<1>9. StRowCurrent'
  <2>1. ASSUME ~stMixed, NEW k \in StKeys, \E t \in StWho : k \in stSave[t].keys
        PROVE  k \in stSave[s].keys
    BY <1>3, <2>1, StIdleHolds
  <2>2. QED
    BY <1>1, <1>7, <2>1 DEF StSaved, StRowCurrent
<1>10. StDaysHeld'
  <2>1. ~stMixed /\ s \in StRequests => own.n = stFinal[own.day]
    BY <1>1 DEF StDaysHeld
  <2>2. ~stMixed => \A i \in DOMAIN stOver' : stOver'[i].n = stFinal[stOver'[i].day]
    BY SMTT(30), <1>4, <2>1 DEF StDaysHeld, StTypeOK
  <2>3. QED
    BY <1>1, <1>3, <2>2, StIdleHolds DEF StDaysHeld, StSaving
<1>11. StDayKept'
  <2>1. ASSUME ~stMixed, NEW e \in 1..StDays, stFinal[e] # NoRow, StKept(e)
        PROVE  StKept(e)'
    <3>1. CASE stDayRows[e] = stFinal[e]
      BY <1>1, <3>1 DEF StKept
    <3>2. CASE \E i \in 1..Len(stOver) : stOver[i] = [day |-> e, n |-> stFinal[e]]
      <4>1. PICK i \in 1..Len(stOver) : stOver[i] = [day |-> e, n |-> stFinal[e]]
        BY <3>2
      <4>2. i \in 1..Len(stOver') /\ stOver'[i] = [day |-> e, n |-> stFinal'[e]]
        BY <1>1, <1>4, <4>1
      <4>3. QED
        BY <4>2 DEF StKept
    <3>3. CASE /\ \E t \in StWho : \/ stSave[t].day = e /\ stSave[t].n = stFinal[e]
                                   \/ \E i \in 1..Len(stSave[t].old) :
                                        stSave[t].old[i] = [day |-> e, n |-> stFinal[e]]
               /\ stDayRows[e] # stFinal[e]
      <4>1. stSave[s].day = e /\ stSave[s].n = stFinal[e]
        BY <1>1, <1>3, <2>1, <3>3, StIdleHolds
      <4>2. s \in StRequests /\ stSave[s].pc # "rest"
        BY <1>1, <2>1, <3>3, <4>1 DEF StDaysHeld, StWho
      <4>3. stOver' = Append(stOver, own) /\ own = [day |-> e, n |-> stFinal[e]]
        BY <1>2, <4>1, <4>2
      <4>4. Len(stOver) + 1 \in 1..Len(stOver') /\ stOver'[Len(stOver) + 1] = own
        BY <1>1, <1>4, <4>3 DEF StTypeOK
      <4>5. QED
        BY <1>1, <4>3, <4>4 DEF StKept
    <3>4. QED
      BY <2>1, <3>1, <3>2, <3>3 DEF StKept
  <2>2. QED
    BY <1>1, <2>1 DEF StSaved, StDayKept
<1>12. QED
  BY <1>3, <1>5, <1>6, <1>8, <1>9, <1>10, <1>11 DEF StSaved

\* StInv holds in every state of the statistics (stats.go).
THEOREM StInvariance == StSpec => []StInv
<1>1. StInv /\ [StNext]_stVars => StInv'
  <2>1. ASSUME StInv, UNCHANGED stVars PROVE StInv'
    BY SMTT(30), <2>1 DEF stVars, StInv, StTypeOK, StOneSave, StHolds, StRowsHeld, StDaysHeld, StSaved,
       StRowCurrent, StDayKept, StKept, StMarked, StSaving
  <2>2. QED
    BY <2>1, StCounting, StStarts, StOldDays, StWrites, StSaveEnds DEF StNext
<1>2. QED
  BY StInitially, <1>1, PTL DEF StSpec

\* The counters, marks and saves keep their shape.
THEOREM StTypeCorrect == StSpec => []StTypeOK
<1>1. StInv => StTypeOK
  BY DEF StInv
<1>2. QED
  BY <1>1, StInvariance, PTL

\* Where no two saves overlapped, each counter is in the table, in a save on its way or
\* marked for the next save, whatever updates come during one (stats.go).
THEOREM NothingIsLost == StSpec => []StSaved
<1>1. StInv => StSaved
  BY DEF StInv
<1>2. QED
  BY <1>1, StInvariance, PTL

-----------------------------------------------------------------------------
(* ---- the relay log (RelayLog) ---- *)

LogInFlight(f) == logFlush[f].pc \in {"insert", "remove"}

LogWaits == {"idle", "loop", "cleanup", "next", "gone"}

LogFlushing == [pc : LogWaits \cup {"insert", "remove"}, batch : Seq(LogIds), left : Int]

\* Of the types only what the argument needs.
LogShape ==
  /\ logNext \in Nat
  /\ logAdd = [w \in LogWriters |->
                 [pc |-> logAdd[w].pc, id |-> logAdd[w].id, keep |-> logAdd[w].keep]]
  /\ logPending \in Seq(LogIds)
  /\ logFlush \in [LogFlushers -> LogFlushing]
  /\ logRead = [r \in LogReaders |-> logRead[r]]

\* The flush lock is held by the flusher with a batch in flight, or by a clear.
LogLocked ==
  /\ \A f \in LogFlushers : LogInFlight(f) <=> logFlushLock = f
  /\ logClear # "idle" <=> logFlushLock = "clear"

\* The goroutine of the shutdown hooks does nothing before the shutdown.
LogHooked == logPhase = "up" => logFlush["main"].pc = "idle"

\* An ID is drawn once: one that is being added is not accepted yet, nor added twice.
LogDrawn ==
  /\ \A id \in logAccepted : id \in LogIds /\ id < logNext
  /\ \A w \in LogWriters : logAdd[w].pc # "idle" =>
       /\ logAdd[w].id \in LogIds /\ logAdd[w].id < logNext
       /\ logAdd[w].id \notin logAccepted
       /\ \A v \in LogWriters \ {w} : logAdd[v].pc # "idle" => logAdd[v].id # logAdd[w].id

\* The queue holds no log twice, and the batch in flight is its head.
LogQueued ==
  /\ IsInjective(logPending)
  /\ \A f \in LogFlushers : LogInFlight(f) =>
       /\ Len(logFlush[f].batch) \in 1 .. Len(logPending)
       /\ \A i \in 1 .. Len(logFlush[f].batch) : logFlush[f].batch[i] = logPending[i]

\* An accepted log is in the queue, in the table or removed; in two places only while
\* its batch is inserted and not yet taken off the queue.
LogPlaced ==
  /\ logAccepted = Ids(logPending) \cup logDb \cup logRemoved
  /\ logDb \cap logRemoved = {}
  /\ \A f \in LogFlushers :
       logFlush[f].pc = "remove" => Ids(logFlush[f].batch) \subseteq logDb \cup logRemoved
  /\ \A id \in Ids(logPending) \cap (logDb \cup logRemoved) :
       \E f \in LogFlushers : logFlush[f].pc = "remove" /\ id \in Ids(logFlush[f].batch)

\* A reader that did not find a log in the queue knows that it has left it.
LogSought ==
  \A r \in LogReaders :
    /\ logRead[r].pc \in {"recent", "row"} => logRead[r].id \in logDb \cup logRemoved
    /\ logRead[r].pc = "notfound" => logRead[r].id \in logRemoved

LogInv == LogShape /\ LogLocked /\ LogHooked /\ LogDrawn /\ LogQueued /\ LogPlaced /\ LogSought

-----------------------------------------------------------------------------
(* Sequences *)

LEMMA AppendOne ==
  ASSUME NEW S, NEW s \in Seq(S), NEW x \in S
  PROVE  /\ Append(s, x) \in Seq(S) /\ Len(Append(s, x)) = Len(s) + 1
         /\ \A i \in 1 .. Len(s) : Append(s, x)[i] = s[i]
         /\ Ids(Append(s, x)) = Ids(s) \cup {x}
         /\ IsInjective(s) /\ x \notin Ids(s) => IsInjective(Append(s, x))
BY DEF Ids, ToSet, IsInjective

\* A sequence without repetition is cut into its first n elements and the others.
LEMMA CutHead ==
  ASSUME NEW S, NEW s \in Seq(S), IsInjective(s), NEW n \in 0 .. Len(s)
  PROVE  /\ SubSeq(s, 1, n) \in Seq(S) /\ Len(SubSeq(s, 1, n)) = n
         /\ \A i \in 1 .. n : SubSeq(s, 1, n)[i] = s[i]
         /\ SubSeq(s, n + 1, Len(s)) \in Seq(S) /\ IsInjective(SubSeq(s, n + 1, Len(s)))
         /\ Ids(SubSeq(s, n + 1, Len(s))) = Ids(s) \ {s[i] : i \in 1 .. n}
<1> DEFINE rest == SubSeq(s, n + 1, Len(s))
<1>1. SubSeq(s, 1, n) \in Seq(S) /\ Len(SubSeq(s, 1, n)) = n
      /\ \A i \in 1 .. n : SubSeq(s, 1, n)[i] = s[i]
  OBVIOUS
<1>2. rest \in Seq(S) /\ Len(rest) = Len(s) - n
      /\ \A i \in 1 .. Len(s) - n : rest[i] = s[n + i]
  OBVIOUS
<1> HIDE DEF rest
<1>3. IsInjective(rest)
  <2>1. ASSUME NEW a \in 1 .. Len(s) - n, NEW b \in 1 .. Len(s) - n, rest[a] = rest[b]
        PROVE  a = b
    <3>1. n + a \in DOMAIN s /\ n + b \in DOMAIN s /\ s[n + a] = s[n + b]
      BY <1>2, <2>1
    <3>2. n + a = n + b
      BY <3>1 DEF IsInjective
    <3>3. QED
      BY <3>2
  <2>2. DOMAIN rest = 1 .. Len(s) - n
    BY <1>2
  <2>3. QED
    BY <2>1, <2>2 DEF IsInjective
<1>4. Ids(rest) \subseteq Ids(s) \ {s[i] : i \in 1 .. n}
  <2>1. ASSUME NEW i \in 1 .. Len(s) - n
        PROVE  rest[i] \in Ids(s) \ {s[j] : j \in 1 .. n}
    <3>1. n + i \in DOMAIN s /\ rest[i] = s[n + i]
      BY <1>2
    <3>2. \A j \in 1 .. n : j \in DOMAIN s /\ j # n + i
      OBVIOUS
    <3>3. \A j \in 1 .. n : s[j] # s[n + i]
      BY <3>1, <3>2 DEF IsInjective
    <3>4. QED
      BY <3>1, <3>3 DEF Ids, ToSet
  <2>2. \A x \in Ids(rest) : \E i \in 1 .. Len(s) - n : x = rest[i]
    BY <1>2 DEF Ids, ToSet
  <2>3. QED
    BY <2>1, <2>2
<1>5. Ids(s) \ {s[i] : i \in 1 .. n} \subseteq Ids(rest)
  <2>1. ASSUME NEW i \in n + 1 .. Len(s)
        PROVE  s[i] \in Ids(rest)
    <3>1. i - n \in 1 .. Len(s) - n /\ rest[i - n] = s[i]
      BY <1>2
    <3>2. QED
      BY <1>2, <3>1 DEF Ids, ToSet
  <2>2. QED
    BY <2>1 DEF Ids, ToSet
<1>6. QED
  BY <1>1, <1>2, <1>3, <1>4, <1>5 DEF rest

-----------------------------------------------------------------------------
(* Flushers *)

LEMMA SetFlushFacts ==
  ASSUME LogShape, NEW f \in LogFlushers,
         NEW pc \in LogWaits \cup {"insert", "remove"}, NEW batch \in Seq(LogIds), NEW left \in Int,
         SetFlush(f, pc, batch, left)
  PROVE  /\ logFlush' \in [LogFlushers -> LogFlushing]
         /\ logFlush'[f].pc = pc /\ logFlush'[f].batch = batch
         /\ \A g \in LogFlushers \ {f} : logFlush'[g] = logFlush[g]
BY DEF SetFlush, LogShape, LogWaits, LogFlushing

LEMMA AfterLoopWaits ==
  ASSUME NEW f \in LogFlushers, NEW well \in BOOLEAN
  PROVE  AfterLoop(f, well) \in LogWaits
<1>1. CASE f = "writer"
  BY <1>1 DEF AfterLoop, LogWaits
<1>2. CASE f = "task"
  BY <1>2 DEF AfterLoop, LogWaits
<1>3. CASE f = "main"
  BY <1>3 DEF AfterLoop, LogWaits
<1>4. QED
  BY <1>1, <1>2, <1>3 DEF LogFlushers

LEMMA InsertFailsMoves ==
  ASSUME NEW f \in LogFlushers, LogInsertFails(f)
  PROVE  \E pc \in LogWaits, left \in Int : SetFlush(f, pc, <<>>, left)
<1>1. AfterLoop(f, FALSE) \in LogWaits
  <2>1. FALSE \in BOOLEAN
    OBVIOUS
  <2>2. QED
    BY <2>1, AfterLoopWaits, Zenon
<1>2. SetFlush(f, AfterLoop(f, FALSE), <<>>, 0)
  BY DEF LogInsertFails
<1>3. \E pc \in LogWaits : SetFlush(f, pc, <<>>, 0)
  BY <1>1, <1>2, Zenon
<1>4. QED
  BY <1>3

\* A flusher without a batch goes to a place where it still has none.
LogMoves(f) ==
  /\ ~LogInFlight(f)
  /\ \E pc \in LogWaits, left \in Int : SetFlush(f, pc, <<>>, left)

\* A step that leaves the logs where they are.
LogCalm ==
  /\ logFlush' = logFlush \/ \E f \in LogFlushers : LogMoves(f)
  /\ logClear' = logClear \/ (logClear # "idle" /\ logClear' # "idle")
  /\ UNCHANGED <<logNext, logAdd, logPending, logFlushLock, logRead, logDb, logAccepted, logRemoved>>

LogCalmStep ==
  \/ LogToggle \/ LogShutdown \/ LogStopWriter \/ LogCloseDb
  \/ LogWriterWake \/ LogWriterLast \/ LogTaskStart \/ LogClearRecent
  \/ \E f \in LogFlushers : LogLoopDone(f) \/ LogLoopCancelled(f) \/ LogCleanupDone(f)
  \/ UNCHANGED logVars

LEMMA LogCalmSteps ==
  ASSUME LogInv, LogCalmStep
  PROVE  LogCalm
<1>1. CASE LogToggle
  BY <1>1 DEF LogToggle, LogCalm, logQueueVars, logSetVars
<1>2. CASE LogShutdown
  <2>1. ~LogInFlight("main")
    BY <1>2 DEF LogShutdown, LogInv, LogHooked, LogInFlight
  <2>2. \E pc \in LogWaits, left \in Int : SetFlush("main", pc, <<>>, left)
    BY <1>2 DEF LogShutdown, LogWaits, Unlimited
  <2>3. QED
    BY <1>2, <2>1, <2>2 DEF LogShutdown, LogCalm, LogMoves, LogFlushers, logQueueVars, logSetVars
<1>3. CASE LogStopWriter
  <2>1. ~LogInFlight("main")
    BY <1>3 DEF LogStopWriter, LogInFlight
  <2>2. \E pc \in LogWaits, left \in Int : SetFlush("main", pc, <<>>, left)
    BY <1>3 DEF LogStopWriter, LogWaits, Unlimited
  <2>3. QED
    BY <1>3, <2>1, <2>2 DEF LogStopWriter, LogCalm, LogMoves, LogFlushers, logQueueVars, logSetVars
<1>4. CASE LogCloseDb
  <2>1. ~LogInFlight("main")
    BY <1>4 DEF LogCloseDb, LogInFlight
  <2>2. \E pc \in LogWaits, left \in Int : SetFlush("main", pc, <<>>, left)
    BY <1>4 DEF LogCloseDb, LogWaits
  <2>3. QED
    BY <1>4, <2>1, <2>2 DEF LogCloseDb, LogCalm, LogMoves, LogFlushers, logQueueVars, logSetVars
<1>5. CASE LogWriterWake \/ LogWriterLast
  <2>1. ~LogInFlight("writer")
    BY <1>5 DEF LogWriterWake, LogWriterLast, LogInFlight
  <2>2. \E pc \in LogWaits, left \in Int : SetFlush("writer", pc, <<>>, left)
    BY <1>5, LogAssumption DEF LogWriterWake, LogWriterLast, LogWaits, Unlimited, LogAssumption
  <2>3. QED
    BY <1>5, <2>1, <2>2
    DEF LogWriterWake, LogWriterLast, FlushRest, LogCalm, LogMoves, LogFlushers, logQueueVars, logSetVars
<1>6. CASE LogTaskStart
  <2>1. ~LogInFlight("task")
    BY <1>6 DEF LogTaskStart, LogInFlight
  <2>2. logFlush' = logFlush \/ \E pc \in LogWaits, left \in Int : SetFlush("task", pc, <<>>, left)
    BY <1>6 DEF LogTaskStart, LogWaits, Unlimited
  <2>3. QED
    BY <1>6, <2>1, <2>2 DEF LogTaskStart, LogCalm, LogMoves, LogFlushers, logQueueVars, logSetVars
<1>7. CASE LogClearRecent
  BY <1>7 DEF LogClearRecent, LogCalm, logQueueVars, logSetVars
<1>8. ASSUME NEW f \in LogFlushers,
             LogLoopDone(f) \/ LogLoopCancelled(f) \/ LogCleanupDone(f)
      PROVE  LogCalm
  <2>1. ~LogInFlight(f)
    BY <1>8 DEF LogLoopDone, LogLoopCancelled, LogCleanupDone, LogInFlight
  <2>2. \E pc \in LogWaits, left \in Int : SetFlush(f, pc, <<>>, left)
    <3>1. AfterLoop(f, TRUE) \in LogWaits /\ AfterLoop(f, FALSE) \in LogWaits
      BY AfterLoopWaits
    <3>2. "next" \in LogWaits /\ "idle" \in LogWaits /\ 0 \in Int
      BY DEF LogWaits
    <3>3. CASE LogLoopDone(f)
      BY <3>1, <3>2, <3>3 DEF LogLoopDone
    <3>4. CASE LogLoopCancelled(f)
      BY <3>1, <3>2, <3>4 DEF LogLoopCancelled
    <3>5. CASE LogCleanupDone(f)
      BY <3>2, <3>5 DEF LogCleanupDone
    <3>6. QED
      BY <1>8, <3>3, <3>4, <3>5
  <2>3. QED
    BY <1>8, <2>1, <2>2
    DEF LogLoopDone, LogLoopCancelled, LogCleanupDone, FlushRest, LogCalm, LogMoves, logQueueVars,
        logSetVars
<1>9. CASE UNCHANGED logVars
  BY <1>9 DEF logVars, LogCalm, logQueueVars, logSetVars
<1>10. QED
  BY <1>1, <1>2, <1>3, <1>4, <1>5, <1>6, <1>7, <1>8, <1>9 DEF LogCalmStep

\* What a calm step does to a flusher.
LEMMA CalmFlush ==
  ASSUME LogInv, LogCalm
  PROVE  /\ logFlush' \in [LogFlushers -> LogFlushing]
         /\ \A f \in LogFlushers :
              /\ LogInFlight(f)' <=> LogInFlight(f)
              /\ LogInFlight(f) => logFlush'[f] = logFlush[f]
<1>1. CASE logFlush' = logFlush
  BY <1>1 DEF LogInv, LogShape, LogFlushing, LogInFlight
<1>2. CASE \E f \in LogFlushers : LogMoves(f)
  <2>1. PICK f \in LogFlushers, pc \in LogWaits, left \in Int :
          ~LogInFlight(f) /\ SetFlush(f, pc, <<>>, left)
    BY <1>2 DEF LogMoves
  <2>2. <<>> \in Seq(LogIds)
    OBVIOUS
  <2>3. QED
    BY <2>1, <2>2, SetFlushFacts DEF LogInv, LogInFlight, LogWaits
<1>3. QED
  BY <1>1, <1>2 DEF LogCalm

\* A reader's step.
LogReadStep ==
  \E r \in LogReaders :
    \/ \E id \in LogIds : LogGetPending(r, id)
    \/ \E cursor \in 0..LogLast : LogListPending(r, cursor)
    \/ LogGetRecent(r) \/ LogGetRow(r) \/ LogListRows(r) \/ LogReadDone(r)

LogStill ==
  UNCHANGED <<logNext, logAdd, logPending, logFlush, logFlushLock, logClear, logPhase, logDb,
              logAccepted, logRemoved>>

LEMMA ReadSteps ==
  ASSUME LogInv, LogReadStep
  PROVE  LogStill /\ logRead' = [r \in LogReaders |-> logRead'[r]]
<1>1. PICK r \in LogReaders :
        \/ \E id \in LogIds : LogGetPending(r, id)
        \/ \E cursor \in 0..LogLast : LogListPending(r, cursor)
        \/ LogGetRecent(r) \/ LogGetRow(r) \/ LogListRows(r) \/ LogReadDone(r)
  BY DEF LogReadStep
<1>2. UNCHANGED ReadRest
  BY <1>1 DEF LogGetPending, LogListPending, LogGetRecent, LogGetRow, LogListRows, LogReadDone
<1>3. \E x : logRead' = [logRead EXCEPT ![r] = x]
  BY <1>1 DEF LogGetPending, LogListPending, LogGetRecent, LogGetRow, LogListRows, LogReadDone,
     SetRead
<1>4. QED
  BY <1>2, <1>3 DEF LogStill, ReadRest, logQueueVars, logSetVars, LogInv, LogShape

\* Taking a batch off the queue leaves the rest of it.
LEMMA FlushedFacts ==
  ASSUME LogInv, NEW f \in LogFlushers, LogInFlight(f), NEW bytes
  PROVE  /\ Flushed(logFlush[f].batch, logPending, bytes).queue \in Seq(LogIds)
         /\ IsInjective(Flushed(logFlush[f].batch, logPending, bytes).queue)
         /\ Ids(Flushed(logFlush[f].batch, logPending, bytes).queue)
              = Ids(logPending) \ Ids(logFlush[f].batch)
<1> DEFINE batch == logFlush[f].batch
           n == Len(batch)
<1>1. batch \in Seq(LogIds) /\ logPending \in Seq(LogIds)
  BY DEF LogInv, LogShape, LogFlushing
<1>2. n \in 1 .. Len(logPending) /\ \A i \in 1 .. n : batch[i] = logPending[i]
  BY DEF LogInv, LogQueued
<1>3. Len(logPending) >= n /\ logPending[1] = batch[1] /\ logPending[n] = batch[n]
  BY <1>1, <1>2
<1>4. Flushed(batch, logPending, bytes).queue = SubSeq(logPending, n + 1, Len(logPending))
  BY <1>3 DEF Flushed
<1>5. Ids(batch) = {logPending[i] : i \in 1 .. n}
  BY <1>1, <1>2 DEF Ids, ToSet
<1>6. IsInjective(logPending) /\ n \in 0 .. Len(logPending)
  BY <1>1, <1>2 DEF LogInv, LogQueued
<1> HIDE DEF batch, n
<1>7. /\ SubSeq(logPending, n + 1, Len(logPending)) \in Seq(LogIds)
      /\ IsInjective(SubSeq(logPending, n + 1, Len(logPending)))
      /\ Ids(SubSeq(logPending, n + 1, Len(logPending)))
           = Ids(logPending) \ {logPending[i] : i \in 1 .. n}
  BY <1>1, <1>6, CutHead
<1>8. QED
  BY <1>4, <1>5, <1>7 DEF batch

\* A batch taken is the head of the queue.
LEMMA TakeFacts ==
  ASSUME LogInv, NEW f \in LogFlushers, LogTake(f)
  PROVE  \E batch \in Seq(LogIds) :
           /\ SetFlush(f, "insert", batch, logFlush[f].left)
           /\ Len(batch) \in 1 .. Len(logPending)
           /\ \A i \in 1 .. Len(batch) : batch[i] = logPending[i]
<1> DEFINE n == IF LogBatch < Len(logPending) THEN LogBatch ELSE Len(logPending)
<1>1. logPending \in Seq(LogIds) /\ logPending # <<>> /\ IsInjective(logPending)
  BY DEF LogTake, LogInv, LogShape, LogQueued
<1>2. n \in 1 .. Len(logPending)
  BY <1>1, LogAssumption DEF LogAssumption
<1>3. SetFlush(f, "insert", SubSeq(logPending, 1, n), logFlush[f].left)
  BY DEF LogTake
<1> HIDE DEF n
<1>4. /\ SubSeq(logPending, 1, n) \in Seq(LogIds) /\ Len(SubSeq(logPending, 1, n)) = n
      /\ \A i \in 1 .. n : SubSeq(logPending, 1, n)[i] = logPending[i]
  <2>1. n \in 0 .. Len(logPending)
    BY <1>1, <1>2
  <2>2. QED
    BY <1>1, <2>1, CutHead
<1>5. QED
  BY <1>2, <1>3, <1>4

-----------------------------------------------------------------------------
(* Every step keeps each part *)

LEMMA StepShape ==
  ASSUME LogInv, [LogNextStep]_logVars
  PROVE  LogShape'
<1>1. CASE LogCalmStep
  BY <1>1, LogCalmSteps, CalmFlush DEF LogCalm, LogInv, LogShape
<1>2. CASE LogReadStep
  BY <1>2, ReadSteps DEF LogStill, LogInv, LogShape
<1>3. ASSUME NEW w \in LogWriters,
             LogGenerate(w) \/ LogAppendRecent(w) \/ LogEnqueue(w) \/ LogDrop(w)
      PROVE  LogShape'
  <2>1. logAdd' = [v \in LogWriters |->
                     [pc |-> logAdd'[v].pc, id |-> logAdd'[v].id, keep |-> logAdd'[v].keep]]
    <3>1. PICK pc, id, keep :
            logAdd' = [logAdd EXCEPT ![w] = [pc |-> pc, id |-> id, keep |-> keep]]
      BY <1>3
      DEF LogGenerate, LogAppendRecent, LogEnqueue, LogDrop, NotAdding, LogInv, LogShape
    <3>2. QED
      BY <3>1 DEF LogInv, LogShape
  <2>3. CASE LogGenerate(w)
    BY <2>1, <2>3 DEF LogGenerate, LogInv, LogShape, logQueueVars, logSetVars
  <2>4. CASE LogAppendRecent(w)
    BY <2>1, <2>4 DEF LogAppendRecent, LogInv, LogShape, logQueueVars, logSetVars
  <2>5. CASE LogEnqueue(w)
    <3>1. logAdd[w].id \in LogIds
      BY <2>5 DEF LogEnqueue, LogInv, LogDrawn
    <3>2. QED
      BY <2>1, <2>5, <3>1 DEF LogEnqueue, LogInv, LogShape
  <2>6. CASE LogDrop(w)
    BY <2>1, <2>6 DEF LogDrop, LogInv, LogShape, logQueueVars, logSetVars
  <2>7. QED
    BY <1>3, <2>3, <2>4, <2>5, <2>6
<1>4. ASSUME NEW f \in LogFlushers,
             LogTake(f) \/ LogInsert(f) \/ LogInsertFails(f) \/ LogRemoveBatch(f) \/ LogCleanup(f)
      PROVE  LogShape'
  <2>1. <<>> \in Seq(LogIds) /\ logFlush[f].left \in Int
    BY DEF LogInv, LogShape, LogFlushing
  <2>2. CASE LogTake(f)
    <3>1. PICK batch \in Seq(LogIds) : SetFlush(f, "insert", batch, logFlush[f].left)
      BY <2>2, TakeFacts
    <3>2. QED
      BY <2>1, <2>2, <3>1, SetFlushFacts
      DEF LogTake, FlushRest, logQueueVars, logSetVars, LogInv, LogShape
  <2>3. CASE LogInsert(f)
    BY <2>3 DEF LogInsert, FlushRest, logQueueVars, LogInv, LogShape, LogFlushing
  <2>4. CASE LogInsertFails(f)
    <3>1. PICK pc \in LogWaits, left \in Int : SetFlush(f, pc, <<>>, left)
      BY <2>4, InsertFailsMoves
    <3>2. logFlush' \in [LogFlushers -> LogFlushing]
      BY <2>1, <3>1, SetFlushFacts DEF LogInv
    <3>3. QED
      BY <2>4, <3>2 DEF LogInsertFails, FlushRest, logQueueVars, logSetVars, LogInv, LogShape
  <2>5. CASE LogRemoveBatch(f)
    <3>1. logPending' \in Seq(LogIds)
      BY <2>5, FlushedFacts DEF LogRemoveBatch, LogInFlight
    <3>2. PICK left \in Int : SetFlush(f, "loop", <<>>, left)
      BY <2>1, <2>5 DEF LogRemoveBatch, Unlimited
    <3>3. QED
      BY <2>1, <2>5, <3>1, <3>2, SetFlushFacts
      DEF LogRemoveBatch, FlushRest, logSetVars, LogInv, LogShape, LogWaits
  <2>6. CASE LogCleanup(f)
    BY <2>6 DEF LogCleanup, FlushRest, logQueueVars, LogInv, LogShape
  <2>7. QED
    BY <1>4, <2>2, <2>3, <2>4, <2>5, <2>6
<1>5. CASE LogClearQueue
  BY <1>5 DEF LogClearQueue, LogInv, LogShape
<1>6. CASE LogClearRows \/ LogClearFails
  BY <1>6 DEF LogClearRows, LogClearFails, logQueueVars, logSetVars, LogInv, LogShape
<1>7. QED
  BY <1>1, <1>2, <1>3, <1>4, <1>5, <1>6 DEF LogNextStep, LogFlusher, LogCalmStep, LogReadStep

\* A batch is taken when nobody has the lock, and the lock is kept until it is off the
\* queue or its insertion failed.
LEMMA StepLocked ==
  ASSUME LogInv, [LogNextStep]_logVars
  PROVE  LogLocked'
<1>1. CASE LogCalmStep
  BY <1>1, LogCalmSteps, CalmFlush DEF LogCalm, LogInv, LogLocked
<1>2. CASE LogReadStep
  BY <1>2, ReadSteps DEF LogStill, LogInv, LogLocked, LogInFlight
<1>3. ASSUME NEW w \in LogWriters,
             LogGenerate(w) \/ LogAppendRecent(w) \/ LogEnqueue(w) \/ LogDrop(w)
      PROVE  LogLocked'
  BY <1>3 DEF LogGenerate, LogAppendRecent, LogEnqueue, LogDrop, LogInv, LogLocked, LogInFlight
<1>4. ASSUME NEW f \in LogFlushers,
             LogTake(f) \/ LogInsert(f) \/ LogInsertFails(f) \/ LogRemoveBatch(f) \/ LogCleanup(f)
      PROVE  LogLocked'
  <2>1. <<>> \in Seq(LogIds) /\ logFlush[f].left \in Int /\ f # "clear" /\ f # LogFree
    BY DEF LogInv, LogShape, LogFlushing, LogFlushers, LogFree
  <2>2. CASE LogTake(f)
    <3>1. PICK batch \in Seq(LogIds) : SetFlush(f, "insert", batch, logFlush[f].left)
      BY <2>2, TakeFacts
    <3>2. logFlush'[f].pc = "insert" /\ \A g \in LogFlushers \ {f} : logFlush'[g] = logFlush[g]
      BY <2>1, <3>1, SetFlushFacts DEF LogInv
    <3>3. logFlushLock = LogFree /\ logFlushLock' = f /\ logClear' = logClear
      BY <2>2 DEF LogTake, FlushRest
    <3>4. QED
      BY <2>1, <3>2, <3>3 DEF LogInv, LogLocked, LogInFlight, LogFree, LogFlushers
  <2>3. CASE LogInsert(f)
    BY <2>3 DEF LogInsert, FlushRest, LogInv, LogShape, LogLocked, LogInFlight
  <2>4. CASE LogInsertFails(f)
    <3>1. PICK pc \in LogWaits, left \in Int : SetFlush(f, pc, <<>>, left)
      BY <2>4, InsertFailsMoves
    <3>2. logFlushLock = f /\ logFlushLock' = LogFree /\ logClear' = logClear
      BY <2>4 DEF LogInsertFails, FlushRest, LogInv, LogLocked, LogInFlight
    <3>3. /\ logFlush'[f].pc \in LogWaits
          /\ \A g \in LogFlushers \ {f} : logFlush'[g] = logFlush[g]
      BY <2>1, <3>1, SetFlushFacts DEF LogInv, LogWaits
    <3>4. QED
      BY <2>1, <3>2, <3>3 DEF LogInv, LogLocked, LogInFlight, LogFree, LogWaits, LogFlushers
  <2>5. CASE LogRemoveBatch(f)
    <3>1. PICK left \in Int : SetFlush(f, "loop", <<>>, left)
      BY <2>1, <2>5 DEF LogRemoveBatch, Unlimited
    <3>2. logFlushLock = f /\ logFlushLock' = LogFree /\ logClear' = logClear
      BY <2>5 DEF LogRemoveBatch, FlushRest, LogInv, LogLocked, LogInFlight
    <3>3. /\ logFlush'[f].pc \in LogWaits
          /\ \A g \in LogFlushers \ {f} : logFlush'[g] = logFlush[g]
      BY <2>1, <3>1, SetFlushFacts DEF LogInv, LogWaits
    <3>4. QED
      BY <2>1, <3>2, <3>3 DEF LogInv, LogLocked, LogInFlight, LogFree, LogWaits, LogFlushers
  <2>6. CASE LogCleanup(f)
    BY <2>6 DEF LogCleanup, FlushRest, LogInv, LogLocked, LogInFlight
  <2>7. QED
    BY <1>4, <2>2, <2>3, <2>4, <2>5, <2>6
<1>5. CASE LogClearQueue
  BY <1>5 DEF LogClearQueue, LogInv, LogLocked, LogInFlight, LogFree, LogFlushers
<1>6. CASE LogClearRows \/ LogClearFails
  BY <1>6 DEF LogClearRows, LogClearFails, LogInv, LogLocked, LogInFlight, LogFree, LogFlushers
<1>7. QED
  BY <1>1, <1>2, <1>3, <1>4, <1>5, <1>6 DEF LogNextStep, LogFlusher, LogCalmStep, LogReadStep

LEMMA StepHooked ==
  ASSUME LogInv, [LogNextStep]_logVars
  PROVE  LogHooked'
<1>1. CASE logPhase' # "up"
  BY <1>1 DEF LogHooked
<1>2. CASE logPhase' = "up" /\ logPhase # "up"
  BY <1>2
  DEF LogNextStep, LogToggle, LogShutdown, LogStopWriter, LogCloseDb, LogWriterWake,
      LogWriterLast, LogTaskStart, LogClearQueue, LogClearRecent, LogClearRows, LogClearFails,
      LogGenerate, LogAppendRecent, LogEnqueue, LogDrop, LogFlusher, LogLoopDone,
      LogLoopCancelled, LogTake, LogInsert, LogInsertFails, LogRemoveBatch, LogCleanup,
      LogCleanupDone, LogGetPending, LogListPending, LogGetRecent, LogGetRow, LogListRows,
      LogReadDone, FlushRest, ReadRest, logVars
<1>3. CASE logPhase' = "up" /\ logPhase = "up"
  <2>1. logFlush["main"].pc = "idle"
    BY <1>3 DEF LogInv, LogHooked
  <2>2. CASE logFlush' = logFlush
    BY <2>1, <2>2 DEF LogHooked
  <2>3. ASSUME NEW f \in LogFlushers, NEW x, logFlush' = [logFlush EXCEPT ![f] = x], f # "main"
        PROVE  LogHooked'
    BY <2>1, <2>3 DEF LogHooked, LogInv, LogShape, LogFlushers
  <2>4. ASSUME NEW f \in LogFlushers, LogFlusher(f)
        PROVE  f # "main" /\ \E x : logFlush' = [logFlush EXCEPT ![f] = x]
    <3>1. f # "main"
      BY <2>1, <2>4
      DEF LogFlusher, LogLoopDone, LogLoopCancelled, LogTake, LogInsert, LogInsertFails,
          LogRemoveBatch, LogCleanup, LogCleanupDone
    <3>2. CASE LogCleanup(f)
      <4>1. logFlush' = [logFlush EXCEPT ![f] = logFlush[f]]
        BY <3>2 DEF LogCleanup, LogInv, LogShape
      <4>2. QED
        BY <3>1, <4>1
    <3>3. CASE LogInsert(f)
      <4>1. logFlush' = [logFlush EXCEPT ![f] = [logFlush[f] EXCEPT !.pc = "remove"]]
        BY <3>3 DEF LogInsert
      <4>2. QED
        BY <3>1, <4>1
    <3>4. CASE ~LogCleanup(f) /\ ~LogInsert(f)
      BY <2>4, <3>1, <3>4
      DEF LogFlusher, LogLoopDone, LogLoopCancelled, LogTake, LogInsertFails,
          LogRemoveBatch, LogCleanupDone, SetFlush
    <3>5. QED
      BY <3>2, <3>3, <3>4
  <2>5. CASE LogWriterWake \/ LogWriterLast
    BY <2>3, <2>5 DEF LogWriterWake, LogWriterLast, SetFlush, LogFlushers
  <2>6. CASE LogTaskStart
    BY <2>2, <2>3, <2>6 DEF LogTaskStart, SetFlush, LogFlushers
  <2>7. CASE LogToggle \/ LogClearQueue \/ LogClearRecent \/ LogClearRows \/ LogClearFails
             \/ UNCHANGED logVars
    BY <2>2, <2>7 DEF LogToggle, LogClearQueue, LogClearRecent, LogClearRows, LogClearFails, logVars
  <2>8. ASSUME NEW w \in LogWriters,
               LogGenerate(w) \/ LogAppendRecent(w) \/ LogEnqueue(w) \/ LogDrop(w)
        PROVE  LogHooked'
    BY <2>2, <2>8 DEF LogGenerate, LogAppendRecent, LogEnqueue, LogDrop
  <2>9. CASE LogReadStep
    BY <2>2, <2>9, ReadSteps DEF LogStill
  <2>10. CASE LogShutdown \/ LogStopWriter \/ LogCloseDb
    BY <1>3, <2>10 DEF LogShutdown, LogStopWriter, LogCloseDb
  <2>11. QED
    BY <2>3, <2>4, <2>5, <2>6, <2>7, <2>8, <2>9, <2>10 DEF LogNextStep, LogReadStep
<1>4. QED
  BY <1>1, <1>2, <1>3

\* An ID that is drawn is above all that were.
LEMMA StepDrawn ==
  ASSUME LogInv, [LogNextStep]_logVars
  PROVE  LogDrawn'
<1>1. CASE LogCalmStep
  BY <1>1, LogCalmSteps DEF LogCalm, LogInv, LogDrawn
<1>2. CASE LogReadStep
  BY <1>2, ReadSteps DEF LogStill, LogInv, LogDrawn
<1>3. ASSUME NEW w \in LogWriters,
             LogGenerate(w) \/ LogAppendRecent(w) \/ LogEnqueue(w) \/ LogDrop(w)
      PROVE  LogDrawn'
  <2>1. /\ \A v \in LogWriters \ {w} : logAdd'[v] = logAdd[v]
        /\ logNext \in Nat
    BY <1>3 DEF LogGenerate, LogAppendRecent, LogEnqueue, LogDrop, LogInv, LogShape
  <2>2. CASE LogGenerate(w)
    <3>1. logAdd'[w].id = logNext /\ logNext \in LogIds /\ logNext' = logNext + 1
          /\ logAccepted' = logAccepted
      BY <2>2 DEF LogGenerate, LogInv, LogShape, logSetVars
    <3>2. \A id \in LogIds : id \in Nat
      BY LogAssumption DEF LogIds, LogAssumption
    <3>3. \A id \in logAccepted' : id \in LogIds /\ id < logNext'
      <4>1. ASSUME NEW id \in logAccepted
            PROVE  id \in LogIds /\ id < logNext /\ id \in Nat
        BY <3>2 DEF LogInv, LogDrawn
      <4>2. QED
        BY <2>1, <3>1, <4>1
    <3>4. logAdd'[w].id \in LogIds /\ logAdd'[w].id < logNext' /\ logAdd'[w].id \notin logAccepted'
      BY <2>1, <3>1, <3>2 DEF LogInv, LogDrawn
    <3>5. ASSUME NEW v \in LogWriters \ {w}, logAdd'[v].pc # "idle"
          PROVE  /\ logAdd'[v].id \in LogIds /\ logAdd'[v].id < logNext
                 /\ logAdd'[v].id \notin logAccepted'
                 /\ \A u \in LogWriters \ {v, w} :
                      logAdd'[u].pc # "idle" => logAdd'[u].id # logAdd'[v].id
      BY <2>1, <3>1, <3>5 DEF LogInv, LogDrawn
    <3>6. ASSUME NEW v \in LogWriters, logAdd'[v].pc # "idle"
          PROVE  /\ logAdd'[v].id \in LogIds /\ logAdd'[v].id < logNext'
                 /\ logAdd'[v].id \notin logAccepted'
      <4>1. CASE v = w
        BY <4>1, <3>4
      <4>2. CASE v # w
        <5>1. logAdd'[v].id \in LogIds /\ logAdd'[v].id < logNext /\ logAdd'[v].id \notin logAccepted'
          BY <4>2, <3>5, <3>6
        <5>2. logAdd'[v].id \in Nat
          BY <5>1, <3>2
        <5>3. logAdd'[v].id < logNext'
          BY <5>1, <5>2, <2>1, <3>1
        <5>4. QED
          BY <5>1, <5>3
      <4>3. QED
        BY <4>1, <4>2
    <3>7. ASSUME NEW v \in LogWriters, NEW u \in LogWriters \ {v},
                 logAdd'[v].pc # "idle", logAdd'[u].pc # "idle"
          PROVE  logAdd'[u].id # logAdd'[v].id
      <4>1. ASSUME NEW x \in LogWriters \ {w}, logAdd'[x].pc # "idle"
            PROVE  logAdd'[x].id # logAdd'[w].id
        <5>1. logAdd'[x].id \in LogIds /\ logAdd'[x].id < logNext
          BY <3>5, <4>1
        <5>2. logAdd'[x].id \in Nat
          BY <5>1, <3>2
        <5>3. QED
          BY <5>1, <5>2, <2>1, <3>1
      <4>2. CASE v = w
        BY <4>1, <4>2, <3>7
      <4>3. CASE u = w
        BY <4>1, <4>3, <3>7
      <4>4. CASE v # w /\ u # w
        BY <4>4, <3>5, <3>7
      <4>5. QED
        BY <4>2, <4>3, <4>4
    <3>8. QED
      BY <3>3, <3>6, <3>7, Zenon DEF LogDrawn
  <2>3. CASE LogAppendRecent(w)
    <3>1. logAdd'[w].pc = "idle" \/ logAdd'[w].id = logAdd[w].id
      BY <2>3 DEF LogAppendRecent, NotAdding, LogInv, LogShape
    <3>2. QED
      BY <2>1, <2>3, <3>1 DEF LogAppendRecent, logSetVars, LogInv, LogDrawn
  <2>4. CASE LogEnqueue(w)
    <3>1. logAdd'[w].pc = "idle" /\ logAccepted' = logAccepted \cup {logAdd[w].id}
          /\ logNext' = logNext /\ logAdd[w].pc # "idle"
      BY <2>4 DEF LogEnqueue, NotAdding, LogInv, LogShape
    <3>2. QED
      BY <2>1, <3>1 DEF LogInv, LogDrawn
  <2>5. CASE LogDrop(w)
    <3>1. logAdd'[w].pc = "idle"
      BY <2>5 DEF LogDrop, NotAdding, LogInv, LogShape
    <3>2. QED
      BY <2>1, <2>5, <3>1 DEF LogDrop, logSetVars, LogInv, LogDrawn
  <2>6. QED
    BY <1>3, <2>2, <2>3, <2>4, <2>5
<1>4. ASSUME NEW f \in LogFlushers,
             LogTake(f) \/ LogInsert(f) \/ LogInsertFails(f) \/ LogRemoveBatch(f) \/ LogCleanup(f)
      PROVE  LogDrawn'
  BY <1>4 DEF LogTake, LogInsert, LogInsertFails, LogRemoveBatch, LogCleanup, FlushRest,
     logSetVars, LogInv, LogDrawn
<1>5. CASE LogClearQueue
  BY <1>5 DEF LogClearQueue, LogInv, LogDrawn
<1>6. CASE LogClearRows \/ LogClearFails
  BY <1>6 DEF LogClearRows, LogClearFails, logSetVars, LogInv, LogDrawn
<1>7. QED
  BY <1>1, <1>2, <1>3, <1>4, <1>5, <1>6 DEF LogNextStep, LogFlusher, LogCalmStep, LogReadStep

\* While a batch is in flight the queue only grows at its end.
LEMMA StepQueued ==
  ASSUME LogInv, [LogNextStep]_logVars
  PROVE  LogQueued'
<1>1. CASE LogCalmStep
  BY <1>1, LogCalmSteps, CalmFlush DEF LogCalm, LogInv, LogQueued
<1>2. CASE LogReadStep
  BY <1>2, ReadSteps DEF LogStill, LogInv, LogQueued, LogInFlight
<1>3. ASSUME NEW w \in LogWriters,
             LogGenerate(w) \/ LogAppendRecent(w) \/ LogEnqueue(w) \/ LogDrop(w)
      PROVE  LogQueued'
  <2>1. CASE LogEnqueue(w)
    <3> DEFINE id == logAdd[w].id
    <3>1. id \in LogIds /\ id \notin logAccepted
      BY <2>1 DEF LogEnqueue, LogInv, LogDrawn
    <3>2. id \notin Ids(logPending) /\ IsInjective(logPending) /\ logPending \in Seq(LogIds)
      BY <3>1 DEF LogInv, LogPlaced, LogQueued, LogShape
    <3>3. logPending' = Append(logPending, id) /\ logFlush' = logFlush
      BY <2>1 DEF LogEnqueue
    <3> HIDE DEF id
    <3>4. /\ IsInjective(logPending') /\ Len(logPending') = Len(logPending) + 1
          /\ \A i \in 1 .. Len(logPending) : logPending'[i] = logPending[i]
      BY <3>1, <3>2, <3>3, AppendOne
    <3>5. ASSUME NEW f \in LogFlushers, LogInFlight(f)
          PROVE  /\ Len(logFlush[f].batch) \in 1 .. Len(logPending')
                 /\ \A i \in 1 .. Len(logFlush[f].batch) : logFlush[f].batch[i] = logPending'[i]
      BY <3>2, <3>4, <3>5 DEF LogInv, LogQueued
    <3>6. QED
      BY <3>3, <3>4, <3>5 DEF LogQueued, LogInFlight
  <2>2. CASE LogGenerate(w) \/ LogAppendRecent(w) \/ LogDrop(w)
    BY <2>2 DEF LogGenerate, LogAppendRecent, LogDrop, logQueueVars, LogInv, LogQueued, LogInFlight
  <2>3. QED
    BY <1>3, <2>1, <2>2
<1>4. ASSUME NEW f \in LogFlushers,
             LogTake(f) \/ LogInsert(f) \/ LogInsertFails(f) \/ LogRemoveBatch(f) \/ LogCleanup(f)
      PROVE  LogQueued'
  <2>1. <<>> \in Seq(LogIds) /\ logFlush[f].left \in Int
    BY DEF LogInv, LogShape, LogFlushing
  <2>2. CASE LogTake(f)
    <3>1. PICK batch \in Seq(LogIds) :
            /\ SetFlush(f, "insert", batch, logFlush[f].left)
            /\ Len(batch) \in 1 .. Len(logPending)
            /\ \A i \in 1 .. Len(batch) : batch[i] = logPending[i]
      BY <2>2, TakeFacts
    <3>2. /\ logFlush'[f].batch = batch
          /\ \A g \in LogFlushers \ {f} : logFlush'[g] = logFlush[g]
      BY <2>1, <3>1, SetFlushFacts DEF LogInv
    <3>3. QED
      BY <2>2, <3>1, <3>2 DEF LogTake, logQueueVars, LogInv, LogQueued, LogInFlight
  <2>3. CASE LogInsert(f)
    <3>1. /\ logFlush'[f].batch = logFlush[f].batch /\ LogInFlight(f)
          /\ \A g \in LogFlushers \ {f} : logFlush'[g] = logFlush[g]
      BY <2>3 DEF LogInsert, LogInv, LogShape, LogFlushing, LogInFlight
    <3>2. QED
      BY <2>3, <3>1 DEF LogInsert, logQueueVars, LogInv, LogQueued, LogInFlight
  <2>4. CASE LogInsertFails(f)
    <3>1. PICK pc \in LogWaits, left \in Int : SetFlush(f, pc, <<>>, left)
      BY <2>4, InsertFailsMoves
    <3>2. /\ logFlush'[f].pc \in LogWaits
          /\ \A g \in LogFlushers \ {f} : logFlush'[g] = logFlush[g]
      BY <2>1, <3>1, SetFlushFacts DEF LogInv, LogWaits
    <3>3. QED
      BY <2>4, <3>2 DEF LogInsertFails, logQueueVars, LogInv, LogQueued, LogInFlight, LogWaits
  <2>5. CASE LogRemoveBatch(f)
    <3>1. PICK left \in Int : SetFlush(f, "loop", <<>>, left)
      BY <2>1, <2>5 DEF LogRemoveBatch, Unlimited
    <3>2. /\ logFlush'[f].pc = "loop"
          /\ \A g \in LogFlushers \ {f} : logFlush'[g] = logFlush[g]
      BY <2>1, <3>1, SetFlushFacts DEF LogInv, LogWaits
    <3>3. \A g \in LogFlushers : ~LogInFlight(g)'
      BY <2>5, <3>2 DEF LogRemoveBatch, LogInv, LogLocked, LogInFlight
    <3>4. IsInjective(logPending')
      BY <2>5, FlushedFacts DEF LogRemoveBatch, LogInFlight
    <3>5. QED
      BY <3>3, <3>4 DEF LogQueued
  <2>6. CASE LogCleanup(f)
    BY <2>6 DEF LogCleanup, logQueueVars, LogInv, LogQueued, LogInFlight
  <2>7. QED
    BY <1>4, <2>2, <2>3, <2>4, <2>5, <2>6
<1>5. CASE LogClearQueue
  <2>1. \A f \in LogFlushers : ~LogInFlight(f)'
    BY <1>5 DEF LogClearQueue, LogInv, LogLocked, LogInFlight, LogFree, LogFlushers
  <2>2. IsInjective(logPending')
    BY <1>5 DEF LogClearQueue, IsInjective
  <2>3. QED
    BY <2>1, <2>2 DEF LogQueued
<1>6. CASE LogClearRows \/ LogClearFails
  BY <1>6 DEF LogClearRows, LogClearFails, logQueueVars, LogInv, LogQueued, LogInFlight
<1>7. QED
  BY <1>1, <1>2, <1>3, <1>4, <1>5, <1>6 DEF LogNextStep, LogFlusher, LogCalmStep, LogReadStep

\* A batch is taken from logs that were only in the queue, since the lock was free; and
\* a clear, which takes the lock too, meets no batch in flight.
LEMMA OnlyQueued ==
  ASSUME LogInv, \A f \in LogFlushers : logFlush[f].pc # "remove"
  PROVE  Ids(logPending) \cap (logDb \cup logRemoved) = {}
BY DEF LogInv, LogPlaced

LEMMA StepPlaced ==
  ASSUME LogInv, [LogNextStep]_logVars
  PROVE  LogPlaced'
<1>1. CASE LogCalmStep
  <2>1. LogCalm
    BY <1>1, LogCalmSteps
  <2>2. \A f \in LogFlushers :
          /\ logFlush[f].pc = "remove" => logFlush'[f] = logFlush[f]
          /\ logFlush'[f].pc = "remove" => logFlush'[f] = logFlush[f]
    BY <2>1, CalmFlush DEF LogInFlight
  <2>3. QED
    BY <2>1, <2>2 DEF LogCalm, LogInv, LogPlaced
<1>2. CASE LogReadStep
  BY <1>2, ReadSteps DEF LogStill, LogInv, LogPlaced
<1>3. ASSUME NEW w \in LogWriters,
             LogGenerate(w) \/ LogAppendRecent(w) \/ LogEnqueue(w) \/ LogDrop(w)
      PROVE  LogPlaced'
  <2>1. CASE LogEnqueue(w)
    <3>1. logAdd[w].id \in LogIds /\ logAdd[w].id \notin logAccepted
      BY <2>1 DEF LogEnqueue, LogInv, LogDrawn
    <3>2. Ids(logPending') = Ids(logPending) \cup {logAdd[w].id}
      BY <2>1, <3>1, AppendOne DEF LogEnqueue, LogInv, LogShape
    <3>3. QED
      BY <2>1, <3>1, <3>2 DEF LogEnqueue, LogInv, LogPlaced
  <2>2. CASE LogGenerate(w) \/ LogAppendRecent(w) \/ LogDrop(w)
    BY <2>2 DEF LogGenerate, LogAppendRecent, LogDrop, logQueueVars, logSetVars, LogInv, LogPlaced
  <2>3. QED
    BY <1>3, <2>1, <2>2
<1>4. ASSUME NEW f \in LogFlushers,
             LogTake(f) \/ LogInsert(f) \/ LogInsertFails(f) \/ LogRemoveBatch(f) \/ LogCleanup(f)
      PROVE  LogPlaced'
  <2>1. <<>> \in Seq(LogIds) /\ logFlush[f].left \in Int
    BY DEF LogInv, LogShape, LogFlushing
  <2>2. CASE LogTake(f)
    <3>1. PICK batch \in Seq(LogIds) : SetFlush(f, "insert", batch, logFlush[f].left)
      BY <2>2, TakeFacts
    <3>2. /\ logFlush'[f].pc = "insert" /\ logFlush[f].pc = "loop"
          /\ \A g \in LogFlushers \ {f} : logFlush'[g] = logFlush[g]
      BY <2>1, <2>2, <3>1, SetFlushFacts DEF LogInv, LogTake
    <3>3. QED
      BY <2>2, <3>2 DEF LogTake, logQueueVars, logSetVars, LogInv, LogPlaced
  <2>3. CASE LogInsert(f)
    <3>1. /\ logFlush'[f].batch = logFlush[f].batch /\ logFlush'[f].pc = "remove" /\ LogInFlight(f)
          /\ \A g \in LogFlushers \ {f} : logFlush'[g] = logFlush[g]
      BY <2>3 DEF LogInsert, LogInv, LogShape, LogFlushing, LogInFlight
    <3>2. \A g \in LogFlushers : logFlush[g].pc # "remove"
      BY <2>3 DEF LogInsert, LogInv, LogLocked, LogInFlight
    <3>3. Ids(logFlush[f].batch) \subseteq Ids(logPending)
      <4>1. logPending \in Seq(LogIds) /\ logFlush[f].batch \in Seq(LogIds)
        BY DEF LogInv, LogShape, LogFlushing
      <4>2. /\ Len(logFlush[f].batch) \in 1 .. Len(logPending)
            /\ \A i \in 1 .. Len(logFlush[f].batch) : logFlush[f].batch[i] = logPending[i]
        BY <3>1 DEF LogInv, LogQueued
      <4>3. QED
        BY <4>1, <4>2 DEF Ids, ToSet
    <3>4. Ids(logPending) \cap (logDb \cup logRemoved) = {}
      BY <3>2, OnlyQueued
    <3>5. logDb' = logDb \cup Ids(logFlush[f].batch)
          /\ UNCHANGED <<logPending, logAccepted, logRemoved>>
      BY <2>3 DEF LogInsert, logQueueVars
    <3>6. QED
      BY <3>1, <3>2, <3>3, <3>4, <3>5 DEF LogInv, LogPlaced
  <2>4. CASE LogInsertFails(f)
    <3>1. PICK pc \in LogWaits, left \in Int : SetFlush(f, pc, <<>>, left)
      BY <2>4, InsertFailsMoves
    <3>2. /\ logFlush'[f].pc \in LogWaits /\ logFlush[f].pc = "insert"
          /\ \A g \in LogFlushers \ {f} : logFlush'[g] = logFlush[g]
      BY <2>1, <2>4, <3>1, SetFlushFacts DEF LogInv, LogWaits, LogInsertFails
    <3>3. QED
      BY <2>4, <3>2 DEF LogInsertFails, logQueueVars, logSetVars, LogInv, LogPlaced, LogWaits
  <2>5. CASE LogRemoveBatch(f)
    <3>1. Ids(logPending') = Ids(logPending) \ Ids(logFlush[f].batch)
      BY <2>5, FlushedFacts DEF LogRemoveBatch, LogInFlight
    <3>2. \A g \in LogFlushers \ {f} : ~LogInFlight(g)
      BY <2>5 DEF LogRemoveBatch, LogInv, LogLocked, LogInFlight
    <3>3. PICK left \in Int : SetFlush(f, "loop", <<>>, left)
      BY <2>1, <2>5 DEF LogRemoveBatch, Unlimited
    <3>4. /\ logFlush'[f].pc = "loop"
          /\ \A g \in LogFlushers \ {f} : logFlush'[g] = logFlush[g]
      BY <2>1, <3>3, SetFlushFacts DEF LogInv, LogWaits
    <3>5. Ids(logFlush[f].batch) \subseteq logDb \cup logRemoved
          /\ UNCHANGED <<logDb, logAccepted, logRemoved>>
      BY <2>5 DEF LogRemoveBatch, logSetVars, LogInv, LogPlaced
    <3>6. QED
      BY <3>1, <3>2, <3>4, <3>5 DEF LogInv, LogPlaced, LogInFlight
  <2>6. CASE LogCleanup(f)
    <3>1. PICK rows \in SUBSET logDb : logDb' = logDb \ rows /\ logRemoved' = logRemoved \cup rows
      BY <2>6 DEF LogCleanup
    <3>2. QED
      BY <2>6, <3>1 DEF LogCleanup, logQueueVars, LogInv, LogPlaced
  <2>7. QED
    BY <1>4, <2>2, <2>3, <2>4, <2>5, <2>6
<1>5. CASE LogClearQueue
  <2>1. \A f \in LogFlushers : logFlush[f].pc # "remove"
    BY <1>5 DEF LogClearQueue, LogInv, LogLocked, LogInFlight, LogFree, LogFlushers
  <2>2. Ids(logPending) \cap (logDb \cup logRemoved) = {}
    BY <2>1, OnlyQueued
  <2>3. Ids(logPending') = {}
    BY <1>5 DEF LogClearQueue, Ids, ToSet
  <2>4. QED
    BY <1>5, <2>1, <2>2, <2>3 DEF LogClearQueue, LogInv, LogPlaced
<1>6. CASE LogClearRows \/ LogClearFails
  <2>1. CASE LogClearRows
    <3>1. PICK rows \in SUBSET logDb : logDb' = logDb \ rows /\ logRemoved' = logRemoved \cup rows
      BY <2>1 DEF LogClearRows
    <3>2. QED
      BY <2>1, <3>1 DEF LogClearRows, logQueueVars, LogInv, LogPlaced
  <2>2. CASE LogClearFails
    BY <2>2 DEF LogClearFails, logQueueVars, logSetVars, LogInv, LogPlaced
  <2>3. QED
    BY <1>6, <2>1, <2>2
<1>7. QED
  BY <1>1, <1>2, <1>3, <1>4, <1>5, <1>6 DEF LogNextStep, LogFlusher, LogCalmStep, LogReadStep

\* A log that left the queue never comes back to it, and one that left the table was
\* removed.
LEMMA NeverBack ==
  ASSUME LogInv, [LogNextStep]_logVars
  PROVE  /\ logDb \cup logRemoved \subseteq logDb' \cup logRemoved'
         /\ logRemoved \subseteq logRemoved'
<1>1. CASE LogCalmStep
  BY <1>1, LogCalmSteps DEF LogCalm
<1>2. CASE LogReadStep
  BY <1>2, ReadSteps DEF LogStill
<1>3. ASSUME NEW w \in LogWriters,
             LogGenerate(w) \/ LogAppendRecent(w) \/ LogEnqueue(w) \/ LogDrop(w)
      PROVE  logDb' = logDb /\ logRemoved' = logRemoved
  BY <1>3 DEF LogGenerate, LogAppendRecent, LogEnqueue, LogDrop, logSetVars
<1>4. ASSUME NEW f \in LogFlushers,
             LogTake(f) \/ LogInsert(f) \/ LogInsertFails(f) \/ LogRemoveBatch(f) \/ LogCleanup(f)
      PROVE  /\ logDb \cup logRemoved \subseteq logDb' \cup logRemoved'
             /\ logRemoved \subseteq logRemoved'
  <2>1. CASE LogCleanup(f)
    <3>1. PICK rows \in SUBSET logDb : logDb' = logDb \ rows /\ logRemoved' = logRemoved \cup rows
      BY <2>1 DEF LogCleanup
    <3>2. QED
      BY <3>1
  <2>2. CASE LogInsert(f)
    BY <2>2 DEF LogInsert
  <2>3. CASE LogTake(f) \/ LogInsertFails(f) \/ LogRemoveBatch(f)
    BY <2>3 DEF LogTake, LogInsertFails, LogRemoveBatch, logSetVars
  <2>4. QED
    BY <1>4, <2>1, <2>2, <2>3
<1>5. CASE LogClearQueue \/ LogClearFails
  BY <1>5 DEF LogClearQueue, LogClearFails, logSetVars
<1>6. CASE LogClearRows
  <2>1. PICK rows \in SUBSET logDb : logDb' = logDb \ rows /\ logRemoved' = logRemoved \cup rows
    BY <1>6 DEF LogClearRows
  <2>2. QED
    BY <2>1
<1>7. QED
  BY <1>1, <1>2, <1>3, <1>4, <1>5, <1>6 DEF LogNextStep, LogFlusher, LogCalmStep, LogReadStep

LEMMA StepSought ==
  ASSUME LogInv, [LogNextStep]_logVars
  PROVE  LogSought'
<1>1. CASE logRead' = logRead
  BY <1>1, NeverBack DEF LogInv, LogSought
<1>2. CASE LogReadStep
  <2>1. PICK r \in LogReaders :
          \/ \E id \in LogIds : LogGetPending(r, id)
          \/ \E cursor \in 0..LogLast : LogListPending(r, cursor)
          \/ LogGetRecent(r) \/ LogGetRow(r) \/ LogListRows(r) \/ LogReadDone(r)
    BY <1>2 DEF LogReadStep
  <2>2. UNCHANGED <<logDb, logRemoved>>
    BY <1>2, ReadSteps DEF LogStill
  <2>3. \A q \in LogReaders \ {r} : logRead'[q] = logRead[q]
    BY <2>1 DEF LogGetPending, LogListPending, LogGetRecent, LogGetRow, LogListRows, LogReadDone,
       SetRead, LogInv, LogShape
  <2>4. /\ logRead'[r].pc \in {"recent", "row"} => logRead'[r].id \in logDb \cup logRemoved
        /\ logRead'[r].pc = "notfound" => logRead'[r].id \in logRemoved
    <3>1. ASSUME NEW id \in LogIds, LogGetPending(r, id)
          PROVE  logRead'[r].pc = "recent" /\ logRead'[r].id \in logDb \cup logRemoved
      BY <3>1 DEF LogGetPending, SetRead, LogInv, LogShape, LogPlaced
    <3>2. CASE LogGetRecent(r)
      BY <3>2 DEF LogGetRecent, SetRead, LogInv, LogShape, LogSought
    <3>3. CASE LogGetRow(r)
      BY <3>3 DEF LogGetRow, SetRead, LogInv, LogShape, LogSought
    <3>4. CASE (\E cursor \in 0..LogLast : LogListPending(r, cursor)) \/ LogListRows(r)
               \/ LogReadDone(r)
      <4>1. logRead'[r].pc \in {"listed", "rows", "idle"}
        <5>1. ASSUME NEW pc, NEW id, NEW cached, NEW page, NEW live,
                     SetRead(r, pc, id, cached, page, live)
              PROVE  logRead'[r].pc = pc
          BY <5>1 DEF SetRead, LogInv, LogShape
        <5>2. ASSUME NEW cursor \in 0..LogLast, LogListPending(r, cursor)
              PROVE  logRead'[r].pc \in {"listed", "rows"}
          BY <5>1, <5>2 DEF LogListPending
        <5>3. CASE LogListRows(r)
          BY <5>1, <5>3 DEF LogListRows
        <5>4. CASE LogReadDone(r)
          BY <5>1, <5>4 DEF LogReadDone
        <5>5. QED
          BY <3>4, <5>2, <5>3, <5>4
      <4>2. QED
        BY <4>1
    <3>5. QED
      BY <2>1, <3>1, <3>2, <3>3, <3>4
  <2>5. QED
    BY <2>2, <2>3, <2>4 DEF LogInv, LogSought
<1>3. CASE LogCalmStep
  BY <1>1, <1>3, LogCalmSteps DEF LogCalm
<1>4. ASSUME NEW w \in LogWriters,
             LogGenerate(w) \/ LogAppendRecent(w) \/ LogEnqueue(w) \/ LogDrop(w)
      PROVE  logRead' = logRead
  BY <1>4 DEF LogGenerate, LogAppendRecent, LogEnqueue, LogDrop
<1>5. ASSUME NEW f \in LogFlushers,
             LogTake(f) \/ LogInsert(f) \/ LogInsertFails(f) \/ LogRemoveBatch(f) \/ LogCleanup(f)
      PROVE  logRead' = logRead
  BY <1>5 DEF LogTake, LogInsert, LogInsertFails, LogRemoveBatch, LogCleanup, FlushRest
<1>6. CASE LogClearQueue \/ LogClearRows \/ LogClearFails
  BY <1>1, <1>6 DEF LogClearQueue, LogClearRows, LogClearFails
<1>7. QED
  BY <1>1, <1>2, <1>3, <1>4, <1>5, <1>6 DEF LogNextStep, LogFlusher, LogCalmStep, LogReadStep

LEMMA LogInitially == LogInit => LogInv
<1> SUFFICES ASSUME LogInit PROVE LogInv
  OBVIOUS
<1>1. LogShape /\ LogHooked
  BY LogAssumption DEF LogInit, LogShape, LogHooked, LogFlushing, LogWaits, NotAdding, LogFlushers, LogAssumption
<1>2. LogLocked
  BY DEF LogInit, LogLocked, LogInFlight, LogFree, LogFlushers
<1>3. LogDrawn
  BY DEF LogInit, LogDrawn, NotAdding
<1>4. LogQueued
  BY DEF LogInit, LogQueued, LogInFlight, IsInjective
<1>5. LogPlaced /\ LogSought
  BY DEF LogInit, LogPlaced, LogSought, Ids, ToSet
<1>6. QED
  BY <1>1, <1>2, <1>3, <1>4, <1>5 DEF LogInv

\* The invariant holds along every behaviour of the log.
THEOREM LogInvariance == LogSpec => []LogInv
<1>1. LogInv /\ [LogNextStep]_logVars => LogInv'
  BY StepShape, StepLocked, StepHooked, StepDrawn, StepQueued, StepPlaced, StepSought DEF LogInv
<1>2. QED
  BY <1>1, LogInitially, PTL DEF LogSpec

\* RelayLogGet (op/log.go), which looks in the queue, the ring and the table one after
\* the other, reports no kept log as missing, whatever is flushed meanwhile.
THEOREM KeptLogsAreFound == LogSpec => []LogGetFinds
<1>1. LogInv => LogGetFinds
  BY DEF LogInv, LogSought, LogGetFinds
<1>2. QED
  BY <1>1, LogInvariance, PTL

-----------------------------------------------------------------------------
(* The refinement *)

LogStage(l) ==
  IF l \in logDb THEN "stored"
  ELSE IF l \in logRemoved THEN "gone"
  ELSE IF l \in Ids(logPending) THEN "waiting" ELSE "unseen"

LifeIsStage == Life = [l \in LogIds |-> LogStage(l)]

LEMMA Stages == LogPlaced => LifeIsStage
<1> SUFFICES ASSUME LogPlaced PROVE LifeIsStage
  OBVIOUS
<1>1. logAccepted = Ids(logPending) \cup logDb \cup logRemoved /\ logDb \cap logRemoved = {}
  BY DEF LogPlaced
<1>2. ASSUME NEW l \in LogIds
      PROVE  Life[l] = LogStage(l)
  <2>1. CASE l \in logDb
    BY <1>1, <2>1 DEF Life, LogStage
  <2>2. CASE l \in logRemoved
    BY <1>1, <2>2 DEF Life, LogStage
  <2>3. CASE l \in Ids(logPending) /\ l \notin logDb \cup logRemoved
    BY <1>1, <2>3 DEF Life, LogStage
  <2>4. CASE l \notin Ids(logPending) \cup logDb \cup logRemoved
    BY <1>1, <2>4 DEF Life, LogStage
  <2>5. QED
    BY <2>1, <2>2, <2>3, <2>4
<1>3. QED
  BY <1>2 DEF LifeIsStage, Life

\* What the stages say of a step: the logs in moved go to one stage, the others stay.
LEMMA LifeMoves ==
  ASSUME LifeIsStage, LifeIsStage', NEW moved \in SUBSET LogIds, NEW to,
         \A l \in moved : LogStage(l)' = to,
         \A l \in LogIds \ moved : LogStage(l)' = LogStage(l)
  PROVE  Lives!Move(moved, to)
<1>1. Life' = [l \in LogIds |-> IF l \in moved THEN to ELSE Life[l]]
  BY DEF LifeIsStage
<1>2. QED
  BY <1>1 DEF Lives!Move

\* Every step of the log is a step of some logs' lives, or none.
LEMMA StepLife ==
  ASSUME LogInv, LogInv', LifeIsStage, LifeIsStage', [LogNextStep]_logVars
  PROVE  [Lives!LifeNext]_Life
<1> DEFINE Same == \A l \in LogIds : LogStage(l)' = LogStage(l)
<1>1. ASSUME UNCHANGED <<logPending, logDb, logRemoved>>
      PROVE  Life' = Life
  BY <1>1 DEF LifeIsStage, LogStage
<1>2. ASSUME NEW rows \in SUBSET logDb, logDb' = logDb \ rows, logRemoved' = logRemoved \cup rows,
             logPending' = logPending
      PROVE  Lives!LifeNext
  <2>1. rows \in SUBSET LogIds /\ \A l \in rows : Life[l] = "stored"
    BY <1>2 DEF LifeIsStage, LogStage, LogInv, LogPlaced, LogDrawn
  <2>2. \A l \in rows : LogStage(l)' = "gone"
    BY <1>2 DEF LogStage
  <2>3. \A l \in LogIds \ rows : LogStage(l)' = LogStage(l)
    BY <1>2 DEF LogStage
  <2>4. Lives!Move(rows, "gone")
    BY <2>1, <2>2, <2>3, LifeMoves
  <2>5. QED
    BY <2>1, <2>4 DEF Lives!LifeNext, Lives!Discard
<1>3. CASE LogCalmStep \/ LogReadStep
  BY <1>1, <1>3, LogCalmSteps, ReadSteps DEF LogCalm, LogStill
<1>4. ASSUME NEW w \in LogWriters,
             LogGenerate(w) \/ LogAppendRecent(w) \/ LogEnqueue(w) \/ LogDrop(w)
      PROVE  [Lives!LifeNext]_Life
  <2>1. CASE LogEnqueue(w)
    <3>0. PICK id \in LogIds : id = logAdd[w].id
      BY <2>1 DEF LogEnqueue, LogInv, LogDrawn
    <3>1. id \in LogIds /\ id \notin logAccepted /\ UNCHANGED <<logDb, logRemoved>>
      BY <2>1, <3>0 DEF LogEnqueue, LogInv, LogDrawn
    <3>2. Ids(logPending') = Ids(logPending) \cup {id}
      BY <2>1, <3>0, <3>1, AppendOne DEF LogEnqueue, LogInv, LogShape
    <3>3. id \notin Ids(logPending) \cup logDb \cup logRemoved
      BY <3>1 DEF LogInv, LogPlaced
    <3>4. Life[id] = "unseen" /\ LogStage(id)' = "waiting"
      BY <3>1, <3>2, <3>3 DEF LifeIsStage, LogStage
    <3>5. \A l \in LogIds \ {id} : LogStage(l)' = LogStage(l)
      BY <3>1, <3>2 DEF LogStage
    <3>6. Lives!Move({id}, "waiting")
      BY <3>1, <3>4, <3>5, LifeMoves
    <3>7. QED
      BY <3>1, <3>4, <3>6 DEF Lives!LifeNext, Lives!Accept
  <2>2. CASE LogGenerate(w) \/ LogAppendRecent(w) \/ LogDrop(w)
    BY <1>1, <2>2 DEF LogGenerate, LogAppendRecent, LogDrop, logQueueVars, logSetVars
  <2>3. QED
    BY <1>4, <2>1, <2>2
<1>5. ASSUME NEW f \in LogFlushers,
             LogTake(f) \/ LogInsert(f) \/ LogInsertFails(f) \/ LogRemoveBatch(f) \/ LogCleanup(f)
      PROVE  [Lives!LifeNext]_Life
  <2>1. CASE LogTake(f) \/ LogInsertFails(f)
    BY <1>1, <2>1 DEF LogTake, LogInsertFails, logQueueVars, logSetVars
  <2>2. CASE LogInsert(f)
    <3> DEFINE stored == Ids(logFlush[f].batch)
    <3>1. \A g \in LogFlushers : logFlush[g].pc # "remove"
      BY <2>2 DEF LogInsert, LogInv, LogLocked, LogInFlight
    <3>2. Ids(logPending) \cap (logDb \cup logRemoved) = {}
      BY <3>1, OnlyQueued
    <3>3. stored \subseteq Ids(logPending) /\ Ids(logPending) \subseteq LogIds
      <4>1. logPending \in Seq(LogIds) /\ logFlush[f].batch \in Seq(LogIds)
        BY DEF LogInv, LogShape, LogFlushing
      <4>2. /\ Len(logFlush[f].batch) \in 1 .. Len(logPending)
            /\ \A i \in 1 .. Len(logFlush[f].batch) : logFlush[f].batch[i] = logPending[i]
        BY <2>2 DEF LogInsert, LogInFlight, LogInv, LogQueued
      <4>3. QED
        BY <4>1, <4>2 DEF Ids, ToSet
    <3>4. logDb' = logDb \cup stored /\ UNCHANGED <<logPending, logRemoved>>
      BY <2>2 DEF LogInsert, logQueueVars
    <3> HIDE DEF stored
    <3>5. stored \in SUBSET LogIds /\ \A l \in stored : Life[l] = "waiting" /\ LogStage(l)' = "stored"
      BY <3>2, <3>3, <3>4 DEF LifeIsStage, LogStage
    <3>6. \A l \in LogIds \ stored : LogStage(l)' = LogStage(l)
      BY <3>4 DEF LogStage
    <3>7. Lives!Move(stored, "stored")
      BY <3>5, <3>6, LifeMoves
    <3>8. QED
      BY <3>5, <3>7 DEF Lives!LifeNext, Lives!Store
  <2>3. CASE LogRemoveBatch(f)
    <3>1. Ids(logPending') = Ids(logPending) \ Ids(logFlush[f].batch)
      BY <2>3, FlushedFacts DEF LogRemoveBatch, LogInFlight
    <3>2. Ids(logFlush[f].batch) \subseteq logDb \cup logRemoved
          /\ UNCHANGED <<logDb, logRemoved>>
      BY <2>3 DEF LogRemoveBatch, logSetVars, LogInv, LogPlaced
    <3>3. \A l \in LogIds : LogStage(l)' = LogStage(l)
      BY <3>1, <3>2 DEF LogStage
    <3>4. QED
      BY <3>3 DEF LifeIsStage
  <2>4. CASE LogCleanup(f)
    <3>1. PICK rows \in SUBSET logDb : logDb' = logDb \ rows /\ logRemoved' = logRemoved \cup rows
      BY <2>4 DEF LogCleanup
    <3>2. QED
      BY <1>2, <2>4, <3>1 DEF LogCleanup, logQueueVars
  <2>5. QED
    BY <1>5, <2>1, <2>2, <2>3, <2>4
<1>6. CASE LogClearQueue
  <2>1. \A f \in LogFlushers : logFlush[f].pc # "remove"
    BY <1>6 DEF LogClearQueue, LogInv, LogLocked, LogInFlight, LogFree, LogFlushers
  <2>2. Ids(logPending) \cap (logDb \cup logRemoved) = {}
    BY <2>1, OnlyQueued
  <2>3. Ids(logPending') = {} /\ logDb' = logDb /\ logRemoved' = logRemoved \cup Ids(logPending)
    BY <1>6 DEF LogClearQueue, Ids, ToSet
  <2>4. Ids(logPending) \in SUBSET LogIds
    BY DEF LogInv, LogShape, Ids, ToSet
  <2>5. \A l \in Ids(logPending) : Life[l] = "waiting" /\ LogStage(l)' = "gone"
    BY <2>2, <2>3, <2>4 DEF LifeIsStage, LogStage
  <2>6. \A l \in LogIds \ Ids(logPending) : LogStage(l)' = LogStage(l)
    BY <2>3 DEF LogStage
  <2>7. Lives!Move(Ids(logPending), "gone")
    BY <2>4, <2>5, <2>6, LifeMoves
  <2>8. QED
    BY <2>4, <2>5, <2>7 DEF Lives!LifeNext, Lives!Discard
<1>7. CASE LogClearRows
  <2>1. PICK rows \in SUBSET logDb : logDb' = logDb \ rows /\ logRemoved' = logRemoved \cup rows
    BY <1>7 DEF LogClearRows
  <2>2. QED
    BY <1>2, <1>7, <2>1 DEF LogClearRows, logQueueVars
<1>8. CASE LogClearFails
  BY <1>1, <1>8 DEF LogClearFails, logQueueVars, logSetVars
<1>9. QED
  BY <1>3, <1>4, <1>5, <1>6, <1>7, <1>8 DEF LogNextStep, LogFlusher, LogCalmStep, LogReadStep

\* No flush, failure, clear, cleanup or shutdown, in any interleaving, loses an accepted
\* log that was not removed or brings a removed one back (flushRelayLogs, RelayLogClear).
THEOREM ImplementsLife == LogSpec => LogImplementsLife
<1>1. LogInit => Lives!LifeInit
  <2>1. SUFFICES ASSUME LogInit PROVE Lives!LifeInit
    OBVIOUS
  <2>2. LifeIsStage
    BY <2>1, LogInitially, Stages DEF LogInv
  <2>3. QED
    BY <2>1, <2>2 DEF LifeIsStage, LogStage, LogInit, Ids, ToSet, Lives!LifeInit
<1>2. LogInv => LifeIsStage
  BY Stages DEF LogInv
<1>3. LogInv /\ LogInv' /\ LifeIsStage /\ LifeIsStage' /\ [LogNextStep]_logVars
        => [Lives!LifeNext]_Life
  BY StepLife
<1>4. QED
  BY <1>1, <1>2, <1>3, LogInvariance, PTL DEF LogSpec, LogImplementsLife, Lives!LifeSpec

(* ---- the queue's bytes (RelayLog) ---- *)

\* The sizes of the logs of a queue, place by place.
LogBytesIn(queue) == [i \in DOMAIN queue |-> LogBytes[queue[i]]]

\* The bytes of a queue are the sum of them.
LEMMA BytesAreTotal ==
  ASSUME NEW queue \in Seq(LogIds)
  PROVE  /\ BytesOf(queue) = Total(LogBytesIn(queue), 1..Len(queue))
         /\ \A i \in 1..Len(queue) : LogBytesIn(queue)[i] = LogBytes[queue[i]] /\ LogBytes[queue[i]] \in Nat
         /\ BytesOf(queue) \in Nat
<1>1. \A i \in 1..Len(queue) : LogBytesIn(queue)[i] = LogBytes[queue[i]] /\ LogBytes[queue[i]] \in Nat
  BY LogAssumption DEF LogBytesIn
<1>2. DOMAIN LogBytesIn(queue) = 1..Len(queue)
  BY DEF LogBytesIn
<1>3. BytesOf(queue) = Total(LogBytesIn(queue), 1..Len(queue))
  BY <1>2, SumIsTotal DEF BytesOf, LogBytesIn
<1>4. Total(LogBytesIn(queue), 1..Len(queue)) \in Nat
  <2>1. \A i \in 1..Len(queue) : LogBytesIn(queue)[i] \in Nat
    BY <1>1
  <2> QED  BY <2>1, RowsAreFinite, TotalNatural
<1> QED  BY <1>1, <1>3, <1>4

\* A log put in adds its size ...
LEMMA BytesOfMore ==
  ASSUME NEW queue \in Seq(LogIds), NEW id \in LogIds
  PROVE  BytesOf(Append(queue, id)) = BytesOf(queue) + LogBytes[id]
<1> DEFINE more == Append(queue, id)
           n == Len(queue)
<1>1. more \in Seq(LogIds) /\ Len(more) = n + 1 /\ more[n + 1] = id /\ \A i \in 1..n : more[i] = queue[i]
  OBVIOUS
<1> HIDE DEF more
<1>2. /\ BytesOf(more) = Total(LogBytesIn(more), 1..(n + 1))
      /\ BytesOf(queue) = Total(LogBytesIn(queue), 1..n)
      /\ \A i \in 1..(n + 1) : LogBytesIn(more)[i] = LogBytes[more[i]] /\ LogBytes[more[i]] \in Nat
      /\ \A i \in 1..n : LogBytesIn(queue)[i] = LogBytes[queue[i]]
  BY <1>1, BytesAreTotal
<1>3. Total(LogBytesIn(more), 1..(n + 1)) = Total(LogBytesIn(more), 1..n) + LogBytesIn(more)[n + 1]
  BY <1>2, TotalGrows
<1>4. Total(LogBytesIn(more), 1..n) = Total(LogBytesIn(queue), 1..n)
  <2>1. \A i \in 1..n : LogBytesIn(more)[i] = LogBytesIn(queue)[i]
    BY <1>1, <1>2
  <2> QED  BY <2>1, RowsAreFinite, TotalSame
<1>5. LogBytesIn(more)[n + 1] = LogBytes[id]
  BY <1>1, <1>2
<1> QED  BY <1>2, <1>3, <1>4, <1>5 DEF more

\* ... and a batch cut off its head takes its own with it.
LEMMA BytesOfRest ==
  ASSUME NEW queue \in Seq(LogIds), NEW batch \in Seq(LogIds), Len(batch) <= Len(queue),
         \A i \in 1..Len(batch) : batch[i] = queue[i]
  PROVE  BytesOf(SubSeq(queue, Len(batch) + 1, Len(queue))) = BytesOf(queue) - BytesOf(batch)
<1> DEFINE n == Len(batch)
           rest == SubSeq(queue, n + 1, Len(queue))
           m == Len(queue) - n
           l == Len(queue)
<1>1. n \in Nat /\ m \in Nat /\ l = n + m
  OBVIOUS
<1>2. rest \in Seq(LogIds) /\ Len(rest) = m /\ \A i \in 1..m : rest[i] = queue[n + i]
  OBVIOUS
<1> HIDE DEF rest, m
<1> DEFINE f == LogBytesIn(queue)
           g == LogBytesIn(rest)
           h == LogBytesIn(batch)
<1>3. /\ BytesOf(queue) = Total(f, 1..l) /\ BytesOf(batch) = Total(h, 1..n)
      /\ BytesOf(rest) = Total(g, 1..m)
      /\ BytesOf(rest) \in Nat /\ BytesOf(batch) \in Nat
      /\ \A i \in 1..l : f[i] = LogBytes[queue[i]] /\ LogBytes[queue[i]] \in Nat
      /\ \A i \in 1..n : h[i] = LogBytes[batch[i]]
      /\ \A i \in 1..m : g[i] = LogBytes[rest[i]]
  BY <1>1, <1>2, BytesAreTotal
<1> HIDE DEF f, g, h, n, l
<1>4. \A i \in 1..m : n + i \in 1..l
  BY <1>1
<1>5. \A i \in 1..m : g[i] = f[n + i]
  BY <1>2, <1>3, <1>4
<1>6. Total(f, 1..l) = Total(f, 1..n) + Total(g, 1..m)
  <2>1. \A i \in 1..l : f[i] \in Int
    BY <1>3
  <2> QED  BY <1>1, <1>5, <2>1, TotalParts
<1>7. Total(f, 1..n) = Total(h, 1..n)
  <2>1. \A i \in 1..n : f[i] = h[i]
    BY <1>1, <1>3 DEF n
  <2> QED  BY <1>1, <2>1, RowsAreFinite, TotalSame
<1>8. BytesOf(rest) = BytesOf(queue) - BytesOf(batch)
  BY <1>3, <1>6, <1>7
<1> QED  BY <1>8 DEF rest, n

\* The byte counter is what the queue holds, and the queue is within both of its limits.
LogCounted ==
  /\ logPendingBytes = BytesOf(logPending)
  /\ logPendingBytes <= LogQueueBytes /\ Len(logPending) <= LogQueueSize

\* An empty queue holds nothing.
LEMMA BytesOfNone == BytesOf(<<>>) = 0
<1>1. <<>> \in Seq(LogIds) /\ Len(<<>>) = 0 /\ 1..0 = {}
  OBVIOUS
<1> QED  BY <1>1, BytesAreTotal, TotalEmpty

\* Every step keeps it: an insertion adds what the queue gains, unless the queue refuses
\* it, and a flush takes off what its batch was, because the batch is the head of the queue.
LEMMA StepCounted ==
  ASSUME LogInv, LogCounted, [LogNextStep]_logVars
  PROVE  LogCounted'
<1>0. /\ logPending \in Seq(LogIds) /\ LogQueueBytes \in Nat /\ LogQueueSize \in Nat \ {0}
      /\ BytesOf(logPending) \in Nat
  BY LogAssumption, BytesAreTotal DEF LogInv, LogShape
<1>1. CASE UNCHANGED logQueueVars
  BY <1>1 DEF LogCounted, logQueueVars, BytesOf
<1>2. ASSUME NEW w \in LogWriters, LogEnqueue(w) PROVE LogCounted'
  <2> DEFINE id == logAdd[w].id
  <2>1. /\ logPending' = Append(logPending, id) /\ logPendingBytes' = logPendingBytes + LogBytes[id]
        /\ ~QueueRefuses(id) /\ logAdd[w].pc # "idle"
    BY <1>2 DEF LogEnqueue
  <2>2. id \in LogIds
    BY <2>1 DEF LogInv, LogDrawn
  <2> HIDE DEF id
  <2>3. BytesOf(logPending') = BytesOf(logPending) + LogBytes[id] /\ LogBytes[id] \in Nat
    BY <1>0, <2>1, <2>2, BytesOfMore, LogAssumption
  <2>4. Len(logPending') = Len(logPending) + 1 /\ Len(logPending) \in Nat
    BY <1>0, <2>1, <2>2
  <2>5. /\ logPendingBytes' = BytesOf(logPending') /\ logPendingBytes' <= LogQueueBytes
        /\ Len(logPending') <= LogQueueSize
    BY <1>0, <2>1, <2>3, <2>4 DEF LogCounted, QueueRefuses
  <2> QED  BY <2>5 DEF LogCounted, BytesOf
<1>3. ASSUME NEW f \in LogFlushers, LogRemoveBatch(f) PROVE LogCounted'
  <2> DEFINE batch == logFlush[f].batch
             n == Len(batch)
             rest == SubSeq(logPending, n + 1, Len(logPending))
  <2>1. LogInFlight(f)
    BY <1>3 DEF LogRemoveBatch, LogInFlight
  <2>2. /\ batch \in Seq(LogIds) /\ n \in 1..Len(logPending) /\ \A i \in 1..n : batch[i] = logPending[i]
    BY <2>1 DEF LogInv, LogShape, LogFlushing, LogQueued
  <2>3. /\ logPending' = Flushed(batch, logPending, logPendingBytes).queue
        /\ logPendingBytes' = Flushed(batch, logPending, logPendingBytes).bytes
    BY <1>3 DEF LogRemoveBatch
  <2> HIDE DEF batch
  <2>4. logPending[1] = batch[1] /\ logPending[n] = batch[n] /\ Len(logPending) >= n
    BY <1>0, <2>2
  <2>5. rest \in Seq(LogIds) /\ Len(rest) = Len(logPending) - n
    BY <1>0, <2>2
  <2>6. BytesOf(rest) = BytesOf(logPending) - BytesOf(batch) /\ BytesOf(rest) \in Nat /\ BytesOf(batch) \in Nat
    <3>1. BytesOf(rest) \in Nat /\ BytesOf(batch) \in Nat
      BY <2>2, <2>5, BytesAreTotal
    <3>2. Len(batch) <= Len(logPending)
      BY <1>0, <2>2
    <3>3. BytesOf(rest) = BytesOf(logPending) - BytesOf(batch)
      BY <1>0, <2>2, <3>2, BytesOfRest
    <3> QED  BY <3>1, <3>3
  <2>7. logPending' = rest
    BY <2>3, <2>4 DEF Flushed
  <2>8. logPendingBytes' = IF rest = <<>> \/ logPendingBytes - BytesOf(batch) < 0
                             THEN 0 ELSE logPendingBytes - BytesOf(batch)
    BY <2>3, <2>4 DEF Flushed
  <2>9. logPendingBytes' = BytesOf(rest)
    <3> HIDE DEF rest, n
    <3> QED  BY <1>0, <2>6, <2>8, BytesOfNone DEF LogCounted
  <2>10. /\ logPendingBytes' = BytesOf(logPending') /\ logPendingBytes' <= LogQueueBytes
         /\ Len(logPending') <= LogQueueSize
    <3> HIDE DEF rest
    <3> QED  BY <1>0, <2>2, <2>5, <2>6, <2>7, <2>9 DEF LogCounted
  <2> QED  BY <2>10 DEF LogCounted, BytesOf
<1>4. CASE LogClearQueue
  <2>1. logPending' = <<>> /\ logPendingBytes' = 0
    BY <1>4 DEF LogClearQueue
  <2>2. BytesOf(logPending') = 0 /\ Len(logPending') = 0
    BY <2>1, BytesOfNone
  <2>3. logPendingBytes' = BytesOf(logPending') /\ logPendingBytes' <= LogQueueBytes
        /\ Len(logPending') <= LogQueueSize
    BY <1>0, <2>1, <2>2
  <2> QED  BY <2>3 DEF LogCounted, BytesOf
<1>5. CASE \/ LogToggle \/ LogShutdown \/ LogStopWriter \/ LogCloseDb
           \/ LogWriterWake \/ LogWriterLast \/ LogTaskStart
           \/ LogClearRecent \/ LogClearRows \/ LogClearFails \/ UNCHANGED logVars
  BY <1>1, <1>5 DEF LogToggle, LogShutdown, LogStopWriter, LogCloseDb, LogWriterWake, LogWriterLast,
     LogTaskStart, LogClearRecent, LogClearRows, LogClearFails, logVars, logQueueVars
<1>6. ASSUME NEW w \in LogWriters, LogGenerate(w) \/ LogAppendRecent(w) \/ LogDrop(w) PROVE LogCounted'
  BY <1>1, <1>6 DEF LogGenerate, LogAppendRecent, LogDrop
<1>7. ASSUME NEW f \in LogFlushers, LogFlusher(f), ~LogRemoveBatch(f) PROVE LogCounted'
  BY <1>1, <1>7 DEF LogFlusher, LogLoopDone, LogLoopCancelled, LogTake, LogInsert, LogInsertFails,
     LogCleanup, LogCleanupDone
<1>8. CASE LogReadStep
  BY <1>1, <1>8 DEF LogReadStep, ReadRest, LogGetPending, LogListPending, LogGetRecent, LogGetRow, LogListRows,
     LogReadDone
<1> QED
  BY <1>2, <1>3, <1>4, <1>5, <1>6, <1>7, <1>8 DEF LogNextStep, LogReadStep

\* The queue of unwritten logs is within its limits and its bytes are counted right, and a
\* batch that is being written is still at its head.
THEOREM QueueIsAccounted == LogSpec => []LogQueueAccounted
<1>1. LogInit => LogCounted
  BY BytesOfNone, LogAssumption DEF LogInit, LogCounted
<1>2. LogInv /\ LogCounted /\ [LogNextStep]_logVars => LogCounted'
  BY StepCounted
<1>3. LogInv /\ LogCounted => LogQueueAccounted
  <2> SUFFICES ASSUME LogInv, LogCounted, NEW f \in LogFlushers, LogInFlight(f)
               PROVE  IsPrefix(logFlush[f].batch, logPending)
    BY DEF LogCounted, LogQueueAccounted, LogInFlight
  <2> DEFINE batch == logFlush[f].batch
  <2>1. /\ batch \in Seq(LogIds) /\ logPending \in Seq(LogIds)
        /\ Len(batch) \in 1..Len(logPending) /\ \A i \in 1..Len(batch) : batch[i] = logPending[i]
    BY DEF LogInv, LogShape, LogFlushing, LogQueued
  <2> HIDE DEF batch
  <2>2. IsPrefix(batch, logPending)
    BY <2>1 DEF IsPrefix
  <2> QED  BY <2>2 DEF batch
<1> QED  BY <1>1, <1>2, <1>3, LogInvariance, PTL DEF LogSpec

(* ---- what administrators list (RelayLog) ---- *)

\* What Keeping builds, up to each place of the list.
KeepStep(before, logs, shown, i) ==
  IF i = 0 THEN <<>> ELSE IF logs[i] \in shown THEN Append(before, logs[i]) ELSE before

KeepsUpto(kept, logs, shown, n) == kept = [i \in 0..n |-> KeepStep(kept[i - 1], logs, shown, i)]

\* So Keeping is defined.
LEMMA KeepingKeeps ==
  ASSUME NEW logs, NEW shown
  PROVE  Keeping(logs, shown) = (CHOOSE kept : KeepsUpto(kept, logs, shown, Len(logs)))[Len(logs)]
  BY DEF Keeping, KeepsUpto, KeepStep

\* It exists, longer and longer.
LEMMA KeepsExists ==
  ASSUME NEW logs, NEW shown
  PROVE  \A n \in Nat : \E kept : KeepsUpto(kept, logs, shown, n)
<1> DEFINE G == {n \in Nat : \E kept : KeepsUpto(kept, logs, shown, n)}
           At(kept, i) == KeepStep(kept[i - 1], logs, shown, i)
<1>1. 0 \in G
  <2> DEFINE kept == [i \in 0..0 |-> <<>>]
  <2>1. \A i \in 0..0 : At(kept, i) = <<>>
    BY DEF KeepStep
  <2>2. KeepsUpto(kept, logs, shown, 0)
    <3> HIDE DEF At
    <3>1. kept = [i \in 0..0 |-> At(kept, i)]
      BY <2>1
    <3> HIDE DEF kept
    <3> QED  BY <3>1 DEF KeepsUpto, At
  <2> QED  BY <2>2
<1>2. ASSUME NEW n \in Nat, n \in G PROVE n + 1 \in G
  <2>1. PICK kept : KeepsUpto(kept, logs, shown, n)
    BY <1>2
  <2> DEFINE more == [i \in 0..(n + 1) |-> At(kept, i)]
  <2>2. \A i \in 0..n : more[i] = kept[i]
    BY <2>1 DEF KeepsUpto
  <2>3. \A i \in 0..(n + 1) : At(more, i) = At(kept, i)
    <3>1. \A i \in 0..(n + 1) : i = 0 \/ i - 1 \in 0..n
      OBVIOUS
    <3> HIDE DEF more
    <3> QED  BY <2>2, <3>1 DEF KeepStep
  <2>4. KeepsUpto(more, logs, shown, n + 1)
    <3> HIDE DEF At
    <3>1. more = [i \in 0..(n + 1) |-> At(more, i)]
      BY <2>3
    <3> HIDE DEF more
    <3> QED  BY <3>1 DEF KeepsUpto, At
  <2> QED  BY <2>4
<1> HIDE DEF G
<1>3. \A n \in Nat : n \in G
  BY <1>1, <1>2, Upward
<1> QED  BY <1>3 DEF G

\* What is kept of a list is a list of those of its logs that are to be shown, none of them
\* twice if the list has none twice, and the whole list if all are to be shown.
LEMMA KeepingFacts ==
  ASSUME NEW logs \in Seq(LogIds), NEW shown
  PROVE  /\ Keeping(logs, shown) \in Seq(LogIds)
         /\ Ids(Keeping(logs, shown)) = Ids(logs) \cap shown
         /\ IsInjective(logs) => IsInjective(Keeping(logs, shown))
         /\ Ids(logs) \subseteq shown => Len(Keeping(logs, shown)) = Len(logs)
<1> DEFINE l == Len(logs)
           kept == CHOOSE kept : KeepsUpto(kept, logs, shown, l)
<1>0. l \in Nat /\ DOMAIN logs = 1..l /\ \A i \in 1..l : logs[i] \in LogIds
  OBVIOUS
<1>1. KeepsUpto(kept, logs, shown, l)
  BY <1>0, KeepsExists
<1>2. Keeping(logs, shown) = kept[l]
  BY KeepingKeeps
<1>3. Ids(logs) = {logs[j] : j \in 1..l}
  BY <1>0 DEF Ids, ToSet
<1> HIDE DEF kept, l
<1>4. kept[0] = <<>> /\ \A i \in 1..l :
        kept[i] = IF logs[i] \in shown THEN Append(kept[i - 1], logs[i]) ELSE kept[i - 1]
  <2>1. \A i \in 0..l : kept[i] = KeepStep(kept[i - 1], logs, shown, i)
    BY <1>1 DEF KeepsUpto
  <2>2. 0 \in 0..l /\ \A i \in 1..l : i \in 0..l /\ i # 0
    BY <1>0
  <2> QED  BY <2>1, <2>2 DEF KeepStep
<1> DEFINE Good(i) ==
             /\ kept[i] \in Seq(LogIds)
             /\ \A x : (\E j \in 1..Len(kept[i]) : kept[i][j] = x) <=> (\E j \in 1..i : logs[j] = x /\ x \in shown)
             /\ (\A j, k \in 1..l : logs[j] = logs[k] => j = k)
                  => \A j, k \in 1..Len(kept[i]) : kept[i][j] = kept[i][k] => j = k
             /\ (\A j \in 1..l : logs[j] \in shown) => Len(kept[i]) = i
           G == {i \in Nat : i <= l => Good(i)}
<1>5. 0 \in G
  <2>1. kept[0] \in Seq(LogIds) /\ Len(kept[0]) = 0 /\ 1..0 = {}
    BY <1>4
  <2> QED  BY <2>1
<1>6. ASSUME NEW n \in Nat, n \in G PROVE n + 1 \in G
  <2> HIDE DEF Good
  <2> SUFFICES ASSUME n + 1 <= l PROVE Good(n + 1)
    OBVIOUS
  <2>0. Good(n) /\ n + 1 \in 1..l /\ (n + 1) - 1 = n
    BY <1>0, <1>6
  <2> USE DEF Good
  <2> DEFINE a == kept[n]
             b == kept[n + 1]
             x == logs[n + 1]
  <2>1. b = IF x \in shown THEN Append(a, x) ELSE a
    BY <1>4, <2>0
  <2>2. x \in LogIds
    BY <1>0, <2>0
  <2>3. \A j \in 1..(n + 1) : j = n + 1 \/ j \in 1..n
    OBVIOUS
  <2>4. CASE x \notin shown
    <3>1. b = a
      BY <2>1, <2>4
    <3>2. \A y : (\E j \in 1..(n + 1) : logs[j] = y /\ y \in shown) <=> (\E j \in 1..n : logs[j] = y /\ y \in shown)
      BY <2>3, <2>4
    <3>3. ~(\A j \in 1..l : logs[j] \in shown)
      BY <2>0, <2>4
    <3> QED  BY <2>0, <3>1, <3>2, <3>3
  <2>5. CASE x \in shown
    <3> HIDE DEF Good
    <3>0. a \in Seq(LogIds) /\ Len(a) \in Nat
      BY <2>0 DEF Good
    <3>1. /\ b \in Seq(LogIds) /\ Len(b) = Len(a) + 1 /\ b[Len(a) + 1] = x
          /\ \A j \in 1..Len(a) : b[j] = a[j]
      BY <2>1, <2>2, <2>5, <3>0
    <3> HIDE DEF a, b, x
    <3>2. \A j \in 1..Len(b) : j \in 1..Len(a) \/ j = Len(a) + 1
      BY <3>0, <3>1
    <3>3. \A y : (\E j \in 1..Len(a) : a[j] = y) <=> (\E j \in 1..n : logs[j] = y /\ y \in shown)
      BY <2>0 DEF Good, a
    <3>4. \A y : (\E j \in 1..Len(b) : b[j] = y) <=> (\E j \in 1..(n + 1) : logs[j] = y /\ y \in shown)
      <4>1. \A y : (\E j \in 1..Len(b) : b[j] = y) <=> ((\E j \in 1..Len(a) : a[j] = y) \/ y = x)
        <5>1. Len(a) + 1 \in 1..Len(b) /\ 1..Len(a) \subseteq 1..Len(b)
          BY <3>0, <3>1
        <5> QED  BY <3>1, <3>2, <5>1
      <4>2. \A y : (\E j \in 1..(n + 1) : logs[j] = y /\ y \in shown)
                     <=> ((\E j \in 1..n : logs[j] = y /\ y \in shown) \/ y = x)
        BY <2>3, <2>5 DEF x
      <4> QED  BY <3>3, <4>1, <4>2
    <3>5. ASSUME \A j, k \in 1..l : logs[j] = logs[k] => j = k
          PROVE  \A j, k \in 1..Len(b) : b[j] = b[k] => j = k
      <4>1. \A j \in 1..Len(a) : a[j] # x
        <5> SUFFICES ASSUME NEW j \in 1..Len(a), a[j] = x PROVE FALSE
          OBVIOUS
        <5>1. PICK i \in 1..n : logs[i] = x
          BY <3>3
        <5>2. i \in 1..l /\ i # n + 1 /\ logs[i] = logs[n + 1]
          BY <1>0, <2>0, <5>1 DEF x
        <5> QED  BY <2>0, <3>5, <5>2
      <4>2. \A j, k \in 1..Len(a) : a[j] = a[k] => j = k
        BY <2>0, <3>5 DEF Good, a
      <4> QED  BY <3>0, <3>1, <3>2, <4>1, <4>2
    <3>6. (\A j \in 1..l : logs[j] \in shown) => Len(b) = n + 1
      BY <2>0, <3>1 DEF Good, a
    <3> QED  BY <3>1, <3>4, <3>5, <3>6 DEF Good, b
  <2> QED  BY <2>4, <2>5
<1>7. l \in G
  <2> HIDE DEF G
  <2> QED  BY <1>0, <1>5, <1>6, Upward
<1>8. Good(l)
  BY <1>0, <1>7
<1> HIDE DEF Good, G
<1> DEFINE s == Keeping(logs, shown)
<1>9. s \in Seq(LogIds)
  BY <1>2, <1>8 DEF Good
<1>10. Ids(s) = Ids(logs) \cap shown
  <2>1. Ids(s) = {s[j] : j \in 1..Len(s)}
    BY <1>9 DEF Ids, ToSet
  <2>2. \A x : (\E j \in 1..Len(s) : s[j] = x) <=> (\E j \in 1..l : logs[j] = x /\ x \in shown)
    BY <1>2, <1>8 DEF Good
  <2> HIDE DEF s
  <2> QED  BY <1>3, <2>1, <2>2
<1>11. IsInjective(logs) => IsInjective(s)
  <2>1. DOMAIN s = 1..Len(s)
    BY <1>9
  <2>2. (\A j, k \in 1..l : logs[j] = logs[k] => j = k)
          => \A j, k \in 1..Len(s) : s[j] = s[k] => j = k
    BY <1>2, <1>8 DEF Good
  <2> HIDE DEF s
  <2> QED  BY <1>0, <2>1, <2>2 DEF IsInjective
<1>12. Ids(logs) \subseteq shown => Len(s) = l
  BY <1>2, <1>3, <1>8 DEF Good
<1> QED  BY <1>9, <1>10, <1>11, <1>12 DEF l

\* The queue backwards has the same logs.
LEMMA ReverseFacts ==
  ASSUME NEW logs \in Seq(LogIds)
  PROVE  /\ Reverse(logs) \in Seq(LogIds) /\ Ids(Reverse(logs)) = Ids(logs)
         /\ IsInjective(logs) => IsInjective(Reverse(logs))
<1> DEFINE l == Len(logs)
           back == Reverse(logs)
<1>1. l \in Nat /\ DOMAIN logs = 1..l /\ \A i \in 1..l : logs[i] \in LogIds /\ (l - i) + 1 \in 1..l
  OBVIOUS
<1>2. back = [i \in 1..l |-> logs[(l - i) + 1]]
  BY DEF Reverse
<1> HIDE DEF back, l
<1>3. back \in Seq(LogIds) /\ Len(back) = l /\ DOMAIN back = 1..l
  BY <1>1, <1>2
<1>4. \A i \in 1..l : back[i] = logs[(l - i) + 1] /\ logs[i] = back[(l - i) + 1]
  BY <1>1, <1>2
<1>5. Ids(back) = Ids(logs)
  BY <1>1, <1>3, <1>4 DEF Ids, ToSet
<1>6. IsInjective(logs) => IsInjective(back)
  BY <1>1, <1>3, <1>4 DEF IsInjective
<1> QED  BY <1>3, <1>5, <1>6 DEF back

\* Rows in order are these rows, each once: as the order is total, no two rows are newer
\* than equally many.
LEMMA NewestRowsFacts ==
  ASSUME NEW rows \in SUBSET LogIds
  PROVE  /\ NewestRows(rows) \in Seq(LogIds) /\ Ids(NewestRows(rows)) = rows
         /\ IsInjective(NewestRows(rows))
<1> DEFINE Newer(id) == {other \in rows : NewestFirst(other, id)}
           n == Cardinality(rows)
           rank == [id \in rows |-> Cardinality(Newer(id))]
           sorted == NewestRows(rows)
<1>0. /\ IsFiniteSet(rows) /\ n \in Nat /\ \A id \in LogIds : id \in Nat /\ LogTime[id] \in Nat
  <2>1. LogLast \in Nat /\ \A id \in LogIds : id \in Nat /\ LogTime[id] \in Nat
    BY LogAssumption DEF LogIds
  <2>2. IsFiniteSet(LogIds)
    BY <2>1, FS_Interval DEF LogIds
  <2>3. IsFiniteSet(rows)
    BY <2>2, FS_Subset
  <2> QED  BY <2>1, <2>3, FS_CardinalityType
<1>1. \A id \in rows : IsFiniteSet(Newer(id)) /\ Newer(id) \subseteq rows \ {id}
  <2>1. \A id \in rows : Newer(id) \subseteq rows \ {id}
    BY <1>0 DEF NewestFirst
  <2> QED  BY <1>0, <2>1, FS_Subset
<1>2. \A id \in rows : rank[id] \in Nat /\ rank[id] < n
  <2> SUFFICES ASSUME NEW id \in rows PROVE Cardinality(Newer(id)) \in Nat /\ Cardinality(Newer(id)) < n
    OBVIOUS
  <2>1. IsFiniteSet(rows \ {id}) /\ Cardinality(rows \ {id}) = n - 1
    BY <1>0, FS_RemoveElement
  <2>2. Cardinality(Newer(id)) \in Nat /\ Cardinality(Newer(id)) <= Cardinality(rows \ {id})
    BY <1>1, <2>1, FS_Subset, FS_CardinalityType
  <2> QED  BY <1>0, <2>1, <2>2
<1>3. ASSUME NEW id \in rows, NEW other \in rows, NewestFirst(id, other)
      PROVE  Cardinality(Newer(id)) < Cardinality(Newer(other))
  <2>1. Newer(id) \cup {id} \subseteq Newer(other) /\ id \notin Newer(id)
    BY <1>0, <1>3 DEF NewestFirst
  <2>2. /\ IsFiniteSet(Newer(id) \cup {id})
        /\ Cardinality(Newer(id) \cup {id}) = Cardinality(Newer(id)) + 1
    BY <1>1, <2>1, FS_AddElement
  <2>3. Cardinality(Newer(id) \cup {id}) <= Cardinality(Newer(other))
    BY <1>1, <2>1, FS_Subset
  <2>4. Cardinality(Newer(id)) \in Nat /\ Cardinality(Newer(other)) \in Nat
    BY <1>1, FS_CardinalityType
  <2> QED  BY <2>2, <2>3, <2>4
<1>4. \A id, other \in rows : id # other => NewestFirst(id, other) \/ NewestFirst(other, id)
  BY <1>0 DEF NewestFirst
<1>5. \A id, other \in rows : rank[id] = rank[other] => id = other
  <2> SUFFICES ASSUME NEW id \in rows, NEW other \in rows, rank[id] = rank[other], id # other PROVE FALSE
    OBVIOUS
  <2> HIDE DEF Newer
  <2> QED  BY <1>2, <1>3, <1>4
<1>6. \A i \in 1..n : \E id \in rows : rank[id] = i - 1
  <2> DEFINE T == 0..(n - 1)
  <2>1. rank \in Injection(rows, T)
    <3>1. rank \in [rows -> T]
      <4> DEFINE R == rank
      <4>1. DOMAIN R = rows /\ R = [id \in rows |-> R[id]]
        OBVIOUS
      <4>2. \A id \in rows : R[id] \in T
        BY <1>0, <1>2
      <4> HIDE DEF R, T
      <4> QED  BY <4>1, <4>2 DEF R
    <3>2. IsInjective(rank)
      BY <1>5 DEF IsInjective
    <3> QED  BY <3>1, <3>2 DEF Injection
  <2>2. IsFiniteSet(T) /\ Cardinality(T) = n
    BY <1>0, FS_Interval
  <2>3. rank \in Surjection(rows, T)
    <3> HIDE DEF rank, T, n
    <3> QED  BY <2>1, <2>2, FS_Injection DEF n
  <2>4. \A i \in 1..n : i - 1 \in T
    BY <1>0
  <2> HIDE DEF rank, T
  <2> QED  BY <2>3, <2>4 DEF Surjection
<1>7. sorted = [i \in 1..n |-> CHOOSE id \in rows : rank[id] = i - 1]
  <2> DEFINE A(i) == CHOOSE id \in rows : Cardinality(Newer(id)) = i - 1
             B(i) == CHOOSE id \in rows : rank[id] = i - 1
  <2>1. \A i \in 1..n : A(i) = B(i)
    OBVIOUS
  <2>2. sorted = [i \in 1..n |-> A(i)]
    BY DEF NewestRows
  <2> HIDE DEF sorted, A, B
  <2>3. sorted = [i \in 1..n |-> B(i)]
    BY <2>1, <2>2
  <2> QED  BY <2>3 DEF B
<1> HIDE DEF rank, sorted, n
<1>8. \A i \in 1..n : sorted[i] \in rows /\ rank[sorted[i]] = i - 1
  BY <1>6, <1>7
<1>9. sorted \in Seq(LogIds) /\ Len(sorted) = n /\ DOMAIN sorted = 1..n
  BY <1>0, <1>7, <1>8
<1>10. IsInjective(sorted)
  <2>1. \A i, j \in 1..n : sorted[i] = sorted[j] => i - 1 = j - 1
    BY <1>8
  <2>2. \A i, j \in 1..n : i - 1 = j - 1 => i = j
    OBVIOUS
  <2> QED  BY <1>9, <2>1, <2>2 DEF IsInjective
<1>11. Ids(sorted) = rows
  <2>1. \A id \in rows : \E i \in 1..n : sorted[i] = id
    <3> SUFFICES ASSUME NEW id \in rows PROVE \E i \in 1..n : sorted[i] = id
      OBVIOUS
    <3>1. rank[id] + 1 \in 1..n /\ (rank[id] + 1) - 1 = rank[id]
      BY <1>0, <1>2
    <3> QED  BY <1>5, <1>8, <3>1
  <2> QED  BY <1>8, <1>9, <2>1 DEF Ids, ToSet
<1> QED  BY <1>9, <1>10, <1>11 DEF sorted

\* A prefix of a list shows no more, and no log twice.
LEMMA PrefixFacts ==
  ASSUME NEW logs \in Seq(LogIds), NEW n \in 0..Len(logs)
  PROVE  LET head == SubSeq(logs, 1, n) IN
         /\ head \in Seq(LogIds) /\ Len(head) = n /\ Ids(head) \subseteq Ids(logs)
         /\ IsInjective(logs) => IsInjective(head)
         /\ n = Len(logs) => Ids(head) = Ids(logs)
<1> DEFINE head == SubSeq(logs, 1, n)
<1>1. /\ n \in Nat /\ head \in Seq(LogIds) /\ Len(head) = n
      /\ \A i \in 1..n : head[i] = logs[i] /\ i \in 1..Len(logs)
  OBVIOUS
<1> HIDE DEF head
<1>2. Ids(head) \subseteq Ids(logs)
  BY <1>1 DEF Ids, ToSet
<1>3. IsInjective(logs) => IsInjective(head)
  BY <1>1 DEF IsInjective
<1>4. n = Len(logs) => Ids(head) = Ids(logs)
  BY <1>1 DEF Ids, ToSet
<1> QED  BY <1>1, <1>2, <1>3, <1>4 DEF head

\* Two lists without a log in common make one that has no log twice.
LEMMA JoinFacts ==
  ASSUME NEW page \in Seq(LogIds), NEW more \in Seq(LogIds)
  PROVE  /\ page \o more \in Seq(LogIds) /\ Len(page \o more) = Len(page) + Len(more)
         /\ Ids(page \o more) = Ids(page) \cup Ids(more)
         /\ IsInjective(page) /\ IsInjective(more) /\ Ids(page) \cap Ids(more) = {}
              => IsInjective(page \o more)
<1> DEFINE both == page \o more
           n == Len(page)
           m == Len(more)
<1>1. /\ n \in Nat /\ m \in Nat /\ both \in Seq(LogIds) /\ Len(both) = n + m
      /\ \A i \in 1..n : both[i] = page[i]
      /\ \A i \in 1..m : both[n + i] = more[i]
  OBVIOUS
<1>2. /\ Ids(page) = {page[i] : i \in 1..n} /\ Ids(more) = {more[i] : i \in 1..m}
      /\ DOMAIN page = 1..n /\ DOMAIN more = 1..m
  BY DEF Ids, ToSet
<1>3. Ids(both) = {both[i] : i \in 1..(n + m)} /\ DOMAIN both = 1..(n + m)
  BY <1>1 DEF Ids, ToSet
<1> HIDE DEF both, n, m
<1>4. /\ \A i \in 1..(n + m) : i \in 1..n \/ (i - n \in 1..m /\ i = n + (i - n))
      /\ \A i \in 1..n : i \in 1..(n + m)
      /\ \A i \in 1..m : n + i \in 1..(n + m)
  BY <1>1
<1>5. \A i \in 1..(n + m) : (i \in 1..n /\ both[i] = page[i]) \/ (i - n \in 1..m /\ both[i] = more[i - n])
  BY <1>1, <1>4
<1>6. Ids(both) = Ids(page) \cup Ids(more)
  BY <1>1, <1>2, <1>3, <1>4, <1>5
<1>7. ASSUME IsInjective(page), IsInjective(more), Ids(page) \cap Ids(more) = {}
      PROVE  IsInjective(both)
  <2> SUFFICES ASSUME NEW i \in 1..(n + m), NEW j \in 1..(n + m), both[i] = both[j] PROVE i = j
    BY <1>3 DEF IsInjective
  <2>1. \A a \in 1..n, b \in 1..m : page[a] # more[b]
    BY <1>2, <1>7
  <2>2. \A a, b \in 1..n : page[a] = page[b] => a = b
    BY <1>2, <1>7 DEF IsInjective
  <2>3. \A a, b \in 1..m : more[a] = more[b] => a = b
    BY <1>2, <1>7 DEF IsInjective
  <2>4. CASE i \in 1..n /\ both[i] = page[i]
    BY <1>5, <2>1, <2>2, <2>4
  <2>5. CASE i - n \in 1..m /\ both[i] = more[i - n]
    <3>1. j - n \in 1..m /\ both[j] = more[j - n]
      BY <1>5, <2>1, <2>5
    <3>2. i - n = j - n
      BY <2>3, <2>5, <3>1
    <3> QED  BY <1>1, <3>2
  <2> QED  BY <1>5, <2>4, <2>5
<1> QED  BY <1>1, <1>6, <1>7 DEF both, n, m

\* Between the queue and the table a listing has a page of logs the queue had, each once,
\* and every log it is to show is on the page, in the table or was removed.
LogListing(read) ==
  /\ read.page \in Seq(LogIds) /\ IsInjective(read.page) /\ Len(read.page) <= LogLimit
  /\ Ids(read.page) \subseteq Ids(read.cached)
  /\ \A id \in read.live :
       id \in LogIds /\ Before(id, read.id) /\ id \in Ids(read.page) \cup logDb \cup logRemoved

\* What LogPageSound says of a listing that is done.
LogListed(read) ==
  /\ IsInjective(read.page)
  /\ \/ Len(read.page) > LogLimit
     \/ Ids(read.cached) \cap (logDb \cup logRemoved) # {}
     \/ read.live \ logRemoved \subseteq Ids(read.page)

\* Either holds of every reader.
LogPaged ==
  \A r \in LogReaders :
    /\ logRead[r].pc = "rows" => LogListing(logRead[r])
    /\ logRead[r].pc = "listed" => LogListed(logRead[r])

\* What the queue gives a listing: its logs before the cursor, a page of them at most and
\* one more.
LEMMA PendingListed ==
  ASSUME LogInv, NEW r \in LogReaders, NEW cursor \in 0..LogLast, LogListPending(r, cursor)
  PROVE  /\ logRead'[r].pc = "rows" => LogListing(logRead'[r])
         /\ logRead'[r].pc = "listed" => LogListed(logRead'[r])
<1> DEFINE cached == Reverse(logPending)
           shown == {id \in LogIds : Before(id, cursor)}
           before == Keeping(cached, shown)
           n == IF LogLimit < Len(before) THEN LogLimit + 1 ELSE Len(before)
           page == SubSeq(before, 1, n)
           live == {id \in logAccepted \ logRemoved : Before(id, cursor)}
<1>1. SetRead(r, IF Len(before) > LogLimit THEN "listed" ELSE "rows", cursor, cached, page, live)
  BY DEF LogListPending
<1> HIDE DEF page, n, before, shown, cached, live
<1>2. logRead'[r] = [pc |-> IF Len(before) > LogLimit THEN "listed" ELSE "rows", id |-> cursor,
                     cached |-> cached, page |-> page, live |-> live]
  BY <1>1 DEF SetRead, LogInv, LogShape
<1>3. LogLimit \in Nat /\ logPending \in Seq(LogIds) /\ IsInjective(logPending)
  BY LogAssumption DEF LogInv, LogShape, LogQueued
<1>4. cached \in Seq(LogIds) /\ IsInjective(cached) /\ Ids(cached) = Ids(logPending)
  BY <1>3, ReverseFacts DEF cached
<1>5. before \in Seq(LogIds) /\ IsInjective(before) /\ Ids(before) = Ids(cached) \cap shown
  BY <1>4, KeepingFacts DEF before
<1>6. n \in 0..Len(before) /\ Len(before) \in Nat
      /\ (Len(before) > LogLimit => n > LogLimit) /\ (~(Len(before) > LogLimit) => n = Len(before) /\ n <= LogLimit)
  BY <1>3, <1>5 DEF n
<1>7. /\ page \in Seq(LogIds) /\ Len(page) = n /\ IsInjective(page) /\ Ids(page) \subseteq Ids(before)
      /\ n = Len(before) => Ids(page) = Ids(before)
  BY <1>5, <1>6, PrefixFacts DEF page
<1>8. ASSUME Len(before) > LogLimit
      PROVE  LogListed(logRead'[r]) /\ logRead'[r].pc = "listed"
  BY <1>2, <1>6, <1>7, <1>8 DEF LogListed
<1>9. ASSUME ~(Len(before) > LogLimit)
      PROVE  LogListing(logRead'[r]) /\ logRead'[r].pc = "rows"
  <2>1. \A id \in live : id \in LogIds /\ Before(id, cursor) /\ id \in Ids(page) \cup logDb \cup logRemoved
    <3> SUFFICES ASSUME NEW id \in live
                 PROVE  id \in LogIds /\ Before(id, cursor) /\ id \in Ids(page) \cup logDb \cup logRemoved
      OBVIOUS
    <3>1. id \in logAccepted /\ Before(id, cursor)
      BY DEF live
    <3>2. id \in LogIds /\ id \in Ids(logPending) \cup logDb \cup logRemoved
      BY <3>1 DEF LogInv, LogDrawn, LogPlaced
    <3> QED  BY <1>4, <1>5, <1>6, <1>7, <1>9, <3>1, <3>2 DEF shown
  <2> QED  BY <1>2, <1>4, <1>5, <1>6, <1>7, <1>9, <2>1 DEF LogListing
<1> QED  BY <1>8, <1>9

\* What the table adds to it.
LEMMA RowsListed ==
  ASSUME LogInv, LogPaged, NEW r \in LogReaders, LogListRows(r)
  PROVE  logRead'[r].pc = "listed" /\ LogListed(logRead'[r])
<1> DEFINE read == logRead[r]
           old == read.page
           all == {id \in logDb : Before(id, read.id)}
           rows == NewestRows(all)
           wanted == LogLimit + 1 - Len(old)
           n == IF wanted < Len(rows) THEN wanted ELSE Len(rows)
           found == SubSeq(rows, 1, n)
           fresh == Keeping(found, LogIds \ Ids(read.cached))
           page == old \o fresh
<1>1. read.pc = "rows" /\ SetRead(r, "listed", read.id, read.cached, page, read.live)
  BY DEF LogListRows
<1>2. LogListing(read)
  BY <1>1 DEF LogPaged
<1> HIDE DEF page, fresh, found, n, wanted, rows, all, old
<1>3. logRead'[r] = [pc |-> "listed", id |-> read.id, cached |-> read.cached, page |-> page,
                     live |-> read.live]
  BY <1>1 DEF SetRead, LogInv, LogShape
<1> HIDE DEF read
<1>4. /\ old \in Seq(LogIds) /\ IsInjective(old) /\ Len(old) \in Nat /\ Len(old) <= LogLimit
      /\ Ids(old) \subseteq Ids(read.cached) /\ LogLimit \in Nat
  BY <1>2, LogAssumption DEF LogListing, old
<1>5. all \in SUBSET LogIds
  BY DEF LogInv, LogPlaced, LogDrawn, all
<1>6. rows \in Seq(LogIds) /\ Ids(rows) = all /\ IsInjective(rows) /\ Len(rows) \in Nat
  BY <1>5, NewestRowsFacts DEF rows
<1>7. n \in 0..Len(rows) /\ (n = Len(rows) \/ n = LogLimit + 1 - Len(old))
  BY <1>4, <1>6 DEF n, wanted
<1>8. /\ found \in Seq(LogIds) /\ Len(found) = n /\ Ids(found) \subseteq all /\ IsInjective(found)
      /\ n = Len(rows) => Ids(found) = all
  BY <1>6, <1>7, PrefixFacts DEF found
<1>9. /\ fresh \in Seq(LogIds) /\ IsInjective(fresh) /\ Ids(fresh) = Ids(found) \ Ids(read.cached)
      /\ Ids(found) \cap Ids(read.cached) = {} => Len(fresh) = n
  <2>1. Ids(found) \subseteq LogIds
    BY <1>5, <1>8
  <2> QED  BY <1>8, <2>1, KeepingFacts DEF fresh
<1>10. /\ Len(page) = Len(old) + Len(fresh) /\ Ids(page) = Ids(old) \cup Ids(fresh) /\ IsInjective(page)
  <2>1. Ids(old) \cap Ids(fresh) = {}
    BY <1>4, <1>9
  <2> QED  BY <1>4, <1>9, <2>1, JoinFacts DEF page
<1>11. ASSUME ~(Len(page) > LogLimit), Ids(read.cached) \cap (logDb \cup logRemoved) = {}
       PROVE  read.live \ logRemoved \subseteq Ids(page)
  <2>1. Ids(found) \cap Ids(read.cached) = {}
    BY <1>8, <1>11 DEF all
  <2>2. Len(fresh) = n /\ n = Len(rows)
    BY <1>4, <1>7, <1>9, <1>10, <1>11, <2>1
  <2>3. Ids(fresh) = all
    BY <1>8, <1>9, <2>1, <2>2
  <2> QED  BY <1>2, <1>10, <2>3 DEF LogListing, old, all
<1> QED  BY <1>3, <1>10, <1>11 DEF LogListed

\* Every step keeps it: of what the others do a listing only sees that no log leaves the
\* table but by its removal.
LEMMA StepPaged ==
  ASSUME LogInv, LogPaged, [LogNextStep]_logVars
  PROVE  LogPaged'
<1>1. CASE logRead' = logRead
  BY <1>1, NeverBack DEF LogPaged, LogListing, LogListed
<1>2. CASE LogReadStep
  <2>1. PICK r \in LogReaders :
          \/ \E id \in LogIds : LogGetPending(r, id)
          \/ \E cursor \in 0..LogLast : LogListPending(r, cursor)
          \/ LogGetRecent(r) \/ LogGetRow(r) \/ LogListRows(r) \/ LogReadDone(r)
    BY <1>2 DEF LogReadStep
  <2>2. UNCHANGED <<logDb, logRemoved>>
    BY <1>2, ReadSteps DEF LogStill
  <2>3. \A q \in LogReaders \ {r} : logRead'[q] = logRead[q]
    BY <2>1 DEF LogGetPending, LogListPending, LogGetRecent, LogGetRow, LogListRows, LogReadDone,
       SetRead, LogInv, LogShape
  <2>4. /\ logRead'[r].pc = "rows" => LogListing(logRead'[r])
        /\ logRead'[r].pc = "listed" => LogListed(logRead'[r])
    <3>1. ASSUME NEW cursor \in 0..LogLast, LogListPending(r, cursor) 
          PROVE  /\ logRead'[r].pc = "rows" => LogListing(logRead'[r])
                 /\ logRead'[r].pc = "listed" => LogListed(logRead'[r])
      BY <3>1, PendingListed
    <3>2. CASE LogListRows(r)
      BY <3>2, RowsListed
    <3>3. CASE LogGetRecent(r) \/ LogGetRow(r) \/ LogReadDone(r) \/ \E id \in LogIds : LogGetPending(r, id)
      <4>1. logRead'[r].pc \in {"recent", "row", "notfound", "idle"}
        BY <3>3 DEF LogGetPending, LogGetRecent, LogGetRow, LogReadDone, SetRead, LogInv, LogShape
      <4> QED  BY <4>1
    <3> QED  BY <2>1, <3>1, <3>2, <3>3
  <2>5. \A q \in LogReaders :
          /\ logRead'[q].pc = "rows" => LogListing(logRead'[q])
          /\ logRead'[q].pc = "listed" => LogListed(logRead'[q])
    BY <2>3, <2>4 DEF LogPaged
  <2> QED  BY <2>2, <2>5 DEF LogPaged, LogListing, LogListed
<1>3. CASE LogCalmStep
  BY <1>1, <1>3, LogCalmSteps DEF LogCalm
<1>4. ASSUME NEW w \in LogWriters,
             LogGenerate(w) \/ LogAppendRecent(w) \/ LogEnqueue(w) \/ LogDrop(w)
      PROVE  logRead' = logRead
  BY <1>4 DEF LogGenerate, LogAppendRecent, LogEnqueue, LogDrop
<1>5. ASSUME NEW f \in LogFlushers,
             LogTake(f) \/ LogInsert(f) \/ LogInsertFails(f) \/ LogRemoveBatch(f) \/ LogCleanup(f)
      PROVE  logRead' = logRead
  BY <1>5 DEF LogTake, LogInsert, LogInsertFails, LogRemoveBatch, LogCleanup, FlushRest
<1>6. CASE LogClearQueue \/ LogClearRows \/ LogClearFails
  BY <1>1, <1>6 DEF LogClearQueue, LogClearRows, LogClearFails
<1> QED
  BY <1>1, <1>2, <1>3, <1>4, <1>5, <1>6 DEF LogNextStep, LogFlusher, LogCalmStep, LogReadStep

\* Both ways of looking at the log are sound while logs move from the queue to the table
\* and out of it: no lookup misses a kept log, and a page has no log twice and, where none
\* of its logs moved and nothing follows it, every log it should have.
THEOREM ReadsAreSound == LogSpec => []LogReadsSound
<1>1. LogInit => LogPaged
  BY DEF LogInit, LogPaged
<1>2. LogInv /\ LogPaged /\ [LogNextStep]_logVars => LogPaged'
  BY StepPaged
<1>3. LogPaged => LogPageSound
  BY DEF LogPaged, LogListed, LogPageSound
<1> QED  BY <1>1, <1>2, <1>3, LogInvariance, KeptLogsAreFound, PTL DEF LogSpec, LogReadsSound

(* ---- the replay store (ReplayStore) ---- *)

\* The sums of RsAccounted: the entries and bytes of the map, and what the operations under
\* way have put in or taken out and not yet counted.
RsEntriesIn(map) == SumFunction([k \in RsKeys |-> IF map[k] = RsNone THEN 0 ELSE 1])
RsBytesIn(map) == SumFunction([k \in RsKeys |-> map[k].size])
RsUncountedBy(ops) == SumFunction([a \in RsActors |-> RsUncounted(ops[a])])
RsUnsizedBy(ops) == SumFunction([a \in RsActors |-> RsUnsized(ops[a])])

\* What a store will take back, or a drop is taking out: an entry that was counted
\* beyond the limit, and bytes of it that were counted or may be undone.
RsDoomed(op) ==
  IF op.pc = "dropped" \/ (op.pc \in {"counted", "sized", "drop"} /\ op.seen > RsMaxEntries)
    THEN 1 ELSE 0
RsPending(op) ==
  CASE op.pc \in {"sized", "drop", "dropped", "uncounted"} -> op.new.size
    [] op.pc \in {"grown", "restore", "restored"} -> op.new.size - op.old.size
    [] OTHER -> 0
RsDoomedBy(ops) == SumFunction([a \in RsActors |-> RsDoomed(ops[a])])
RsPendingBy(ops) == SumFunction([a \in RsActors |-> RsPending(ops[a])])

\* What an actor has in hand.
RsInHand(op) ==
  /\ op.pc # RsIdle => op.key \in RsKeys /\ op.new # RsNone
  /\ op.pc \in {"replaced", "grown", "restore", "restored"} => op.old # RsNone
  /\ op.pc \in {"grown", "restore", "restored"} => op.new.size > op.old.size

\* So has every actor.
RsShaped == \A a \in RsActors : RsInHand(rsOp[a])

\* Where nobody shares a key, the key of an operation has what the operation left there.
RsLeft(op) ==
  CASE op.pc = "restored" -> op.old
    [] op.pc \in {"dropped", "uncounted"} -> RsNone
    [] OTHER -> op.new

\* An operation is the only one of its key, and its key has what it left.
RsAlone ==
  \A a \in RsActors : rsOp[a].pc # RsIdle =>
    /\ \A b \in RsActors \ {a} : rsOp[b].pc # RsIdle => rsOp[b].key # rsOp[a].key
    /\ rsMap[rsOp[a].key] = RsLeft(rsOp[a])

\* But for what is about to be taken back or looked at, the counters are within the limits.
RsWithin ==
  rsCount - RsDoomedBy(rsOp) <= RsMaxEntries /\ rsSize - RsPendingBy(rsOp) <= RsMaxSize

\* The inductive invariant: the counters are always accounted for, and within their limits
\* as long as no two operations had one key at once.
RsInv ==
  /\ RsTypeOK /\ RsShaped /\ RsAccounted
  /\ ~rsShared => RsAlone /\ RsWithin

\* What an actor may have in hand, by type.
RsOps == [pc : {RsIdle, "replaced", "grown", "restore", "restored", "added", "counted",
                "sized", "drop", "dropped", "uncounted"},
          key : RsKeys \cup {RsIdle}, new : RsEntries, old : RsEntries, seen : Int]

\* Sizes are naturals, and no entry has none.
LEMMA RsSizesAre == RsNone.size = 0 /\ \A e \in RsEntries : e.size \in Nat
<1>1. RsSizes \subseteq Nat
  BY RsAssumption
<1>2. RsNone.size = 0
  BY DEF RsNone
<1>3. \A e \in [id : 1..RsLast, size : RsSizes] : e.size \in Nat
  BY <1>1
<1> QED  BY <1>2, <1>3 DEF RsEntries

\* What an operation adds to the sums are numbers.
LEMMA RsOpSums ==
  \A op \in RsOps : /\ RsUncounted(op) \in Int /\ RsDoomed(op) \in Nat
                    /\ RsUnsized(op) \in Int /\ RsPending(op) \in Int
                    /\ RsInHand(op) => RsPending(op) \in Nat
  BY RsSizesAre DEF RsOps, RsUncounted, RsDoomed, RsUnsized, RsPending, RsInHand, RsIdle

\* The sums over the operations, when one of them takes a step ...
LEMMA RsMoves ==
  ASSUME NEW ops \in [RsActors -> RsOps], NEW oqs \in [RsActors -> RsOps], NEW a \in RsActors,
         \A b \in RsActors \ {a} : oqs[b] = ops[b]
  PROVE  /\ RsUncountedBy(ops) \in Int
         /\ RsUncountedBy(oqs) = RsUncountedBy(ops) - RsUncounted(ops[a]) + RsUncounted(oqs[a])
         /\ RsUnsizedBy(ops) \in Int
         /\ RsUnsizedBy(oqs) = RsUnsizedBy(ops) - RsUnsized(ops[a]) + RsUnsized(oqs[a])
         /\ RsDoomedBy(ops) \in Nat
         /\ RsDoomedBy(oqs) = RsDoomedBy(ops) - RsDoomed(ops[a]) + RsDoomed(oqs[a])
         /\ RsPendingBy(ops) \in Int
         /\ RsPendingBy(oqs) = RsPendingBy(ops) - RsPending(ops[a]) + RsPending(oqs[a])
         /\ (\A b \in RsActors : RsInHand(ops[b])) => RsPendingBy(ops) \in Nat
<1>0. IsFiniteSet(RsActors)
  BY RsAssumption
<1>1. \A op \in RsOps : /\ RsUncounted(op) \in Int /\ RsDoomed(op) \in Nat
                        /\ RsUnsized(op) \in Int /\ RsPending(op) \in Int
                        /\ RsInHand(op) => RsPending(op) \in Nat
  BY RsOpSums
<1> DEFINE U(o) == [b \in RsActors |-> RsUncounted(o[b])]
           Z(o) == [b \in RsActors |-> RsUnsized(o[b])]
           D(o) == [b \in RsActors |-> RsDoomed(o[b])]
           P(o) == [b \in RsActors |-> RsPending(o[b])]
<1>2. \A o : /\ RsUncountedBy(o) = Total(U(o), RsActors)
             /\ RsUnsizedBy(o) = Total(Z(o), RsActors)
             /\ RsDoomedBy(o) = Total(D(o), RsActors)
             /\ RsPendingBy(o) = Total(P(o), RsActors)
  BY SumIsTotal DEF RsUncountedBy, RsUnsizedBy, RsDoomedBy, RsPendingBy
<1>3. /\ Total(U(ops), RsActors) \in Int
      /\ Total(U(oqs), RsActors) = Total(U(ops), RsActors) - U(ops)[a] + U(oqs)[a]
  BY <1>0, <1>1, TotalChanges
<1>4. /\ Total(Z(ops), RsActors) \in Int
      /\ Total(Z(oqs), RsActors) = Total(Z(ops), RsActors) - Z(ops)[a] + Z(oqs)[a]
  BY <1>0, <1>1, TotalChanges
<1>5. /\ Total(D(ops), RsActors) \in Int
      /\ Total(D(oqs), RsActors) = Total(D(ops), RsActors) - D(ops)[a] + D(oqs)[a]
  BY <1>0, <1>1, TotalChanges
<1>6. /\ Total(P(ops), RsActors) \in Int
      /\ Total(P(oqs), RsActors) = Total(P(ops), RsActors) - P(ops)[a] + P(oqs)[a]
  BY <1>0, <1>1, TotalChanges
<1>7. Total(D(ops), RsActors) \in Nat
  BY <1>0, <1>1, TotalNatural
<1>8. (\A b \in RsActors : RsInHand(ops[b])) => Total(P(ops), RsActors) \in Nat
  BY <1>0, <1>1, TotalNatural
<1> QED  BY <1>2, <1>3, <1>4, <1>5, <1>6, <1>7, <1>8

\* ... and over the map, when one key is given another entry.
LEMMA RsPuts ==
  ASSUME NEW map \in [RsKeys -> RsEntries], NEW maq \in [RsKeys -> RsEntries], NEW k \in RsKeys,
         \A j \in RsKeys \ {k} : maq[j] = map[j]
  PROVE  /\ RsEntriesIn(map) \in Int /\ RsBytesIn(map) \in Int
         /\ RsEntriesIn(maq) = RsEntriesIn(map) - (IF map[k] = RsNone THEN 0 ELSE 1)
                                                + (IF maq[k] = RsNone THEN 0 ELSE 1)
         /\ RsBytesIn(maq) = RsBytesIn(map) - map[k].size + maq[k].size
<1>0. IsFiniteSet(RsKeys)
  BY RsAssumption
<1> DEFINE N(m) == [j \in RsKeys |-> IF m[j] = RsNone THEN 0 ELSE 1]
           B(m) == [j \in RsKeys |-> m[j].size]
<1>2. \A m : RsEntriesIn(m) = Total(N(m), RsKeys) /\ RsBytesIn(m) = Total(B(m), RsKeys)
  BY SumIsTotal DEF RsEntriesIn, RsBytesIn
<1>3. /\ Total(N(map), RsKeys) \in Int
      /\ Total(N(maq), RsKeys) = Total(N(map), RsKeys) - N(map)[k] + N(maq)[k]
  BY <1>0, TotalChanges
<1>4. /\ Total(B(map), RsKeys) \in Int
      /\ Total(B(maq), RsKeys) = Total(B(map), RsKeys) - B(map)[k] + B(maq)[k]
  <2>1. \A j \in RsKeys : map[j].size \in Nat /\ maq[j].size \in Nat
    BY RsSizesAre
  <2> QED  BY <1>0, <2>1, TotalChanges
<1> QED  BY <1>2, <1>3, <1>4

\* It holds in the empty store.
LEMMA RsInitially == RsInit => RsInv
<1> SUFFICES ASSUME RsInit PROVE RsInv
  OBVIOUS
<1>0. RsLast \in Nat /\ RsMaxEntries \in Nat /\ RsMaxSize \in Nat
      /\ IsFiniteSet(RsActors) /\ IsFiniteSet(RsKeys)
  BY RsAssumption
<1>1. RsTypeOK /\ RsShaped /\ RsAlone
  <2>1. RsNone \in RsEntries /\ RsNoOp.pc = RsIdle
    BY DEF RsEntries, RsNoOp
  <2>2. RsTypeOK
    <3>1. RsNoOp \in RsOps
      BY <2>1 DEF RsNoOp, RsOps, RsIdle
    <3>2. rsMap \in [RsKeys -> RsEntries] /\ rsOp \in [RsActors -> RsOps]
      BY <2>1, <3>1 DEF RsInit
    <3>3. rsCount \in Int /\ rsSize \in Int /\ rsNext \in 1..(RsLast + 1) /\ rsShared \in BOOLEAN
      <4>1. 1 \in 1..(RsLast + 1)
        BY <1>0
      <4>2. rsCount = 0 /\ rsSize = 0 /\ rsNext = 1 /\ rsShared = FALSE
        BY DEF RsInit
      <4>3. rsShared \in BOOLEAN
        BY <4>2, Zenon
      <4> QED  BY <4>1, <4>2, <4>3
    <3> QED  BY <3>2, <3>3 DEF RsTypeOK, RsOps
  <2>3. RsShaped /\ RsAlone
    BY <2>1 DEF RsInit, RsShaped, RsInHand, RsAlone, RsIdle
  <2> QED  BY <2>2, <2>3
<1>2. RsEntriesIn(rsMap) = 0 /\ RsBytesIn(rsMap) = 0
  <2> DEFINE N == [j \in RsKeys |-> IF rsMap[j] = RsNone THEN 0 ELSE 1]
             B == [j \in RsKeys |-> rsMap[j].size]
  <2>1. \A k \in RsKeys : N[k] = 0 /\ B[k] = 0
    BY RsSizesAre DEF RsInit
  <2>2. Total(N, RsKeys) = 0 /\ Total(B, RsKeys) = 0
    BY <1>0, <2>1, TotalZero
  <2> QED  BY <2>2, SumIsTotal DEF RsEntriesIn, RsBytesIn
<1>3. /\ RsUncountedBy(rsOp) = 0 /\ RsUnsizedBy(rsOp) = 0
      /\ RsDoomedBy(rsOp) = 0 /\ RsPendingBy(rsOp) = 0
  <2> DEFINE U == [b \in RsActors |-> RsUncounted(rsOp[b])]
             Z == [b \in RsActors |-> RsUnsized(rsOp[b])]
             D == [b \in RsActors |-> RsDoomed(rsOp[b])]
             P == [b \in RsActors |-> RsPending(rsOp[b])]
  <2>1. \A b \in RsActors : U[b] = 0 /\ Z[b] = 0 /\ D[b] = 0 /\ P[b] = 0
    BY DEF RsInit, RsNoOp, RsIdle, RsUncounted, RsUnsized, RsDoomed, RsPending
  <2>2. Total(U, RsActors) = 0 /\ Total(Z, RsActors) = 0
        /\ Total(D, RsActors) = 0 /\ Total(P, RsActors) = 0
    <3> HIDE DEF U, Z, D, P
    <3> QED  BY <1>0, <2>1, TotalZero
  <2> QED  BY <2>2, SumIsTotal DEF RsUncountedBy, RsUnsizedBy, RsDoomedBy, RsPendingBy
<1>4. RsAccounted /\ RsWithin
  BY <1>0, <1>2, <1>3 DEF RsInit, RsAccounted, RsWithin, RsEntriesIn, RsBytesIn, RsUncountedBy, RsUnsizedBy
<1> QED  BY <1>1, <1>4 DEF RsInv

\* What holds of the operations and the map before and after the step of one actor, that
\* changes its own operation and at most the entry of one key.
RsStepped(a, k) ==
  /\ a \in RsActors /\ k \in RsKeys /\ rsOp \in [RsActors -> RsOps] /\ rsOp' \in [RsActors -> RsOps]
  /\ rsMap \in [RsKeys -> RsEntries] /\ rsMap' \in [RsKeys -> RsEntries]
  /\ \A b \in RsActors \ {a} : rsOp'[b] = rsOp[b]
  /\ \A j \in RsKeys \ {k} : rsMap'[j] = rsMap[j]

\* The counters stay true when they change as the map and the operation do.
LEMMA RsStaysAccounted ==
  ASSUME RsAccounted, rsCount \in Int, rsSize \in Int, NEW a, NEW k, RsStepped(a, k),
         rsCount' = rsCount + (IF rsMap'[k] = RsNone THEN 0 ELSE 1) - (IF rsMap[k] = RsNone THEN 0 ELSE 1)
                            + RsUncounted(rsOp[a]) - RsUncounted(rsOp'[a]),
         rsSize' = rsSize + rsMap'[k].size - rsMap[k].size
                          + RsUnsized(rsOp[a]) - RsUnsized(rsOp'[a])
  PROVE  RsAccounted'
<1>1. /\ RsEntriesIn(rsMap) = rsCount + RsUncountedBy(rsOp)
      /\ RsBytesIn(rsMap) = rsSize + RsUnsizedBy(rsOp)
  BY DEF RsAccounted, RsEntriesIn, RsBytesIn, RsUncountedBy, RsUnsizedBy
<1>2. /\ RsUncountedBy(rsOp) \in Int /\ RsUnsizedBy(rsOp) \in Int
      /\ RsUncountedBy(rsOp') = RsUncountedBy(rsOp) - RsUncounted(rsOp[a]) + RsUncounted(rsOp'[a])
      /\ RsUnsizedBy(rsOp') = RsUnsizedBy(rsOp) - RsUnsized(rsOp[a]) + RsUnsized(rsOp'[a])
  BY RsMoves DEF RsStepped
<1>3. /\ RsEntriesIn(rsMap) \in Int /\ RsBytesIn(rsMap) \in Int
      /\ RsEntriesIn(rsMap') = RsEntriesIn(rsMap) - (IF rsMap[k] = RsNone THEN 0 ELSE 1)
                                                  + (IF rsMap'[k] = RsNone THEN 0 ELSE 1)
      /\ RsBytesIn(rsMap') = RsBytesIn(rsMap) - rsMap[k].size + rsMap'[k].size
  BY RsPuts DEF RsStepped
<1>4. /\ RsUncounted(rsOp[a]) \in Int /\ RsUncounted(rsOp'[a]) \in Int
      /\ RsUnsized(rsOp[a]) \in Int /\ RsUnsized(rsOp'[a]) \in Int
      /\ rsMap[k].size \in Int /\ rsMap'[k].size \in Int
  BY RsSizesAre, RsOpSums DEF RsStepped
<1>5. /\ RsEntriesIn(rsMap') = rsCount' + RsUncountedBy(rsOp')
      /\ RsBytesIn(rsMap') = rsSize' + RsUnsizedBy(rsOp')
  BY <1>1, <1>2, <1>3, <1>4
<1> QED  BY <1>5 DEF RsAccounted, RsEntriesIn, RsBytesIn, RsUncountedBy, RsUnsizedBy

\* The bounds stay, too, when what is counted is on its way back or was looked at.
LEMMA RsStaysWithin ==
  ASSUME RsWithin, rsCount \in Int, rsSize \in Int, rsCount' \in Int, rsSize' \in Int,
         NEW a, NEW k, RsStepped(a, k), RsShaped', RsShaped,
         \/ rsCount' - RsDoomed(rsOp'[a]) <= rsCount - RsDoomed(rsOp[a])
         \/ rsCount' <= RsMaxEntries,
         \/ rsSize' - RsPending(rsOp'[a]) <= rsSize - RsPending(rsOp[a])
         \/ rsSize' <= RsMaxSize
  PROVE  RsWithin'
<1>0. RsMaxEntries \in Nat /\ RsMaxSize \in Nat
  BY RsAssumption
<1>1. /\ RsDoomedBy(rsOp) \in Nat /\ RsPendingBy(rsOp) \in Int
      /\ RsDoomedBy(rsOp') = RsDoomedBy(rsOp) - RsDoomed(rsOp[a]) + RsDoomed(rsOp'[a])
      /\ RsPendingBy(rsOp') = RsPendingBy(rsOp) - RsPending(rsOp[a]) + RsPending(rsOp'[a])
  BY RsMoves DEF RsStepped
<1>2. RsDoomedBy(rsOp') \in Nat /\ RsPendingBy(rsOp') \in Nat
  BY RsMoves DEF RsStepped, RsShaped
<1>3. /\ RsDoomed(rsOp[a]) \in Int /\ RsDoomed(rsOp'[a]) \in Int
      /\ RsPending(rsOp[a]) \in Int /\ RsPending(rsOp'[a]) \in Int
  BY RsOpSums DEF RsStepped
<1>4. /\ rsCount' - RsDoomedBy(rsOp') <= RsMaxEntries
      /\ rsSize' - RsPendingBy(rsOp') <= RsMaxSize
  BY <1>0, <1>1, <1>2, <1>3 DEF RsWithin
<1> QED  BY <1>4 DEF RsWithin, RsDoomedBy, RsPendingBy

\* What a step has to show: the operation q that it leaves, the entry e of its key.
LEMMA RsActs ==
  ASSUME RsInv, NEW a \in RsActors, NEW k \in RsKeys, NEW q \in RsOps, NEW e \in RsEntries,
         rsOp' = [rsOp EXCEPT ![a] = q], rsMap' = [rsMap EXCEPT ![k] = e], RsInHand(q),
         rsCount' = rsCount + (IF e = RsNone THEN 0 ELSE 1) - (IF rsMap[k] = RsNone THEN 0 ELSE 1)
                            + RsUncounted(rsOp[a]) - RsUncounted(q),
         rsSize' = rsSize + e.size - rsMap[k].size + RsUnsized(rsOp[a]) - RsUnsized(q),
         rsNext' \in 1..(RsLast + 1), rsShared' \in BOOLEAN,
         ~rsShared' =>
           /\ ~rsShared
           /\ \A b \in RsActors \ {a} : rsOp[b].pc # RsIdle => rsOp[b].key # k
           /\ q.pc # RsIdle => q.key = k /\ RsLeft(q) = e
           /\ \/ rsCount' - RsDoomed(q) <= rsCount - RsDoomed(rsOp[a])
              \/ rsCount' <= RsMaxEntries
           /\ \/ rsSize' - RsPending(q) <= rsSize - RsPending(rsOp[a])
              \/ rsSize' <= RsMaxSize
  PROVE  RsInv'
<1>1. /\ rsOp \in [RsActors -> RsOps] /\ rsMap \in [RsKeys -> RsEntries]
      /\ rsCount \in Int /\ rsSize \in Int
  BY DEF RsInv, RsTypeOK, RsOps
<1>2. /\ rsOp' \in [RsActors -> RsOps] /\ rsMap' \in [RsKeys -> RsEntries]
      /\ rsOp'[a] = q /\ rsMap'[k] = e
      /\ \A b \in RsActors \ {a} : rsOp'[b] = rsOp[b]
      /\ \A j \in RsKeys \ {k} : rsMap'[j] = rsMap[j]
  BY <1>1
<1>3. RsStepped(a, k)
  BY <1>1, <1>2 DEF RsStepped
<1>4. rsCount' \in Int /\ rsSize' \in Int
  <2>1. /\ RsUncounted(rsOp[a]) \in Int /\ RsUncounted(q) \in Int
        /\ RsUnsized(rsOp[a]) \in Int /\ RsUnsized(q) \in Int
        /\ rsMap[k].size \in Int /\ e.size \in Int
    BY <1>1, RsSizesAre, RsOpSums
  <2> QED  BY <1>1, <2>1
<1>5. RsTypeOK'
  BY <1>2, <1>4 DEF RsTypeOK, RsOps
<1>6. RsShaped'
  BY <1>2 DEF RsInv, RsShaped
<1>7. RsAccounted'
  BY <1>1, <1>2, <1>3, RsStaysAccounted DEF RsInv
<1>8. ASSUME ~rsShared' PROVE RsAlone' /\ RsWithin'
  <2>1. RsAlone /\ RsWithin
    BY <1>8 DEF RsInv
  <2>2. RsWithin'
    BY <1>1, <1>2, <1>3, <1>4, <1>6, <1>8, <2>1, RsStaysWithin DEF RsInv
  <2>3. ASSUME NEW b \in RsActors, rsOp'[b].pc # RsIdle
        PROVE  /\ \A c \in RsActors \ {b} : rsOp'[c].pc # RsIdle => rsOp'[c].key # rsOp'[b].key
               /\ rsMap'[rsOp'[b].key] = RsLeft(rsOp'[b])
    <3>1. CASE b = a
      BY <1>2, <1>8, <2>3, <3>1
    <3>2. CASE b # a
      <4>1. rsOp'[b] = rsOp[b] /\ rsOp[b].key # k /\ rsOp[b].key \in RsKeys
        BY <1>2, <1>8, <2>3, <3>2 DEF RsInv, RsShaped, RsInHand
      <4>2. rsMap'[rsOp[b].key] = rsMap[rsOp[b].key]
        BY <1>2, <4>1
      <4>3. ASSUME NEW c \in RsActors \ {b}, rsOp'[c].pc # RsIdle PROVE rsOp'[c].key # rsOp[b].key
        <5>1. CASE c = a
          BY <1>2, <1>8, <4>1, <4>3, <5>1
        <5>2. CASE c # a
          BY <1>2, <2>1, <2>3, <4>1, <4>3, <5>2 DEF RsAlone
        <5> QED  BY <5>1, <5>2
      <4> QED  BY <2>1, <2>3, <4>1, <4>2, <4>3 DEF RsAlone
    <3> QED  BY <3>1, <3>2
  <2> QED  BY <2>2, <2>3 DEF RsAlone
<1> QED  BY <1>5, <1>6, <1>7, <1>8 DEF RsInv

\* The steps of an operation under way are at its own key.
LEMMA RsGoesOn ==
  ASSUME RsInv, NEW a \in RsActors, rsOp[a].pc # RsIdle
  PROVE  LET op == rsOp[a] IN
         /\ op \in RsOps /\ op.key \in RsKeys /\ RsInHand(op) /\ rsMap[op.key] \in RsEntries
         /\ op.new \in RsEntries /\ op.old \in RsEntries /\ op.new # RsNone
         /\ op.new.size \in Nat /\ op.old.size \in Nat /\ op.seen \in Int
         /\ rsCount \in Int /\ rsSize \in Int
         /\ RsMaxEntries \in Nat /\ RsMaxSize \in Nat
         /\ rsNext \in 1..(RsLast + 1) /\ rsShared \in BOOLEAN
         /\ rsMap = [rsMap EXCEPT ![op.key] = rsMap[op.key]]
         /\ ~rsShared => /\ rsMap[op.key] = RsLeft(op)
                         /\ \A b \in RsActors \ {a} : rsOp[b].pc # RsIdle => rsOp[b].key # op.key
<1>1. rsOp \in [RsActors -> RsOps] /\ rsMap \in [RsKeys -> RsEntries]
  BY DEF RsInv, RsTypeOK, RsOps
<1>2. rsOp[a] \in RsOps /\ RsInHand(rsOp[a]) /\ rsOp[a].key \in RsKeys /\ rsOp[a].new # RsNone
  BY <1>1 DEF RsInv, RsShaped, RsInHand
<1>3. /\ rsOp[a].new \in RsEntries /\ rsOp[a].old \in RsEntries /\ rsOp[a].seen \in Int
      /\ rsOp[a].new.size \in Nat /\ rsOp[a].old.size \in Nat
  BY <1>2, RsSizesAre DEF RsOps
<1>4. /\ rsCount \in Int /\ rsSize \in Int
      /\ RsMaxEntries \in Nat /\ RsMaxSize \in Nat
      /\ rsNext \in 1..(RsLast + 1) /\ rsShared \in BOOLEAN
  BY RsAssumption DEF RsInv, RsTypeOK
<1>5. rsMap = [rsMap EXCEPT ![rsOp[a].key] = rsMap[rsOp[a].key]] /\ rsMap[rsOp[a].key] \in RsEntries
  BY <1>1, <1>2
<1>6. ~rsShared => /\ rsMap[rsOp[a].key] = RsLeft(rsOp[a])
                   /\ \A b \in RsActors \ {a} : rsOp[b].pc # RsIdle => rsOp[b].key # rsOp[a].key
  BY DEF RsInv, RsAlone
<1> QED  BY <1>2, <1>3, <1>4, <1>5, <1>6

\* Where an operation may stand, and what its sums are there.
RsStands(op, u, z, d, p) ==
  RsUncounted(op) = u /\ RsUnsized(op) = z /\ RsDoomed(op) = d /\ RsPending(op) = p

\* An entry counted beyond the limit.
RsOver(op) == IF op.seen > RsMaxEntries THEN 1 ELSE 0

LEMMA RsPlaces ==
  ASSUME NEW op
  PROVE  /\ op.pc \in {RsIdle} => RsStands(op, 0, 0, 0, 0)
         /\ op.pc = "added" => RsStands(op, 1, op.new.size, 0, 0)
         /\ op.pc = "counted" => RsStands(op, 0, op.new.size, RsOver(op), 0)
         /\ op.pc \in {"sized", "drop"} => RsStands(op, 0, 0, RsOver(op), op.new.size)
         /\ op.pc = "dropped" => RsStands(op, -1, -op.new.size, 1, op.new.size)
         /\ op.pc = "uncounted" => RsStands(op, 0, -op.new.size, 0, op.new.size)
         /\ op.pc = "replaced" => RsStands(op, 0, op.new.size - op.old.size, 0, 0)
         /\ op.pc \in {"grown", "restore"} => RsStands(op, 0, 0, 0, op.new.size - op.old.size)
         /\ op.pc = "restored" => RsStands(op, 0, op.old.size - op.new.size, 0, op.new.size - op.old.size)
  BY DEF RsStands, RsUncounted, RsUnsized, RsDoomed, RsPending, RsOver, RsIdle

\* The two steps that begin an operation: a store swaps its entry in ...
LEMMA RsStores == ASSUME RsInv, NEW a \in RsActors, NEW k \in RsKeys, NEW size \in RsSizes, RsSwap(a, k, size)
                  PROVE  RsInv'
<1> DEFINE new == [id |-> rsNext, size |-> size]
           q == [pc |-> IF rsMap[k] = RsNone THEN "added" ELSE "replaced",
                 key |-> k, new |-> new, old |-> rsMap[k], seen |-> 0]
<1>1. /\ rsOp[a].pc = RsIdle /\ rsNext <= RsLast
      /\ rsMap' = [rsMap EXCEPT ![k] = new] /\ rsOp' = [rsOp EXCEPT ![a] = q]
      /\ rsNext' = rsNext + 1 /\ RsSharing(a, k) /\ rsCount' = rsCount /\ rsSize' = rsSize
  BY DEF RsSwap
<1>2. /\ rsMap \in [RsKeys -> RsEntries] /\ rsNext \in 1..(RsLast + 1) /\ rsShared \in BOOLEAN
      /\ rsCount \in Int /\ rsSize \in Int /\ RsLast \in Nat /\ size \in Nat
  BY RsAssumption DEF RsInv, RsTypeOK
<1>3. new \in RsEntries /\ new # RsNone /\ new.size = size
  BY <1>1, <1>2 DEF RsEntries, RsNone
<1>4. rsMap[k] \in RsEntries /\ rsMap[k].size \in Nat
  BY <1>2, RsSizesAre
<1>5. q \in RsOps /\ RsInHand(q) /\ q.pc # RsIdle /\ RsLeft(q) = new
  BY <1>2, <1>3, <1>4 DEF RsOps, RsInHand, RsLeft, RsIdle
<1>6. RsStands(rsOp[a], 0, 0, 0, 0)
  BY <1>1, RsPlaces
<1>7. IF rsMap[k] = RsNone THEN RsStands(q, 1, size, 0, 0) ELSE RsStands(q, 0, size - rsMap[k].size, 0, 0)
  <2> HIDE DEF new
  <2> QED  BY <1>3, RsPlaces
<1>8. rsNext' \in 1..(RsLast + 1)
  BY <1>1, <1>2
<1>9. /\ rsShared' \in BOOLEAN
      /\ ~rsShared' => ~rsShared /\ \A b \in RsActors \ {a} : rsOp[b].pc # RsIdle => rsOp[b].key # k
  BY <1>1, <1>2 DEF RsSharing
<1>10. /\ rsCount' = rsCount + 1 - (IF rsMap[k] = RsNone THEN 0 ELSE 1) + RsUncounted(rsOp[a]) - RsUncounted(q)
       /\ rsSize' = rsSize + size - rsMap[k].size + RsUnsized(rsOp[a]) - RsUnsized(q)
       /\ rsCount' - RsDoomed(q) <= rsCount - RsDoomed(rsOp[a])
       /\ rsSize' - RsPending(q) <= rsSize - RsPending(rsOp[a])
  <2>1. RsNone.size = 0
    BY RsSizesAre
  <2> HIDE DEF q, new
  <2> QED  BY <1>1, <1>2, <1>4, <1>6, <1>7, <2>1 DEF RsStands
<1> HIDE DEF new
<1>11. q.key = k
  OBVIOUS
<1> HIDE DEF q
<1> QED  BY <1>1, <1>3, <1>5, <1>8, <1>9, <1>10, <1>11, RsActs

\* ... and a lookup finds an entry expired.
LEMMA RsFinds == ASSUME RsInv, NEW a \in RsActors, NEW k \in RsKeys, RsFindExpired(a, k)
                 PROVE  RsInv'
<1> DEFINE q == [RsNoOp EXCEPT !.pc = "drop", !.key = k, !.new = rsMap[k]]
<1>1. /\ rsOp[a].pc = RsIdle /\ rsMap[k] # RsNone /\ rsOp' = [rsOp EXCEPT ![a] = q]
      /\ RsSharing(a, k) /\ UNCHANGED <<rsMap, rsCount, rsSize, rsNext>>
  BY DEF RsFindExpired
<1>2. /\ rsMap \in [RsKeys -> RsEntries] /\ rsNext \in 1..(RsLast + 1) /\ rsShared \in BOOLEAN
      /\ rsCount \in Int /\ rsSize \in Int /\ RsMaxEntries \in Nat
  BY RsAssumption DEF RsInv, RsTypeOK
<1>3. rsMap[k] \in RsEntries /\ rsMap[k].size \in Nat /\ rsMap = [rsMap EXCEPT ![k] = rsMap[k]]
  BY <1>2, RsSizesAre
<1>4. q.pc = "drop" /\ q.key = k /\ q.new = rsMap[k] /\ q.seen = 0 /\ q \in RsOps
  <2>1. q.pc = "drop" /\ q.key = k
    BY DEF RsNoOp
  <2>2. q.new = rsMap[k] /\ q.seen = 0
    BY DEF RsNoOp
  <2>3. RsNone \in RsEntries
    BY DEF RsEntries
  <2>4. RsNoOp \in RsOps
    BY <2>3 DEF RsNoOp, RsOps, RsIdle
  <2>5. q \in RsOps
    BY <1>3, <2>4 DEF RsOps
  <2> QED  BY <2>1, <2>2, <2>5
<1> HIDE DEF q
<1>5. RsInHand(q) /\ RsLeft(q) = rsMap[k]
  BY <1>1, <1>3, <1>4 DEF RsInHand, RsLeft, RsIdle
<1>6. RsStands(rsOp[a], 0, 0, 0, 0) /\ RsStands(q, 0, 0, 0, rsMap[k].size)
  BY <1>1, <1>2, <1>4, RsPlaces DEF RsOver
<1>9. /\ rsShared' \in BOOLEAN
      /\ ~rsShared' => ~rsShared /\ \A b \in RsActors \ {a} : rsOp[b].pc # RsIdle => rsOp[b].key # k
  BY <1>1, <1>2 DEF RsSharing
<1>10. /\ rsCount' = rsCount + (IF rsMap[k] = RsNone THEN 0 ELSE 1) - (IF rsMap[k] = RsNone THEN 0 ELSE 1)
                             + RsUncounted(rsOp[a]) - RsUncounted(q)
       /\ rsSize' = rsSize + rsMap[k].size - rsMap[k].size + RsUnsized(rsOp[a]) - RsUnsized(q)
       /\ rsCount' - RsDoomed(q) <= rsCount - RsDoomed(rsOp[a])
       /\ rsSize' - RsPending(q) <= rsSize - RsPending(rsOp[a])
  BY <1>1, <1>2, <1>3, <1>6 DEF RsStands
<1>11. rsMap' = [rsMap EXCEPT ![k] = rsMap[k]] /\ rsNext' \in 1..(RsLast + 1)
  BY <1>1, <1>2, <1>3
<1> QED  BY ZenonT(60), <1>1, <1>3, <1>4, <1>5, <1>9, <1>10, <1>11, RsActs

\* An actor that is done has nothing in hand.
LEMMA RsRests == RsNoOp \in RsOps /\ RsNoOp.pc = RsIdle /\ RsInHand(RsNoOp) /\ RsStands(RsNoOp, 0, 0, 0, 0)
<1>1. RsNone \in RsEntries
  BY DEF RsEntries
<1>2. RsNoOp \in RsOps /\ RsNoOp.pc = RsIdle
  BY <1>1 DEF RsNoOp, RsOps, RsIdle
<1>3. RsInHand(RsNoOp)
  BY <1>2 DEF RsInHand, RsIdle
<1> QED  BY <1>2, <1>3, RsPlaces

\* The counters follow, and the bounds stay.
RsCounts(op, q, from, e) ==
  /\ rsCount' = rsCount + (IF e = RsNone THEN 0 ELSE 1) - (IF from = RsNone THEN 0 ELSE 1)
                        + RsUncounted(op) - RsUncounted(q)
  /\ rsSize' = rsSize + e.size - from.size + RsUnsized(op) - RsUnsized(q)
  /\ ~rsShared =>
       /\ rsCount' - RsDoomed(q) <= rsCount - RsDoomed(op) \/ rsCount' <= RsMaxEntries
       /\ rsSize' - RsPending(q) <= rsSize - RsPending(op) \/ rsSize' <= RsMaxSize

\* A step of an operation under way either ends it or takes it to another place; the entry
\* of its key stays or is e.
LEMMA RsOnward ==
  ASSUME RsInv, NEW a \in RsActors, NEW op, op = rsOp[a], op.pc # RsIdle,
         NEW q \in RsOps, NEW e \in RsEntries, RsInHand(q),
         q = RsNoOp \/ (q.key = op.key /\ (~rsShared => RsLeft(q) = e)),
         rsOp' = [rsOp EXCEPT ![a] = q], rsMap' = [rsMap EXCEPT ![op.key] = e],
         rsNext' = rsNext, rsShared' = rsShared,
         RsCounts(op, q, rsMap[op.key], e)
  PROVE  RsInv'
<1>1. /\ op.key \in RsKeys /\ rsNext \in 1..(RsLast + 1) /\ rsShared \in BOOLEAN
      /\ ~rsShared => \A b \in RsActors \ {a} : rsOp[b].pc # RsIdle => rsOp[b].key # op.key
  BY RsGoesOn
<1>2. q.pc # RsIdle => q.key = op.key /\ (~rsShared => RsLeft(q) = e)
  BY RsRests
<1>3. rsNext' \in 1..(RsLast + 1) /\ rsShared' \in BOOLEAN
  BY <1>1
<1>4. /\ rsCount' = rsCount + (IF e = RsNone THEN 0 ELSE 1) - (IF rsMap[op.key] = RsNone THEN 0 ELSE 1)
                            + RsUncounted(rsOp[a]) - RsUncounted(q)
      /\ rsSize' = rsSize + e.size - rsMap[op.key].size + RsUnsized(rsOp[a]) - RsUnsized(q)
  BY DEF RsCounts
<1>6. ~rsShared' =>
        /\ ~rsShared
        /\ \A b \in RsActors \ {a} : rsOp[b].pc # RsIdle => rsOp[b].key # op.key
        /\ q.pc # RsIdle => q.key = op.key /\ RsLeft(q) = e
        /\ \/ rsCount' - RsDoomed(q) <= rsCount - RsDoomed(rsOp[a])
           \/ rsCount' <= RsMaxEntries
        /\ \/ rsSize' - RsPending(q) <= rsSize - RsPending(rsOp[a])
           \/ rsSize' <= RsMaxSize
  BY <1>1, <1>2 DEF RsCounts
<1> QED  BY <1>1, <1>3, <1>4, <1>6, RsActs

\* The steps of an operation under way.
LEMMA RsOperates ==
  ASSUME RsInv, NEW a \in RsActors, rsOp[a].pc # RsIdle,
         \/ RsAddGrowth(a) \/ RsCheckGrowth(a) \/ RsRestore(a) \/ RsSubGrowth(a)
         \/ RsAddEntry(a) \/ RsAddSize(a) \/ RsCheck(a)
         \/ RsDrop(a) \/ RsSubEntry(a) \/ RsSubSize(a)
  PROVE  RsInv'
<1> DEFINE op == rsOp[a]
           To(pc) == [op EXCEPT !.pc = pc]
<1>0. /\ op \in RsOps /\ op.key \in RsKeys /\ RsInHand(op) /\ rsMap[op.key] \in RsEntries
      /\ op.new \in RsEntries /\ op.old \in RsEntries /\ op.new # RsNone
      /\ op.new.size \in Nat /\ op.old.size \in Nat /\ op.seen \in Int
      /\ rsCount \in Int /\ rsSize \in Int /\ RsMaxEntries \in Nat /\ RsMaxSize \in Nat
      /\ rsMap = [rsMap EXCEPT ![op.key] = rsMap[op.key]]
      /\ ~rsShared => rsMap[op.key] = RsLeft(op)
  BY RsGoesOn
<1>a. RsNone \in RsEntries /\ RsNone.size = 0 /\ rsMap[op.key].size \in Nat
  BY <1>0, RsSizesAre DEF RsEntries
<1>b. \A pc \in {"grown", "restore", "restored", "sized", "drop", "dropped", "uncounted"} :
        RsGoto(a, pc) => rsOp' = [rsOp EXCEPT ![a] = To(pc)]
  BY DEF RsGoto
<1>c. RsEnd(a) => rsOp' = [rsOp EXCEPT ![a] = RsNoOp]
  BY DEF RsEnd
<1>d. \A pc \in {"grown", "restore", "restored", "sized", "drop", "dropped", "uncounted"} :
        /\ To(pc) \in RsOps /\ To(pc).pc = pc /\ To(pc).key = op.key
        /\ To(pc).new = op.new /\ To(pc).old = op.old /\ To(pc).seen = op.seen
  BY <1>0 DEF RsOps
<1> HIDE DEF op, To
<1>e. op = rsOp[a]
  BY DEF op
<1>f. op.pc # RsIdle
  BY DEF op
<1>g. /\ RsNoOp \in RsOps /\ RsInHand(RsNoOp) /\ RsStands(RsNoOp, 0, 0, 0, 0)
  BY RsRests
<1>1. ASSUME RsAddGrowth(a) PROVE RsInv'
  <2>1. /\ op.pc = "replaced" /\ rsSize' = rsSize + op.new.size - op.old.size
        /\ rsMap' = [rsMap EXCEPT ![op.key] = rsMap[op.key]] /\ rsCount' = rsCount
        /\ UNCHANGED <<rsNext, rsShared>>
    BY <1>0, <1>1 DEF RsAddGrowth, op
  <2>2. RsStands(op, 0, op.new.size - op.old.size, 0, 0)
    BY <2>1, RsPlaces
  <2>3. CASE op.new.size > op.old.size
    <3> DEFINE q == To("grown")
    <3>1. rsOp' = [rsOp EXCEPT ![a] = q]
      BY <1>1, <1>b, <2>3 DEF RsAddGrowth, op
    <3>2. /\ q \in RsOps /\ q.key = op.key /\ q.pc = "grown" /\ q.new = op.new /\ q.old = op.old
      BY <1>d
    <3> HIDE DEF q
    <3>3. RsInHand(q) /\ RsStands(q, 0, 0, 0, op.new.size - op.old.size)
      BY <1>0, <2>1, <2>3, <3>2, RsPlaces DEF RsInHand, RsIdle
    <3>4. ~rsShared => RsLeft(q) = rsMap[op.key]
      BY <1>0, <2>1, <3>2 DEF RsLeft
    <3>5. RsCounts(op, q, rsMap[op.key], rsMap[op.key])
      BY <1>0, <1>a, <2>1, <2>2, <3>3 DEF RsCounts, RsStands
    <3> QED  BY <1>0, <1>e, <1>f, <2>1, <3>1, <3>2, <3>3, <3>4, <3>5, RsOnward
  <2>4. CASE ~(op.new.size > op.old.size)
    <3>1. rsOp' = [rsOp EXCEPT ![a] = RsNoOp]
      BY <1>1, <1>c, <2>4 DEF RsAddGrowth, op
    <3>2. RsCounts(op, RsNoOp, rsMap[op.key], rsMap[op.key])
      BY <1>0, <1>a, <1>g, <2>1, <2>2, <2>4 DEF RsCounts, RsStands
    <3> QED  BY <1>0, <1>e, <1>f, <1>g, <2>1, <3>1, <3>2, RsOnward
  <2> QED  BY <2>3, <2>4
<1>2. ASSUME RsCheckGrowth(a) PROVE RsInv'
  <2>1. op.pc = "grown" /\ rsNext' = rsNext /\ rsShared' = rsShared
        /\ rsMap' = [rsMap EXCEPT ![op.key] = rsMap[op.key]]
        /\ rsCount' = rsCount
        /\ rsSize' = rsSize
    BY <1>0, <1>2 DEF RsCheckGrowth, op
  <2>2. RsStands(op, 0, 0, 0, op.new.size - op.old.size)
    BY <2>1, RsPlaces
  <2>3. CASE rsSize > RsMaxSize
    <3> DEFINE q == To("restore")
    <3>1. rsOp' = [rsOp EXCEPT ![a] = q]
      BY <1>2, <1>b, <2>1, <2>3 DEF RsCheckGrowth, op
    <3>2. q \in RsOps /\ q.key = op.key /\ q.pc = "restore" /\ q.new = op.new /\ q.old = op.old /\ q.seen = op.seen
      BY <1>d
    <3> HIDE DEF q
    <3>3. RsInHand(q) /\ RsStands(q, 0, 0, 0, op.new.size - op.old.size)
      BY <1>0, <2>1, <3>2, RsPlaces DEF RsInHand, RsIdle, RsOver
    <3>4. ~rsShared => RsLeft(q) = rsMap[op.key]
      BY <1>0, <2>1, <3>2 DEF RsLeft
    <3>5. RsCounts(op, q, rsMap[op.key], rsMap[op.key])
      BY <1>0, <1>a, <2>1, <2>2, <3>3, <2>3 DEF RsCounts, RsStands, RsOver
    <3> QED  BY <1>0, <1>a, <1>e, <1>f, <2>1, <2>3, <3>1, <3>2, <3>3, <3>4, <3>5, RsOnward
  <2>4. CASE ~(rsSize > RsMaxSize)
    <3>1. rsOp' = [rsOp EXCEPT ![a] = RsNoOp]
      BY <1>2, <1>c, <2>1, <2>4 DEF RsCheckGrowth, op
    <3>2. RsCounts(op, RsNoOp, rsMap[op.key], rsMap[op.key])
      BY <1>0, <1>a, <1>g, <2>1, <2>2, <2>4 DEF RsCounts, RsStands, RsLeft, RsOver
    <3> QED  BY <1>0, <1>e, <1>f, <1>g, <2>1, <2>4, <3>1, <3>2, RsOnward
  <2> QED  BY <2>3, <2>4
<1>3. ASSUME RsRestore(a) PROVE RsInv'
  <2>1. op.pc = "restore" /\ rsNext' = rsNext /\ rsShared' = rsShared
        /\ rsCount' = rsCount
        /\ rsSize' = rsSize
    BY <1>0, <1>3 DEF RsRestore, op
  <2>2. RsStands(op, 0, 0, 0, op.new.size - op.old.size)
    BY <2>1, RsPlaces
  <2>3. CASE rsMap[op.key] = op.new
    <3>0. rsMap' = [rsMap EXCEPT ![op.key] = op.old] /\ op.old # RsNone
      BY <1>0, <1>3, <2>1, <2>3 DEF RsRestore, RsInHand, op
    <3> DEFINE q == To("restored")
    <3>1. rsOp' = [rsOp EXCEPT ![a] = q]
      BY <1>3, <1>b, <2>1, <2>3, <3>0 DEF RsRestore, op
    <3>2. q \in RsOps /\ q.key = op.key /\ q.pc = "restored" /\ q.new = op.new /\ q.old = op.old /\ q.seen = op.seen
      BY <1>d
    <3> HIDE DEF q
    <3>3. RsInHand(q) /\ RsStands(q, 0, op.old.size - op.new.size, 0, op.new.size - op.old.size)
      BY <1>0, <2>1, <3>2, RsPlaces DEF RsInHand, RsIdle, RsOver
    <3>4. ~rsShared => RsLeft(q) = op.old
      BY <1>0, <2>1, <3>2 DEF RsLeft
    <3>5. RsCounts(op, q, rsMap[op.key], op.old)
      BY <1>0, <1>a, <2>1, <2>2, <3>3, <2>3, <3>0 DEF RsCounts, RsStands, RsOver
    <3> QED  BY <1>0, <1>a, <1>e, <1>f, <2>1, <2>3, <3>0, <3>1, <3>2, <3>3, <3>4, <3>5, RsOnward
  <2>4. CASE rsMap[op.key] # op.new
    <3>0. rsMap' = [rsMap EXCEPT ![op.key] = rsMap[op.key]]
      BY <1>0, <1>3, <2>4 DEF RsRestore, op
    <3>1. rsOp' = [rsOp EXCEPT ![a] = RsNoOp]
      BY <1>3, <1>c, <2>1, <2>4, <3>0 DEF RsRestore, op
    <3>2. RsCounts(op, RsNoOp, rsMap[op.key], rsMap[op.key])
      BY <1>0, <1>a, <1>g, <2>1, <2>2, <2>4, <3>0 DEF RsCounts, RsStands, RsLeft, RsOver
    <3> QED  BY <1>0, <1>e, <1>f, <1>g, <2>1, <2>4, <3>0, <3>1, <3>2, RsOnward
  <2> QED  BY <2>3, <2>4
<1>4. ASSUME RsSubGrowth(a) PROVE RsInv'
  <2>1. op.pc = "restored" /\ rsNext' = rsNext /\ rsShared' = rsShared
        /\ rsMap' = [rsMap EXCEPT ![op.key] = rsMap[op.key]]
        /\ rsCount' = rsCount
        /\ rsSize' = rsSize + op.old.size - op.new.size
    BY <1>0, <1>4 DEF RsSubGrowth, op
  <2>2. RsStands(op, 0, op.old.size - op.new.size, 0, op.new.size - op.old.size)
    BY <2>1, RsPlaces
  <2> QED
    <3>1. rsOp' = [rsOp EXCEPT ![a] = RsNoOp]
      BY <1>4, <1>c, <2>1 DEF RsSubGrowth, op
    <3>2. RsCounts(op, RsNoOp, rsMap[op.key], rsMap[op.key])
      BY <1>0, <1>a, <1>g, <2>1, <2>2 DEF RsCounts, RsStands, RsLeft, RsOver
    <3> QED  BY <1>0, <1>e, <1>f, <1>g, <2>1, <3>1, <3>2, RsOnward
<1>6. ASSUME RsAddSize(a) PROVE RsInv'
  <2>1. op.pc = "counted" /\ rsNext' = rsNext /\ rsShared' = rsShared
        /\ rsMap' = [rsMap EXCEPT ![op.key] = rsMap[op.key]]
        /\ rsCount' = rsCount
        /\ rsSize' = rsSize + op.new.size
    BY <1>0, <1>6 DEF RsAddSize, op
  <2>2. RsStands(op, 0, op.new.size, RsOver(op), 0)
    BY <2>1, RsPlaces
  <2> QED
    <3> DEFINE q == To("sized")
    <3>1. rsOp' = [rsOp EXCEPT ![a] = q]
      BY <1>6, <1>b, <2>1 DEF RsAddSize, op
    <3>2. q \in RsOps /\ q.key = op.key /\ q.pc = "sized" /\ q.new = op.new /\ q.old = op.old /\ q.seen = op.seen
      BY <1>d
    <3> HIDE DEF q
    <3>3. RsInHand(q) /\ RsStands(q, 0, 0, RsOver(op), op.new.size)
      BY <1>0, <2>1, <3>2, RsPlaces DEF RsInHand, RsIdle, RsOver
    <3>4. ~rsShared => RsLeft(q) = rsMap[op.key]
      BY <1>0, <2>1, <3>2 DEF RsLeft
    <3>5. RsCounts(op, q, rsMap[op.key], rsMap[op.key])
      BY <1>0, <1>a, <2>1, <2>2, <3>3 DEF RsCounts, RsStands, RsOver
    <3> QED  BY <1>0, <1>a, <1>e, <1>f, <2>1, <3>1, <3>2, <3>3, <3>4, <3>5, RsOnward
<1>7. ASSUME RsCheck(a) PROVE RsInv'
  <2>1. op.pc = "sized" /\ rsNext' = rsNext /\ rsShared' = rsShared
        /\ rsMap' = [rsMap EXCEPT ![op.key] = rsMap[op.key]]
        /\ rsCount' = rsCount
        /\ rsSize' = rsSize
    BY <1>0, <1>7 DEF RsCheck, op
  <2>2. RsStands(op, 0, 0, RsOver(op), op.new.size)
    BY <2>1, RsPlaces
  <2>3. CASE op.seen > RsMaxEntries \/ rsSize > RsMaxSize
    <3> DEFINE q == To("drop")
    <3>1. rsOp' = [rsOp EXCEPT ![a] = q]
      BY <1>7, <1>b, <2>1, <2>3 DEF RsCheck, op
    <3>2. q \in RsOps /\ q.key = op.key /\ q.pc = "drop" /\ q.new = op.new /\ q.old = op.old /\ q.seen = op.seen
      BY <1>d
    <3> HIDE DEF q
    <3>3. RsInHand(q) /\ RsStands(q, 0, 0, RsOver(op), op.new.size)
      BY <1>0, <2>1, <3>2, RsPlaces DEF RsInHand, RsIdle, RsOver
    <3>4. ~rsShared => RsLeft(q) = rsMap[op.key]
      BY <1>0, <2>1, <3>2 DEF RsLeft
    <3>5. RsCounts(op, q, rsMap[op.key], rsMap[op.key])
      BY <1>0, <1>a, <2>1, <2>2, <3>3, <2>3 DEF RsCounts, RsStands, RsOver
    <3> QED  BY <1>0, <1>a, <1>e, <1>f, <2>1, <2>3, <3>1, <3>2, <3>3, <3>4, <3>5, RsOnward
  <2>4. CASE ~(op.seen > RsMaxEntries \/ rsSize > RsMaxSize)
    <3>1. rsOp' = [rsOp EXCEPT ![a] = RsNoOp]
      BY <1>7, <1>c, <2>1, <2>4 DEF RsCheck, op
    <3>2. RsCounts(op, RsNoOp, rsMap[op.key], rsMap[op.key])
      BY <1>0, <1>a, <1>g, <2>1, <2>2, <2>4 DEF RsCounts, RsStands, RsLeft, RsOver
    <3> QED  BY <1>0, <1>e, <1>f, <1>g, <2>1, <2>4, <3>1, <3>2, RsOnward
  <2> QED  BY <2>3, <2>4
<1>8. ASSUME RsDrop(a) PROVE RsInv'
  <2>1. op.pc = "drop" /\ rsNext' = rsNext /\ rsShared' = rsShared
        /\ rsCount' = rsCount
        /\ rsSize' = rsSize
    BY <1>0, <1>8 DEF RsDrop, op
  <2>2. RsStands(op, 0, 0, RsOver(op), op.new.size)
    BY <2>1, RsPlaces
  <2>3. CASE rsMap[op.key] = op.new
    <3>0. rsMap' = [rsMap EXCEPT ![op.key] = RsNone]
      BY <1>0, <1>8, <2>1, <2>3 DEF RsDrop, op
    <3> DEFINE q == To("dropped")
    <3>1. rsOp' = [rsOp EXCEPT ![a] = q]
      BY <1>8, <1>b, <2>1, <2>3, <3>0 DEF RsDrop, op
    <3>2. q \in RsOps /\ q.key = op.key /\ q.pc = "dropped" /\ q.new = op.new /\ q.old = op.old /\ q.seen = op.seen
      BY <1>d
    <3> HIDE DEF q
    <3>3. RsInHand(q) /\ RsStands(q, -1, -op.new.size, 1, op.new.size)
      BY <1>0, <2>1, <3>2, RsPlaces DEF RsInHand, RsIdle, RsOver
    <3>4. ~rsShared => RsLeft(q) = RsNone
      BY <1>0, <2>1, <3>2 DEF RsLeft
    <3>5. RsCounts(op, q, rsMap[op.key], RsNone)
      BY <1>0, <1>a, <2>1, <2>2, <3>3, <2>3, <3>0 DEF RsCounts, RsStands, RsOver
    <3> QED  BY <1>0, <1>a, <1>e, <1>f, <2>1, <2>3, <3>0, <3>1, <3>2, <3>3, <3>4, <3>5, RsOnward
  <2>4. CASE rsMap[op.key] # op.new
    <3>0. rsMap' = [rsMap EXCEPT ![op.key] = rsMap[op.key]]
      BY <1>0, <1>8, <2>4 DEF RsDrop, op
    <3>1. rsOp' = [rsOp EXCEPT ![a] = RsNoOp]
      BY <1>8, <1>c, <2>1, <2>4, <3>0 DEF RsDrop, op
    <3>2. RsCounts(op, RsNoOp, rsMap[op.key], rsMap[op.key])
      BY <1>0, <1>a, <1>g, <2>1, <2>2, <2>4, <3>0 DEF RsCounts, RsStands, RsLeft, RsOver
    <3> QED  BY <1>0, <1>e, <1>f, <1>g, <2>1, <2>4, <3>0, <3>1, <3>2, RsOnward
  <2> QED  BY <2>3, <2>4
<1>9. ASSUME RsSubEntry(a) PROVE RsInv'
  <2>1. op.pc = "dropped" /\ rsNext' = rsNext /\ rsShared' = rsShared
        /\ rsMap' = [rsMap EXCEPT ![op.key] = rsMap[op.key]]
        /\ rsSize' = rsSize
        /\ rsCount' = rsCount - 1
    BY <1>0, <1>9 DEF RsSubEntry, op
  <2>2. RsStands(op, -1, -op.new.size, 1, op.new.size)
    BY <2>1, RsPlaces
  <2> QED
    <3> DEFINE q == To("uncounted")
    <3>1. rsOp' = [rsOp EXCEPT ![a] = q]
      BY <1>9, <1>b, <2>1 DEF RsSubEntry, op
    <3>2. q \in RsOps /\ q.key = op.key /\ q.pc = "uncounted" /\ q.new = op.new /\ q.old = op.old /\ q.seen = op.seen
      BY <1>d
    <3> HIDE DEF q
    <3>3. RsInHand(q) /\ RsStands(q, 0, -op.new.size, 0, op.new.size)
      BY <1>0, <2>1, <3>2, RsPlaces DEF RsInHand, RsIdle, RsOver
    <3>4. ~rsShared => RsLeft(q) = rsMap[op.key]
      BY <1>0, <2>1, <3>2 DEF RsLeft
    <3>5. RsCounts(op, q, rsMap[op.key], rsMap[op.key])
      BY <1>0, <1>a, <2>1, <2>2, <3>3 DEF RsCounts, RsStands, RsOver
    <3> QED  BY <1>0, <1>a, <1>e, <1>f, <2>1, <3>1, <3>2, <3>3, <3>4, <3>5, RsOnward
<1>10. ASSUME RsSubSize(a) PROVE RsInv'
  <2>1. op.pc = "uncounted" /\ rsNext' = rsNext /\ rsShared' = rsShared
        /\ rsMap' = [rsMap EXCEPT ![op.key] = rsMap[op.key]]
        /\ rsCount' = rsCount
        /\ rsSize' = rsSize - op.new.size
    BY <1>0, <1>10 DEF RsSubSize, op
  <2>2. RsStands(op, 0, -op.new.size, 0, op.new.size)
    BY <2>1, RsPlaces
  <2> QED
    <3>1. rsOp' = [rsOp EXCEPT ![a] = RsNoOp]
      BY <1>10, <1>c, <2>1 DEF RsSubSize, op
    <3>2. RsCounts(op, RsNoOp, rsMap[op.key], rsMap[op.key])
      BY <1>0, <1>a, <1>g, <2>1, <2>2 DEF RsCounts, RsStands, RsLeft, RsOver
    <3> QED  BY <1>0, <1>e, <1>f, <1>g, <2>1, <3>1, <3>2, RsOnward
<1>5. ASSUME RsAddEntry(a) PROVE RsInv'
  <2>1. op.pc = "added" /\ rsNext' = rsNext /\ rsShared' = rsShared
        /\ rsMap' = [rsMap EXCEPT ![op.key] = rsMap[op.key]]
        /\ rsSize' = rsSize
        /\ rsCount' = rsCount + 1
    BY <1>0, <1>5 DEF RsAddEntry, op
  <2>2. RsStands(op, 1, op.new.size, 0, 0)
    BY <2>1, RsPlaces
  <2> DEFINE q == [op EXCEPT !.pc = "counted", !.seen = rsCount + 1]
  <2>3. rsOp' = [rsOp EXCEPT ![a] = q]
    BY <1>5 DEF RsAddEntry, op
  <2>4. q \in RsOps /\ q.key = op.key /\ q.pc = "counted" /\ q.new = op.new /\ q.seen = rsCount + 1
    <3>1. q \in RsOps
      <4> DEFINE w == [op EXCEPT !.pc = "counted"]
      <4>1. w \in RsOps
        BY <1>0 DEF RsOps
      <4>2. [w EXCEPT !.seen = rsCount + 1] \in RsOps
        <5> HIDE DEF w
        <5> QED  BY <1>0, <4>1 DEF RsOps
      <4> QED  BY <4>2
    <3>2. q.pc = "counted" /\ q.seen = rsCount + 1
      BY <1>0 DEF RsOps
    <3>3. q.key = op.key /\ q.new = op.new
      BY <1>0 DEF RsOps
    <3> QED  BY <3>1, <3>2, <3>3
  <2> HIDE DEF q
  <2>5. RsInHand(q) /\ RsStands(q, 0, op.new.size, RsOver(q), 0)
    BY <1>0, <2>1, <2>4, RsPlaces DEF RsInHand, RsIdle
  <2>6. ~rsShared => RsLeft(q) = rsMap[op.key]
    BY <1>0, <2>1, <2>4 DEF RsLeft
  <2>7. RsCounts(op, q, rsMap[op.key], rsMap[op.key])
    BY <1>0, <1>a, <2>1, <2>2, <2>4, <2>5 DEF RsCounts, RsStands, RsOver
  <2> QED  BY <1>0, <1>e, <1>f, <2>1, <2>3, <2>4, <2>5, <2>6, <2>7, RsOnward
<1> QED  BY <1>1, <1>2, <1>3, <1>4, <1>5, <1>6, <1>7, <1>8, <1>9, <1>10

\* The invariant holds of the store.
THEOREM RsInvariance == RsSpec => []RsInv
<1>1. ASSUME RsInv, RsNextStep PROVE RsInv'
  <2>1. PICK a \in RsActors :
          \/ \E k \in RsKeys : RsFindExpired(a, k) \/ \E size \in RsSizes : RsSwap(a, k, size)
          \/ RsAddGrowth(a) \/ RsCheckGrowth(a) \/ RsRestore(a) \/ RsSubGrowth(a)
          \/ RsAddEntry(a) \/ RsAddSize(a) \/ RsCheck(a)
          \/ RsDrop(a) \/ RsSubEntry(a) \/ RsSubSize(a)
    BY <1>1 DEF RsNextStep
  <2>2. CASE \E k \in RsKeys : RsFindExpired(a, k) \/ \E size \in RsSizes : RsSwap(a, k, size)
    BY <1>1, <2>2, RsFinds, RsStores
  <2>3. CASE \/ RsAddGrowth(a) \/ RsCheckGrowth(a) \/ RsRestore(a) \/ RsSubGrowth(a)
             \/ RsAddEntry(a) \/ RsAddSize(a) \/ RsCheck(a)
             \/ RsDrop(a) \/ RsSubEntry(a) \/ RsSubSize(a)
    <3>1. rsOp[a].pc # RsIdle
      BY <2>3 DEF RsIdle, RsAddGrowth, RsCheckGrowth, RsRestore, RsSubGrowth, RsAddEntry, RsAddSize,
                  RsCheck, RsDrop, RsSubEntry, RsSubSize
    <3> QED  BY <1>1, <2>3, <3>1, RsOperates
  <2> QED  BY <2>1, <2>2, <2>3
<1>2. ASSUME RsInv, UNCHANGED rsVars PROVE RsInv'
  BY <1>2 DEF RsInv, RsTypeOK, RsShaped, RsInHand, RsAccounted, RsAlone, RsWithin, rsVars
<1> QED  BY <1>1, <1>2, RsInitially, PTL DEF RsSpec

\* The variables of the store keep their types.
THEOREM RsTypeCorrect == RsSpec => []RsTypeOK
<1>1. RsInv => RsTypeOK
  BY DEF RsInv
<1> QED  BY <1>1, RsInvariance, PTL

\* The two counters are the entries and bytes of the map but for the operations under way,
\* and where no two operations had one key at once the store is within its limits when
\* nothing is under way, whatever stores and drops ran beside each other.
THEOREM StoreIsAccounted == RsSpec => []RsSound
<1>1. RsInv => RsSound
  <2> SUFFICES ASSUME RsInv PROVE RsSound
    OBVIOUS
  <2>1. ASSUME ~rsShared, \A a \in RsActors : rsOp[a].pc = RsIdle
        PROVE  rsCount <= RsMaxEntries /\ rsSize <= RsMaxSize
    <3> DEFINE D == [a \in RsActors |-> RsDoomed(rsOp[a])]
               P == [a \in RsActors |-> RsPending(rsOp[a])]
    <3>1. \A a \in RsActors : D[a] = 0 /\ P[a] = 0
      BY <2>1, RsPlaces DEF RsStands
    <3>2. Total(D, RsActors) = 0 /\ Total(P, RsActors) = 0
      <4> HIDE DEF D, P
      <4> QED  BY <3>1, TotalZero, RsAssumption
    <3>3. RsDoomedBy(rsOp) = 0 /\ RsPendingBy(rsOp) = 0
      BY <3>2, SumIsTotal DEF RsDoomedBy, RsPendingBy
    <3> QED  BY <2>1, <3>3 DEF RsInv, RsWithin, RsTypeOK
  <2> QED  BY <2>1 DEF RsInv, RsSound, RsBounded
<1> QED  BY <1>1, RsInvariance, PTL

(* ---- conversations in the Responses protocol (Continuation) ---- *)

\* A round has attempts to make.
Running == ctRound # CtIdle /\ ctRound.pc = "run"

\* The request of the round is the last one, and it continues an earlier response.
CtCounts ==
  Running => /\ ctRound.n = ctCount /\ Len(ctConv) < ctCount
             /\ ctRound.continued \in 0 .. Len(ctConv) /\ ctVia \in {"ws", "http"}

\* What a client reads: nothing before the first run ends, and before the second one ends no
\* more than what the passthrough had written.
CtFrames ==
  Running => /\ ~ctRound.written
             /\ ctRound.run = 1 => ctRound.frames = <<>>
             /\ ctRound.frames = <<>> \/ ctRound.frames = <<Frame("part", "passthrough")>>

CtShape == CtTypeOK /\ CtCounts /\ CtFrames /\ CtOneAnswer

LEMMA CtValues ==
  /\ CtNone \in CtState /\ CtNone.last = 0 /\ CtNone.window = <<>>
  /\ CtIdle.pc = "idle" /\ \A r \in CtRunning : r # CtIdle
  /\ \A n \in Nat : Input(n) \in CtItem /\ Output(n) \in CtItem
  /\ CtRounds \in Nat /\ CtTries \in Nat /\ CtForks \in BOOLEAN
<1>1. CtRounds \in Nat /\ CtTries \in Nat /\ CtForks \in BOOLEAN
  BY CtBounds, Zenon DEF CtBounds
<1>2. CtNone \in CtState /\ CtNone.last = 0 /\ CtNone.window = <<>>
  BY <1>1 DEF CtNone, CtState
<1>3. CtIdle.pc = "idle" /\ \A r \in CtRunning : r # CtIdle
  BY DEF CtIdle, CtRunning
<1>4. \A n \in Nat : Input(n) \in CtItem /\ Output(n) \in CtItem
  BY DEF Input, Output, CtItem
<1>5. QED
  BY <1>1, <1>2, <1>3, <1>4

LEMMA CtInitially == CtInit => CtShape
<1> SUFFICES ASSUME CtInit PROVE CtShape
  OBVIOUS
<1>1. CtTypeOK
  BY CtValues DEF CtInit, CtTypeOK
<1>2. CtCounts /\ CtFrames /\ CtOneAnswer
  BY DEF CtInit, CtCounts, CtFrames, CtOneAnswer, Running
<1>3. QED
  BY <1>1, <1>2 DEF CtShape

\* The state a request finds.
LEMMA CtResolves ==
  ASSUME CtTypeOK, NEW model \in CtModels, NEW explicit \in BOOLEAN
  PROVE  Resolved(model, explicit) \in CtState
BY CtValues DEF CtTypeOK, Resolved

LEMMA CtNewRound ==
  ASSUME CtTypeOK, ctCount < CtRounds, NEW req \in CtRequests, NEW state \in CtState,
         NEW exec \in {"native", "replay"}, NEW items \in Seq(CtItem)
  PROVE  /\ NewRound(req, state, exec, items) \in CtRunning
         /\ req \in CtRequest /\ Continued(req) \in 0 .. Len(ctConv)
         /\ ctCount + 1 \in 1 .. CtRounds
<1>1. Len(ctConv) \in Nat /\ Len(ctConv) <= CtRounds /\ ctCount \in Nat
      /\ ctCount + 1 \in 1 .. CtRounds
  BY CtValues DEF CtTypeOK
<1>2. req \in CtRequest
  BY <1>1, CtValues DEF CtRequests, CtRequest
<1>3. Continued(req) \in 0 .. Len(ctConv)
  BY <1>1 DEF Continued, CtRequests
<1>4. NewRound(req, state, exec, items) \in CtRunning
  BY <1>1, <1>2, <1>3, CtValues DEF NewRound, CtRunning
<1>5. QED
  BY <1>1, <1>2, <1>3, <1>4

LEMMA CtReceives == ASSUME CtShape, Receive PROVE CtShape'
<1> USE DEF CtShape
<1>1. ctRound = CtIdle /\ ctCount < CtRounds /\ ctCount' = ctCount + 1
      /\ UNCHANGED <<ctVia, ctConv, ctKnown, ctHttp, ctPartial>>
  BY DEF Receive
<1>2. PICK req \in CtRequests : CtLegal(req) /\ (WsReceive(req) \/ HttpReceive(req))
  BY DEF Receive
<1>3. \A state \in CtState, n \in Nat : ReplayItems(state, n) \in Seq(CtItem)
  <2>1. ASSUME NEW state \in CtState, NEW n \in Nat PROVE ReplayItems(state, n) \in Seq(CtItem)
    <3>1. state.window \in Seq(CtItem) /\ Input(n) \in CtItem
      BY CtValues DEF CtState
    <3>2. QED
      BY <3>1 DEF ReplayItems
  <2>2. QED
    BY <2>1
<1>4. PICK state \in CtState, exec \in {"native", "replay"}, items \in Seq(CtItem) :
        ctRound' = NewRound(req, state, exec, items)
  <2>1. ctCount + 1 \in Nat /\ <<Input(ctCount + 1)>> \in Seq(CtItem)
    <3>1. ctCount + 1 \in Nat /\ Input(ctCount + 1) \in CtItem
      BY CtValues DEF CtTypeOK
    <3>2. QED
      BY <3>1
  <2>2. CASE WsReceive(req)
    <3> DEFINE found == Resolved(req.model, req.prev # 0)
               state == IF Continues(req) THEN found ELSE CtNone
    <3>1. found \in CtState /\ state \in CtState
      BY CtResolves, CtValues DEF CtRequests
    <3>2. \/ ctRound' = NewRound(req, state, "replay", ReplayItems(state, ctCount + 1))
          \/ ctRound' = NewRound(req, state, "native", <<Input(ctCount + 1)>>)
      BY <2>2 DEF WsReceive
    <3>3. ReplayItems(state, ctCount + 1) \in Seq(CtItem)
      BY <1>3, <2>1, <3>1
    <3> HIDE DEF state
    <3>4. QED
      BY <2>1, <3>1, <3>2, <3>3, CtValues
  <2>3. CASE HttpReceive(req)
    <3> DEFINE state == IF req.prev = 0 THEN CtNone ELSE ctHttp[req.prev]
    <3>1. state \in CtState
      BY CtValues DEF CtTypeOK, CtRequests
    <3>2. \/ ctRound' = NewRound(req, state, "replay", ReplayItems(state, ctCount + 1))
          \/ ctRound' = NewRound(req, CtNone, "native", <<Input(ctCount + 1)>>)
      BY <2>3 DEF HttpReceive
    <3>3. ReplayItems(state, ctCount + 1) \in Seq(CtItem)
      BY <1>3, <2>1, <3>1
    <3> HIDE DEF state
    <3>4. QED
      BY <2>1, <3>1, <3>2, <3>3, CtValues
  <2>4. QED
    BY <1>2, <2>2, <2>3
<1>5. ctRound' \in CtRunning /\ Continued(req) \in 0 .. Len(ctConv)
  BY <1>1, <1>4, CtNewRound
<1>6. ctLocal' = ctLocal /\ ctStored' \in [CtModels -> CtState] /\ ctVia \in {"ws", "http"}
  BY <1>2, CtValues DEF WsReceive, HttpReceive, CtTypeOK
<1>7. CtTypeOK'
  <2>1. ctCount' \in 0 .. CtRounds /\ Len(ctConv) <= ctCount'
    BY <1>1, CtValues DEF CtTypeOK
  <2>2. QED
    BY <1>1, <1>5, <1>6, <2>1 DEF CtTypeOK
<1>8. /\ ctRound'.n = ctCount + 1 /\ ctRound'.continued = Continued(req)
      /\ ctRound'.run = 1 /\ ctRound'.written = FALSE /\ ctRound'.frames = <<>>
  BY <1>4 DEF NewRound
<1>9. CtCounts' /\ CtFrames'
  BY <1>1, <1>5, <1>6, <1>8 DEF CtCounts, CtFrames, CtTypeOK
<1>10. CtOneAnswer'
  BY <1>8 DEF CtOneAnswer
<1>11. QED
  BY <1>7, <1>9, <1>10

\* What a client may read.
OneAnswerIn(frames) ==
  \A i, j \in DOMAIN frames : i < j =>
    /\ frames[i].what = "part"
    /\ frames[j].what # "error" => frames[i].by = "passthrough"

LEMMA CtReadings ==
  ASSUME NEW before \in {<<>>, <<Frame("part", "passthrough")>>},
         NEW what \in {"part", "full", "error"},
         NEW by \in {"passthrough", "transform", "http", "gateway"}
  PROVE  /\ OneAnswerIn(before) /\ OneAnswerIn(Append(before, Frame(what, by)))
         /\ OneAnswerIn(Append(Append(before, Frame("part", by)), Frame("error", "gateway")))
         /\ Frame(what, by) \in CtFrame
<1>1. Frame(what, by).what = what /\ Frame(what, by).by = by /\ Frame(what, by) \in CtFrame
  BY DEF Frame, CtFrame
<1>2. /\ before \in Seq(CtFrame) /\ Len(before) \in {0, 1}
      /\ \A i \in 1 .. Len(before) : before[i] = Frame("part", "passthrough")
  <2>1. Frame("part", "passthrough") \in CtFrame
    BY DEF Frame, CtFrame
  <2>2. CASE before = <<>>
    BY <2>2
  <2>3. CASE before = <<Frame("part", "passthrough")>>
    BY <2>1, <2>3
  <2>4. QED
    BY <2>2, <2>3
<1>3. /\ Append(before, Frame(what, by)) \in Seq(CtFrame)
      /\ Len(Append(before, Frame(what, by))) = Len(before) + 1
      /\ \A i \in 1 .. Len(before) + 1 :
           Append(before, Frame(what, by))[i] = IF i <= Len(before) THEN before[i] ELSE Frame(what, by)
  BY <1>1, <1>2
<1>4. /\ Append(before, Frame("part", by)) \in Seq(CtFrame)
      /\ Len(Append(before, Frame("part", by))) = Len(before) + 1
      /\ \A i \in 1 .. Len(before) + 1 :
           Append(before, Frame("part", by))[i] = IF i <= Len(before) THEN before[i] ELSE Frame("part", by)
  BY <1>2 DEF Frame, CtFrame
<1>5. Frame("error", "gateway").what = "error" /\ Frame("error", "gateway") \in CtFrame
      /\ Frame("part", by).what = "part" /\ Frame("part", "passthrough").what = "part"
      /\ Frame("part", "passthrough").by = "passthrough"
  BY DEF Frame, CtFrame
<1> DEFINE first == Append(before, Frame("part", by))
           both == Append(first, Frame("error", "gateway"))
<1>6. Len(both) = Len(before) + 2 /\ DOMAIN both = 1 .. Len(before) + 2
      /\ \A i \in 1 .. Len(before) + 2 :
           both[i] = IF i <= Len(before) + 1 THEN first[i] ELSE Frame("error", "gateway")
  BY <1>2, <1>4, <1>5
<1>7. OneAnswerIn(before) /\ OneAnswerIn(Append(before, Frame(what, by)))
  BY <1>1, <1>2, <1>3, <1>5 DEF OneAnswerIn
<1>8. OneAnswerIn(both)
  BY <1>2, <1>4, <1>5, <1>6 DEF OneAnswerIn
<1>9. QED
  BY <1>1, <1>7, <1>8

LEMMA CtPays ==
  ASSUME CtShape, Running, ctRound.tries < CtTries, NEW what \in {"part", "full"},
         NEW by \in {"passthrough", "transform", "http"}
  PROVE  /\ Paid(what, by) \in CtRunning
         /\ Paid(what, by).frames = Append(ctRound.frames, Frame(what, by))
         /\ Paid(what, by).written = (by # "passthrough")
         /\ Paid(what, by).pc = "run" /\ Paid(what, by).run = ctRound.run
         /\ Paid(what, by).n = ctRound.n /\ Paid(what, by).continued = ctRound.continued
         /\ Paid(what, by).exec = ctRound.exec /\ Paid(what, by).items = ctRound.items
         /\ Paid(what, by).state = ctRound.state /\ Paid(what, by).req = ctRound.req
<1>1. ctRound \in CtRunning /\ ctRound.pc = "run" /\ ~ctRound.written
  BY CtValues DEF CtShape, CtTypeOK, CtFrames, Running
<1>2. Append(ctRound.frames, Frame(what, by)) \in Seq(CtFrame)
  <2>1. ctRound.frames \in Seq(CtFrame) /\ Frame(what, by) \in CtFrame
    BY <1>1 DEF CtRunning, Frame, CtFrame
  <2>2. QED
    BY <2>1
<1>3. ctRound.tries + 1 \in 0 .. CtTries
  BY <1>1, CtValues DEF CtRunning
<1>4. (ctRound.written \/ by # "passthrough") = (by # "passthrough")
  BY <1>1
<1>5. QED
  BY <1>1, <1>2, <1>3, <1>4 DEF Paid, CtRunning

\* A round that goes on or ends keeps the shape, if the client may read its frames.
LEMMA CtRoundStep ==
  ASSUME CtShape, Running, ctRound' \in CtRunning, OneAnswerIn(ctRound'.frames),
         ctLocal' \in CtState, ctStored' \in [CtModels -> CtState],
         UNCHANGED <<ctVia, ctConv, ctKnown, ctHttp, ctCount, ctPartial>>,
         ctRound'.pc = "run" =>
           /\ ctRound'.n = ctRound.n /\ ctRound'.continued = ctRound.continued
           /\ ~ctRound'.written /\ (ctRound'.run = 1 => ctRound'.frames = <<>>)
           /\ ctRound'.frames \in {<<>>, <<Frame("part", "passthrough")>>}
  PROVE  CtShape'
<1>1. CtTypeOK'
  BY DEF CtShape, CtTypeOK
<1>2. CtCounts' /\ CtFrames'
  BY DEF CtShape, CtCounts, CtFrames, Running
<1>3. CtOneAnswer'
  BY DEF CtOneAnswer, OneAnswerIn
<1>4. QED
  BY <1>1, <1>2, <1>3 DEF CtShape

LEMMA CtFails ==
  ASSUME CtShape, NEW channel \in CtChannels,
         NEW transport \in {"passthrough", "transform", "http"},
         FailNext(channel, transport) \/ FailCommitted(channel, transport)
  PROVE  CtShape'
<1>1. /\ ctRound \in CtRunning /\ ctRound.pc = "run" /\ Running /\ ctRound.tries < CtTries
      /\ ~ctRound.written /\ ctRound.frames \in {<<>>, <<Frame("part", "passthrough")>>}
      /\ ctRound.run = 1 => ctRound.frames = <<>>
      /\ UNCHANGED <<ctVia, ctConv, ctKnown, ctStored, ctHttp, ctCount, ctPartial>>
      /\ ctLocal \in CtState /\ ctStored \in [CtModels -> CtState] /\ ctRound.state \in CtState
  BY CtValues DEF FailNext, FailCommitted, CtAttempt, CtShape, CtTypeOK, CtFrames, Running, CtIdle,
     CtRunning
<1>2. CASE FailNext(channel, transport)
  <2>1. ctRound.tries + 1 \in 0 .. CtTries
    BY <1>1, CtValues DEF CtRunning
  <2>2. ctRound' \in CtRunning
    BY <1>1, <1>2, <2>1 DEF FailNext, CtRunning
  <2>3. /\ ctRound'.pc = "run" /\ ctRound'.n = ctRound.n /\ ctRound'.continued = ctRound.continued
        /\ ctRound'.frames = ctRound.frames /\ ctRound'.written = ctRound.written
        /\ ctRound'.run = ctRound.run /\ ctLocal' = ctLocal
    BY <1>1, <1>2 DEF FailNext, CtRunning
  <2>4. OneAnswerIn(ctRound'.frames)
    BY <1>1, <2>3, CtReadings
  <2>5. QED
    BY <1>1, <2>2, <2>3, <2>4, CtRoundStep
<1>3. CASE FailCommitted(channel, transport)
  <2> DEFINE p == Paid("part", transport)
  <2>1. p \in CtRunning /\ p.frames = Append(ctRound.frames, Frame("part", transport))
    BY <1>1, CtPays
  <2>2. ctRound' \in CtRunning /\ ctRound'.pc = "ended" /\ ctRound'.frames = p.frames
    BY <1>3, <2>1 DEF FailCommitted, CtRunning
  <2>3. OneAnswerIn(ctRound'.frames)
    BY <1>1, <2>1, <2>2, CtReadings
  <2>4. ctLocal' \in CtState
    BY <1>1, <1>3 DEF FailCommitted
  <2>5. QED
    BY <1>1, <2>2, <2>3, <2>4, CtRoundStep
<1>4. QED
  BY <1>2, <1>3

LEMMA CtRestarts ==
  ASSUME CtShape, NEW channel \in CtChannels,
         NEW transport \in {"passthrough", "transform", "http"}, NEW paid \in BOOLEAN,
         Restart(channel, transport, paid)
  PROVE  CtShape'
<1> DEFINE failed == IF paid THEN Paid("part", transport) ELSE ctRound
           state == ctRound.state
<1>1. /\ ctRound \in CtRunning /\ ctRound.pc = "run" /\ Running /\ ctRound.tries < CtTries
      /\ ~ctRound.written /\ ctRound.frames \in {<<>>, <<Frame("part", "passthrough")>>}
      /\ ctRound.run = 1 => ctRound.frames = <<>>
      /\ UNCHANGED <<ctVia, ctConv, ctKnown, ctHttp, ctCount, ctPartial>>
      /\ ctLocal \in CtState /\ ctStored \in [CtModels -> CtState] /\ state \in CtState
      /\ ctRound.req \in CtRequest
  BY CtValues DEF Restart, CtAttempt, CtShape, CtTypeOK, CtFrames, Running, CtIdle, CtRunning
<1>2. /\ failed \in CtRunning /\ failed.pc = "run" /\ failed.n = ctRound.n
      /\ failed.continued = ctRound.continued /\ failed.run = ctRound.run
      /\ failed.frames = IF paid THEN Append(ctRound.frames, Frame("part", transport))
                         ELSE ctRound.frames
      /\ failed.written = (paid /\ transport # "passthrough")
  <2>1. CASE paid
    BY <1>1, <2>1, CtPays
  <2>2. CASE ~paid
    <3>1. ctRound.written = FALSE
      BY <1>1 DEF CtRunning
    <3>2. failed = ctRound
      BY <2>2
    <3> HIDE DEF failed
    <3>3. QED
      BY <1>1, <2>2, <3>1, <3>2
  <2>3. QED
    BY <2>1, <2>2
<1> HIDE DEF failed, state
<1>3. CASE AutoRestart(state, ctRound.req, failed)
  <2>1. ctRound' = [failed EXCEPT !.run = 2, !.tries = 0, !.exec = "replay",
                                  !.items = ReplayItems(state, ctRound.n)]
        /\ UNCHANGED <<ctLocal, ctStored>>
    BY <1>3 DEF Restart, failed, state
  <2>2. ReplayItems(state, ctRound.n) \in Seq(CtItem)
    <3>1. state.window \in Seq(CtItem)
      BY <1>1 DEF CtState
    <3>2. ctRound.n \in Nat
      BY <1>1, CtValues DEF CtRunning
    <3>3. Input(ctRound.n) \in CtItem
      BY <3>2, CtValues
    <3>4. QED
      BY <3>1, <3>3 DEF ReplayItems
  <2>3. ~failed.written /\ ctRound.run = 1
    BY <1>2, <1>3 DEF AutoRestart
  <2>4. failed.frames \in {<<>>, <<Frame("part", "passthrough")>>}
    <3>1. ctRound.frames = <<>>
      BY <1>1, <2>3
    <3>2. CASE paid
      <4>1. transport = "passthrough" /\ failed.frames = Append(<<>>, Frame("part", "passthrough"))
        BY <1>2, <2>3, <3>1, <3>2
      <4>2. QED
        BY <4>1
    <3>3. CASE ~paid
      BY <1>2, <3>1, <3>3
    <3>4. QED
      BY <3>2, <3>3
  <2>5. /\ ctRound' \in CtRunning /\ ctRound'.pc = "run" /\ ctRound'.n = ctRound.n
        /\ ctRound'.continued = ctRound.continued /\ ctRound'.run = 2
        /\ ctRound'.written = failed.written /\ ctRound'.frames = failed.frames
    <3>1. 0 \in 0 .. CtTries
      BY CtValues
    <3>2. failed \in CtRunning /\ failed.pc = "run" /\ failed.n = ctRound.n
          /\ failed.continued = ctRound.continued
      BY <1>2
    <3>3. QED
      BY <2>1, <2>2, <3>1, <3>2 DEF CtRunning
  <2>6. OneAnswerIn(ctRound'.frames)
    BY <2>4, <2>5, CtReadings
  <2>7. QED
    BY <1>1, <2>1, <2>3, <2>4, <2>5, <2>6, CtRoundStep
<1>4. CASE ~AutoRestart(state, ctRound.req, failed)
  <2>1. ctRound' = [failed EXCEPT !.frames = Append(@, Frame("error", "gateway")), !.pc = "ended"]
    BY <1>4 DEF Restart, failed, state
  <2>2. ctLocal' \in CtState /\ ctStored' \in [CtModels -> CtState]
    BY <1>1, <1>4, CtValues DEF Restart, failed, state
  <2>3. Frame("error", "gateway") \in CtFrame
    BY DEF Frame, CtFrame
  <2>4. failed.frames \in Seq(CtFrame)
    BY <1>2 DEF CtRunning
  <2>5. Append(failed.frames, Frame("error", "gateway")) \in Seq(CtFrame)
    BY <2>3, <2>4
  <2>6. /\ ctRound' \in CtRunning /\ ctRound'.pc = "ended"
        /\ ctRound'.frames = Append(failed.frames, Frame("error", "gateway"))
    BY <1>2, <2>1, <2>5 DEF CtRunning
  <2>7. OneAnswerIn(ctRound'.frames)
    <3>1. CASE paid
      BY <1>1, <1>2, <2>6, <3>1, CtReadings
    <3>2. CASE ~paid
      BY <1>1, <1>2, <2>6, <3>2, CtReadings
    <3>3. QED
      BY <3>1, <3>2
  <2>8. QED
    BY <1>1, <2>2, <2>6, <2>7, CtRoundStep
<1>5. QED
  BY <1>3, <1>4

LEMMA CtGivesUp == ASSUME CtShape, Exhaust \/ CtCancel PROVE CtShape'
<1>1. PICK frames \in {<<>>, <<Frame("error", "gateway")>>} : GiveUp(frames)
  BY DEF Exhaust, CtCancel
<1>2. /\ ctRound \in CtRunning /\ ctRound.pc = "run" /\ Running
      /\ ctRound.frames \in {<<>>, <<Frame("part", "passthrough")>>}
      /\ UNCHANGED <<ctVia, ctConv, ctKnown, ctStored, ctHttp, ctCount, ctPartial>>
      /\ ctLocal \in CtState /\ ctStored \in [CtModels -> CtState] /\ ctRound.state \in CtState
  BY <1>1, CtValues DEF GiveUp, CtShape, CtTypeOK, CtFrames, Running, CtIdle, CtRunning
<1>3. ctLocal' \in CtState
  BY <1>1, <1>2 DEF GiveUp
<1>4. Frame("error", "gateway") \in CtFrame /\ Frame("part", "passthrough") \in CtFrame
  BY DEF Frame, CtFrame
<1>5. \/ ctRound.frames \o frames = ctRound.frames
      \/ ctRound.frames \o frames = Append(ctRound.frames, Frame("error", "gateway"))
  <2>1. ctRound.frames \in Seq(CtFrame)
    BY <1>2 DEF CtRunning
  <2>2. CASE frames = <<>>
    BY <2>1, <2>2
  <2>3. CASE frames = <<Frame("error", "gateway")>>
    BY <1>4, <2>1, <2>3
  <2>4. QED
    BY <2>2, <2>3
<1>6. OneAnswerIn(ctRound.frames \o frames) /\ ctRound.frames \o frames \in Seq(CtFrame)
  <2>1. ctRound.frames \in Seq(CtFrame) /\ frames \in Seq(CtFrame)
    <3>1. ctRound.frames \in Seq(CtFrame)
      BY <1>2 DEF CtRunning
    <3>2. CASE frames = <<>>
      BY <3>1, <3>2
    <3>3. CASE frames = <<Frame("error", "gateway")>>
      BY <1>4, <3>1, <3>3
    <3>4. QED
      BY <3>2, <3>3
  <2>2. ctRound.frames \o frames \in Seq(CtFrame)
    BY <2>1
  <2>3. QED
    BY <1>2, <1>5, <2>2, CtReadings
<1>7. ctRound' \in CtRunning /\ ctRound'.pc = "ended" /\ ctRound'.frames = ctRound.frames \o frames
  BY <1>1, <1>2, <1>6 DEF GiveUp, CtRunning
<1>8. QED
  BY <1>2, <1>3, <1>6, <1>7, CtRoundStep

LEMMA CtBetween ==
  ASSUME CtShape, WsRefuse \/ CtEnd \/ Reconnect \/ Expire
  PROVE  CtShape'
<1>1. /\ ctRound' = CtIdle /\ UNCHANGED <<ctVia, ctConv, ctKnown, ctPartial>>
      /\ ctCount' \in {ctCount} \cup {n \in {ctCount + 1} : ctCount < CtRounds}
  BY DEF WsRefuse, CtEnd, Reconnect, Expire
<1>2. ctLocal' \in CtState /\ ctStored' \in [CtModels -> CtState]
      /\ ctHttp' \in [1 .. CtRounds -> CtState]
  <2>1. ctLocal \in CtState /\ ctStored \in [CtModels -> CtState]
        /\ ctHttp \in [1 .. CtRounds -> CtState]
    BY DEF CtShape, CtTypeOK
  <2>2. CASE WsRefuse
    <3>1. PICK req \in CtRequests :
            LET found == Resolved(req.model, req.prev # 0) IN
            \/ ctLocal' = found /\ UNCHANGED ctStored
            \/ /\ ctLocal' = IF Continues(req) THEN found ELSE CtNone
               /\ ctStored' = IF Continues(req) THEN ctStored
                              ELSE [ctStored EXCEPT ![req.model] = CtNone]
      BY <2>2 DEF WsRefuse
    <3>2. Resolved(req.model, req.prev # 0) \in CtState
      BY CtResolves DEF CtShape, CtRequests
    <3>3. ctHttp' = ctHttp
      BY <2>2 DEF WsRefuse
    <3>4. QED
      BY <2>1, <3>1, <3>2, <3>3, CtValues
  <2>3. CASE CtEnd
    BY <2>1, <2>3 DEF CtEnd
  <2>4. CASE Reconnect
    BY <2>1, <2>4, CtValues DEF Reconnect
  <2>5. CASE Expire
    BY <2>1, <2>5, CtValues DEF Expire
  <2>6. QED
    BY <2>2, <2>3, <2>4, <2>5
<1>3. ctCount' \in 0 .. CtRounds /\ Len(ctConv) <= ctCount'
  BY <1>1, CtValues DEF CtShape, CtTypeOK
<1>4. CtTypeOK'
  BY <1>1, <1>2, <1>3 DEF CtShape, CtTypeOK
<1>5. CtCounts' /\ CtFrames' /\ CtOneAnswer'
  BY <1>1 DEF CtCounts, CtFrames, CtOneAnswer, Running
<1>6. QED
  BY <1>4, <1>5 DEF CtShape

\* What is recorded of a conversation is a sequence of items.
LEMMA CtMeans ==
  ASSUME CtTypeOK, NEW continued \in 0 .. Len(ctConv), NEW n \in Nat, NEW id \in Nat
  PROVE  /\ Meant(continued, n) \in Seq(CtItem)
         /\ Append(Meant(continued, n), Output(id)) \in Seq(CtItem)
<1>1. Input(n) \in CtItem /\ Output(id) \in CtItem
  BY CtValues
<1>2. ctConv \in Seq(CtResponse)
  BY DEF CtTypeOK
<1>3. (IF continued = 0 THEN <<>> ELSE ctConv[continued].items) \in Seq(CtItem)
  <2>1. CASE continued = 0
    BY <2>1
  <2>2. CASE continued # 0
    <3>1. ctConv[continued] \in CtResponse
      BY <1>2, <2>2
    <3>2. QED
      BY <2>2, <3>1 DEF CtResponse
  <2>3. QED
    BY <2>1, <2>2
<1>4. <<Input(n)>> \in Seq(CtItem)
  BY <1>1
<1>5. Meant(continued, n) \in Seq(CtItem)
  BY <1>3, <1>4 DEF Meant
<1>6. QED
  BY <1>1, <1>5

LEMMA CtApplies ==
  ASSUME NEW state, NEW model \in CtModels, NEW base \in Seq(CtItem), NEW id \in 0 .. CtRounds,
         NEW raw \in BOOLEAN, NEW pending \in BOOLEAN
  PROVE  Applied(state, model, base, id, raw, pending) \in CtState
<1>1. Output(id) \in CtItem
  BY CtValues
<1>2. Append(base, Output(id)) \in Seq(CtItem)
  BY <1>1
<1>3. QED
  BY <1>2 DEF Applied, CtState

LEMMA CtAnswers ==
  ASSUME CtShape, NEW channel \in CtChannels,
         NEW transport \in {"passthrough", "transform", "http"}, Answer(channel, transport)
  PROVE  CtShape'
<1> DEFINE id == Len(ctConv) + 1
           raw == ExactOutput(channel, transport)
           p == Paid("full", transport)
           items == Append(Meant(ctRound.continued, ctRound.n), Output(id))
           response == [model |-> ctRound.req.model, items |-> items]
<1>1. /\ ctRound \in CtRunning /\ ctRound.pc = "run" /\ Running /\ ctRound.tries < CtTries
      /\ ctRound.frames \in {<<>>, <<Frame("part", "passthrough")>>}
      /\ ctRound.n = ctCount /\ Len(ctConv) < ctCount /\ ctRound.continued \in 0 .. Len(ctConv)
      /\ ctVia' = ctVia /\ ctCount' = ctCount /\ CtTypeOK
      /\ ctLocal \in CtState /\ ctStored \in [CtModels -> CtState] /\ ctRound.state \in CtState
      /\ ctHttp \in [1 .. CtRounds -> CtState] /\ ctRound.req \in CtRequest
      /\ ctRound.n \in 1 .. CtRounds /\ ctRound.items \in Seq(CtItem)
  BY CtValues DEF Answer, CtAttempt, CtShape, CtTypeOK, CtFrames, CtCounts, Running, CtIdle, CtRunning
<1>2. /\ ctConv' = Append(ctConv, response)
      /\ ctKnown' = [ctKnown EXCEPT ![channel] = @ \cup {id}]
      /\ ctPartial' \in {ctPartial, ctPartial \cup {id}}
      /\ ctRound' = [p EXCEPT !.pc = "ended"]
      /\ IF ctVia = "ws" THEN WsRecord(id, raw) ELSE HttpRecord(id, raw)
  BY DEF Answer
<1>3. id \in 1 .. CtRounds /\ ctConv \in Seq(CtResponse) /\ Len(ctConv) \in Nat
      /\ ctCount \in 0 .. CtRounds /\ id <= ctCount /\ raw \in BOOLEAN
  BY <1>1, CtValues DEF CtTypeOK, ExactOutput
<1>4. response \in CtResponse
  <2>1. items \in Seq(CtItem)
    BY <1>1, <1>3, CtMeans
  <2>2. QED
    BY <1>1, <2>1 DEF CtResponse, CtRequest
<1>5. ctConv' \in Seq(CtResponse) /\ Len(ctConv') = Len(ctConv) + 1 /\ DOMAIN ctConv' = 1 .. id
  <2> HIDE DEF response
  <2>1. QED
    BY <1>2, <1>3, <1>4
<1>6. ctKnown' \in [CtChannels -> SUBSET DOMAIN ctConv'] /\ ctPartial' \subseteq DOMAIN ctConv'
  BY <1>1, <1>2, <1>3, <1>5 DEF CtTypeOK
<1>7. ctLocal' \in CtState /\ ctStored' \in [CtModels -> CtState]
      /\ ctHttp' \in [1 .. CtRounds -> CtState]
  <2>1. CASE ctVia = "ws"
    <3> DEFINE base == Append(ctRound.state.window, Input(ctRound.n))
               pending == ctRound.run = 2 /\ ctRound.req.tools
               s == Applied(ctRound.state, ctRound.req.model, base, id, raw, pending)
    <3>1. base \in Seq(CtItem) /\ pending \in BOOLEAN
      <4>1. ctRound.state.window \in Seq(CtItem)
        BY <1>1 DEF CtState
      <4>2. ctRound.n \in Nat
        BY <1>1, CtValues
      <4>3. Input(ctRound.n) \in CtItem
        BY <4>2, CtValues
      <4>4. QED
        BY <1>1, <4>1, <4>3 DEF CtRequest
    <3>2. s \in CtState
      <4> HIDE DEF base, pending, raw, id
      <4>1. ctRound.req.model \in CtModels /\ id \in 0 .. CtRounds
        BY <1>1, <1>3 DEF CtRequest
      <4>2. QED
        BY <1>3, <3>1, <4>1, CtApplies
    <3>3. ctLocal' = s /\ ctStored' = [ctStored EXCEPT ![ctRound.req.model] = s]
          /\ ctHttp' = ctHttp
      BY <1>2, <2>1 DEF WsRecord
    <3> HIDE DEF s
    <3>4. QED
      BY <1>1, <3>2, <3>3
  <2>2. CASE ctVia # "ws"
    <3> DEFINE s == Applied(ctRound.state, ctRound.req.model, ctRound.items, id, raw, FALSE)
    <3>1. s \in CtState
      <4> HIDE DEF raw, id
      <4>1. ctRound.req.model \in CtModels /\ id \in 0 .. CtRounds /\ FALSE \in BOOLEAN
        BY <1>1, <1>3 DEF CtRequest
      <4>2. QED
        BY <1>1, <1>3, <4>1, CtApplies
    <3>2. ctHttp' = [ctHttp EXCEPT ![id] = s] /\ UNCHANGED <<ctLocal, ctStored>>
      BY <1>2, <2>2 DEF HttpRecord
    <3> HIDE DEF s
    <3>3. QED
      BY <1>1, <3>1, <3>2
  <2>3. QED
    BY <2>1, <2>2
<1>8. /\ ctRound' \in CtRunning /\ ctRound'.pc = "ended"
      /\ ctRound'.frames = Append(ctRound.frames, Frame("full", transport))
  <2>1. p \in CtRunning /\ p.frames = Append(ctRound.frames, Frame("full", transport))
    BY <1>1, CtPays
  <2> HIDE DEF p
  <2>2. QED
    BY <1>2, <2>1 DEF CtRunning
<1>9. CtTypeOK'
  BY <1>1, <1>3, <1>5, <1>6, <1>7, <1>8 DEF CtTypeOK
<1>10. CtOneAnswer'
  <2>1. OneAnswerIn(ctRound'.frames)
    BY <1>1, <1>8, CtReadings
  <2>2. QED
    BY <2>1 DEF CtOneAnswer, OneAnswerIn
<1>11. CtCounts' /\ CtFrames'
  BY <1>8 DEF CtCounts, CtFrames, Running
<1>12. QED
  BY <1>9, <1>10, <1>11 DEF CtShape

\* CtShape holds in every state, whether clients fork conversations or not.
THEOREM CtInvariance == CtSpec => []CtShape
<1>1. ASSUME CtShape, [CtNext]_ctVars PROVE CtShape'
  <2>1. CASE Receive
    BY <1>1, <2>1, CtReceives
  <2>2. CASE WsRefuse \/ CtEnd \/ Reconnect \/ Expire
    BY <1>1, <2>2, CtBetween
  <2>3. CASE Exhaust \/ CtCancel
    BY <1>1, <2>3, CtGivesUp
  <2>4. ASSUME NEW channel \in CtChannels, NEW transport \in {"passthrough", "transform", "http"},
               \/ Answer(channel, transport) \/ FailNext(channel, transport)
               \/ FailCommitted(channel, transport)
               \/ \E paid \in BOOLEAN : Restart(channel, transport, paid)
        PROVE  CtShape'
    BY <1>1, <2>4, CtAnswers, CtFails, CtRestarts
  <2>5. CASE UNCHANGED ctVars
    BY <1>1, <2>5 DEF ctVars, CtShape, CtTypeOK, CtCounts, CtFrames, CtOneAnswer, Running
  <2>6. QED
    BY <1>1, <2>1, <2>2, <2>3, <2>4, <2>5 DEF CtNext
<1>2. QED
  BY <1>1, CtInitially, PTL DEF CtSpec

\* The round and the kept states keep their shape.
THEOREM CtTypeCorrect == CtSpec => []CtTypeOK
<1>1. CtShape => CtTypeOK
  BY DEF CtShape
<1>2. QED
  BY <1>1, CtInvariance, PTL

\* A client reads one answer to a request, whatever fails, restarts or is given up at any
\* attempt (ws_client.go, ws_passthrough.go).
THEOREM OneAnswerIsRead == CtSpec => []CtOneAnswer
<1>1. CtShape => CtOneAnswer
  BY DEF CtShape
<1>2. QED
  BY <1>1, CtInvariance, PTL

(* ---- what is replayed ---- *)

\* A state records the conversation up to a response, or some of it.
Recorded(state, conv, partial) ==
  /\ state.last \in DOMAIN conv
  /\ TakenFrom(state.window, conv[state.last].items)
  /\ state.last \notin partial => state.window = conv[state.last].items

\* The response of a state is the latest of its model.
Latest(state, conv) ==
  /\ conv[state.last].model = state.model
  /\ \A id \in DOMAIN conv : conv[id].model = state.model => id <= state.last

\* Items are requests up to one and answers up to one.
Told(items, count, id) ==
  \A i \in DOMAIN items :
    (\E n \in 1 .. count : items[i] = Input(n)) \/ (\E o \in 1 .. id : items[i] = Output(o))

\* A conversation is of earlier requests than the one under way.
CtItems ==
  \A id \in DOMAIN ctConv :
    Told(ctConv[id].items, IF Running THEN ctCount - 1 ELSE ctCount, id)

\* The states that are kept: on a socket they record the latest response of their model.
CtKept ==
  /\ ctVia = "ws" =>
       /\ ctLocal # CtNone => Recorded(ctLocal, ctConv, ctPartial) /\ Latest(ctLocal, ctConv)
       /\ \A m \in CtModels : ctStored[m] # CtNone =>
            /\ ctStored[m].model = m
            /\ Recorded(ctStored[m], ctConv, ctPartial) /\ Latest(ctStored[m], ctConv)
  /\ \A id \in 1 .. CtRounds : ctHttp[id] # CtNone =>
       ctHttp[id].last = id /\ Recorded(ctHttp[id], ctConv, ctPartial)

\* What a round runs with: the state records what the request continues, a replay sends it.
CtRunsWith ==
  Running =>
    /\ ctRound.state # CtNone =>
         /\ ctRound.continued = ctRound.state.last /\ Recorded(ctRound.state, ctConv, ctPartial)
         /\ ctVia = "ws" =>
              ctRound.state.model = ctRound.req.model /\ Latest(ctRound.state, ctConv)
    /\ ctRound.exec = "replay" =>
         ctRound.state # CtNone /\ ctRound.items = ReplayItems(ctRound.state, ctRound.n)
    /\ ctRound.exec = "native" =>
         ctRound.items = <<Input(ctRound.n)>> /\ (ctVia = "http" => ctRound.state = CtNone)

\* A round that ended stays sound; one that runs is, by what it runs with (CtReplays).
CtHeld == CtItems /\ CtKept /\ CtRunsWith /\ (~Running => CtReplaySound)

LEMMA CtDistinct ==
  ASSUME NEW n, NEW m
  PROVE  /\ Input(n) = Input(m) => n = m
         /\ Output(n) = Output(m) => n = m
         /\ Input(n) # Output(m)
BY DEF Input, Output

\* Some of a conversation is some of a longer one, and stays so when both go on alike.
LEMMA TakenOnward ==
  ASSUME NEW S, NEW items \in Seq(S), NEW conv \in Seq(S), NEW x \in S,
         TakenFrom(items, conv), \A j \in DOMAIN conv : conv[j] # x
  PROVE  TakenFrom(items, Append(conv, x)) /\ TakenFrom(Append(items, x), Append(conv, x))
<1> DEFINE long == Append(conv, x)
           more == Append(items, x)
<1>1. /\ DOMAIN items = 1 .. Len(items) /\ DOMAIN conv = 1 .. Len(conv)
      /\ Len(items) \in Nat /\ Len(conv) \in Nat
      /\ DOMAIN long = 1 .. Len(conv) + 1 /\ DOMAIN more = 1 .. Len(items) + 1
      /\ \A j \in 1 .. Len(conv) : long[j] = conv[j]
      /\ long[Len(conv) + 1] = x
      /\ \A i \in 1 .. Len(items) : more[i] = items[i]
      /\ more[Len(items) + 1] = x
  OBVIOUS
<1> HIDE DEF long, more
<1>2. \A i \in DOMAIN items : \E j \in DOMAIN conv : items[i] = conv[j]
  BY DEF TakenFrom
<1>3. \A i \in DOMAIN items : items[i] # x
  BY <1>2
<1>4. \A i, k \in DOMAIN items : \A j, l \in DOMAIN conv :
        i < k /\ items[i] = conv[j] /\ items[k] = conv[l] => j < l
  BY DEF TakenFrom
<1>5. TakenFrom(items, long)
  <2>1. \A i \in DOMAIN items : \E j \in DOMAIN long : items[i] = long[j]
    BY <1>1, <1>2
  <2>2. ASSUME NEW i \in DOMAIN items, NEW k \in DOMAIN items, NEW j \in DOMAIN long,
               NEW l \in DOMAIN long, i < k, items[i] = long[j], items[k] = long[l]
        PROVE  j < l
    <3>1. j # Len(conv) + 1 /\ l # Len(conv) + 1
      BY <1>1, <1>3, <2>2
    <3>2. j \in DOMAIN conv /\ l \in DOMAIN conv /\ long[j] = conv[j] /\ long[l] = conv[l]
      BY <1>1, <3>1
    <3>3. QED
      BY <1>4, <2>2, <3>2
  <2>3. QED
    BY <2>1, <2>2 DEF TakenFrom
<1>6. TakenFrom(more, long)
  <2>1. \A i \in DOMAIN more : \E j \in DOMAIN long : more[i] = long[j]
    BY <1>1, <1>2
  <2>2. ASSUME NEW i \in DOMAIN more, NEW k \in DOMAIN more, NEW j \in DOMAIN long,
               NEW l \in DOMAIN long, i < k, more[i] = long[j], more[k] = long[l]
        PROVE  j < l
    <3>1. i \in DOMAIN items /\ more[i] = items[i]
      BY <1>1, <2>2
    <3>2. j # Len(conv) + 1 /\ j \in DOMAIN conv /\ long[j] = conv[j]
      <4>1. long[j] # x
        BY <1>3, <2>2, <3>1
      <4>2. j \in 1 .. Len(conv)
        BY <1>1, <4>1
      <4>3. QED
        BY <1>1, <4>2
    <3>3. CASE k = Len(items) + 1
      <4>1. l \notin DOMAIN conv
        BY <1>1, <2>2, <3>3
      <4>2. QED
        BY <1>1, <3>2, <4>1
    <3>4. CASE k # Len(items) + 1
      <4>1. k \in DOMAIN items /\ more[k] = items[k]
        BY <1>1, <3>4
      <4>2. l # Len(conv) + 1 /\ l \in DOMAIN conv /\ long[l] = conv[l]
        <5>1. long[l] # x
          BY <1>3, <2>2, <4>1
        <5>2. l \in 1 .. Len(conv)
          BY <1>1, <5>1
        <5>3. QED
          BY <1>1, <5>2
      <4>3. QED
        BY <1>4, <2>2, <3>1, <3>2, <4>1, <4>2
    <3>5. QED
      BY <3>3, <3>4
  <2>3. QED
    BY <2>1, <2>2 DEF TakenFrom
<1>7. QED
  BY <1>5, <1>6 DEF long, more

LEMMA TakenNothing == ASSUME NEW conv PROVE TakenFrom(<<>>, conv)
BY DEF TakenFrom

LEMMA ToldMore ==
  ASSUME NEW items, NEW a \in Nat, NEW b \in Nat, NEW c \in Nat, NEW d \in Nat, a <= b, c <= d,
         Told(items, a, c)
  PROVE  Told(items, b, d)
<1>1. 1 .. a \subseteq 1 .. b /\ 1 .. c \subseteq 1 .. d
  OBVIOUS
<1>2. QED
  BY <1>1 DEF Told

\* Another response leaves what states record as it was.
LEMMA CtRecordsStay ==
  ASSUME NEW conv \in Seq(CtResponse), NEW response \in CtResponse, NEW state, NEW partial,
         NEW partial2 \in {partial, partial \cup {Len(conv) + 1}}, Recorded(state, conv, partial)
  PROVE  /\ Recorded(state, Append(conv, response), partial2)
         /\ Latest(state, conv) /\ response.model # state.model =>
              Latest(state, Append(conv, response))
<1> DEFINE long == Append(conv, response)
<1>1. /\ DOMAIN conv = 1 .. Len(conv) /\ Len(conv) \in Nat /\ DOMAIN long = 1 .. Len(conv) + 1
      /\ \A id \in 1 .. Len(conv) : long[id] = conv[id]
      /\ long[Len(conv) + 1] = response
  OBVIOUS
<1> HIDE DEF long
<1>2. state.last \in DOMAIN conv /\ state.last \in DOMAIN long /\ long[state.last] = conv[state.last]
      /\ (state.last \in partial2) = (state.last \in partial)
  BY <1>1 DEF Recorded
<1>3. Recorded(state, long, partial2)
  BY <1>2 DEF Recorded
<1>4. ASSUME Latest(state, conv), response.model # state.model PROVE Latest(state, long)
  BY <1>1, <1>2, <1>4 DEF Latest
<1>5. QED
  BY <1>3, <1>4 DEF long

\* The conversation that the round's request continues.
Earlier == IF ctRound.continued = 0 THEN <<>> ELSE ctConv[ctRound.continued].items

\* What a round sends and will record, against the conversation it means.
LEMMA CtSends ==
  ASSUME CtShape, CtItems, CtRunsWith, Running
  PROVE  LET window == ctRound.state.window
             base == Append(window, Input(ctRound.n))
             meant == Append(Earlier, Input(ctRound.n))
             id == Len(ctConv) + 1
         IN /\ window \in Seq(CtItem) /\ Earlier \in Seq(CtItem)
            /\ base \in Seq(CtItem) /\ meant \in Seq(CtItem)
            /\ Meant(ctRound.continued, ctRound.n) = meant
            /\ TakenFrom(base, meant) /\ TakenFrom(base, Append(meant, Output(id)))
            /\ TakenFrom(Append(base, Output(id)), Append(meant, Output(id)))
            /\ ctRound.state.last = ctRound.continued /\ ctRound.continued \notin ctPartial =>
                 window = Earlier
            /\ Told(Append(meant, Output(id)), ctCount, id)
<1> DEFINE window == ctRound.state.window
           base == Append(window, Input(ctRound.n))
           meant == Append(Earlier, Input(ctRound.n))
           id == Len(ctConv) + 1
<1>1. /\ ctRound \in CtRunning /\ ctRound.state \in CtState /\ ctConv \in Seq(CtResponse)
      /\ ctRound.n = ctCount /\ ctCount \in Nat \ {0} /\ Len(ctConv) \in Nat
      /\ Len(ctConv) < ctCount /\ ctRound.continued \in 0 .. Len(ctConv)
  BY CtValues DEF CtShape, CtTypeOK, CtCounts, Running, CtRunning
<1>2. window \in Seq(CtItem) /\ Earlier \in Seq(CtItem)
  <2>1. window \in Seq(CtItem)
    BY <1>1 DEF CtState
  <2>2. CASE ctRound.continued = 0
    BY <2>1, <2>2 DEF Earlier
  <2>3. CASE ctRound.continued # 0
    <3>1. ctConv[ctRound.continued] \in CtResponse
      BY <1>1, <2>3
    <3>2. QED
      BY <2>1, <2>3, <3>1 DEF Earlier, CtResponse
  <2>4. QED
    BY <2>2, <2>3
<1>3. Input(ctRound.n) \in CtItem /\ Output(id) \in CtItem
  <2>1. ctRound.n \in Nat /\ id \in Nat
    BY <1>1
  <2>2. QED
    BY <2>1, CtValues
<1>4. base \in Seq(CtItem) /\ meant \in Seq(CtItem)
  BY <1>2, <1>3
<1>5. Meant(ctRound.continued, ctRound.n) = meant
  <2>1. Meant(ctRound.continued, ctRound.n) = Earlier \o <<Input(ctRound.n)>>
    BY DEF Meant, Earlier
  <2>2. QED
    BY <1>2, <1>3, <2>1
<1>6. Told(Earlier, ctCount - 1, Len(ctConv))
  <2>1. CASE ctRound.continued = 0
    BY <2>1 DEF Earlier, Told
  <2>2. CASE ctRound.continued # 0
    <3>1. ctRound.continued \in DOMAIN ctConv
      BY <1>1, <2>2
    <3>2. Told(ctConv[ctRound.continued].items, ctCount - 1, ctRound.continued)
      BY <3>1 DEF CtItems
    <3>3. ctCount - 1 \in Nat /\ ctRound.continued \in Nat /\ ctRound.continued <= Len(ctConv)
      BY <1>1
    <3>4. QED
      BY <1>1, <2>2, <3>2, <3>3, ToldMore DEF Earlier
  <2>3. QED
    BY <2>1, <2>2
<1>7. TakenFrom(window, Earlier)
      /\ (ctRound.state.last = ctRound.continued /\ ctRound.continued \notin ctPartial =>
            window = Earlier)
  <2>1. CASE ctRound.state = CtNone
    <3>1. window = <<>> /\ ctRound.state.last = 0
      BY <2>1, CtValues
    <3>2. ctRound.continued = 0 => Earlier = <<>>
      BY DEF Earlier
    <3> HIDE DEF window
    <3>3. QED
      BY <3>1, <3>2, TakenNothing
  <2>2. CASE ctRound.state # CtNone
    <3>1. ctRound.continued = ctRound.state.last /\ Recorded(ctRound.state, ctConv, ctPartial)
      BY <2>2 DEF CtRunsWith
    <3>2. ctRound.continued # 0
      BY <1>1, <3>1 DEF Recorded
    <3>3. QED
      BY <3>1, <3>2 DEF Recorded, Earlier
  <2>3. QED
    BY <2>1, <2>2
<1>8. \A j \in DOMAIN Earlier : Earlier[j] # Input(ctRound.n) /\ Earlier[j] # Output(id)
  <2>1. \A n \in 1 .. ctCount - 1 : n # ctRound.n
    BY <1>1
  <2>2. \A o \in 1 .. Len(ctConv) : o # id
    BY <1>1
  <2> HIDE DEF id
  <2>3. QED
    BY <1>6, <2>1, <2>2, CtDistinct DEF Told
<1>9. TakenFrom(base, meant)
  BY <1>2, <1>3, <1>7, <1>8, TakenOnward
<1>10. \A j \in DOMAIN meant : meant[j] # Output(id)
  <2>1. /\ DOMAIN meant = 1 .. Len(Earlier) + 1 /\ DOMAIN Earlier = 1 .. Len(Earlier)
        /\ Len(Earlier) \in Nat
        /\ \A j \in 1 .. Len(Earlier) : meant[j] = Earlier[j]
        /\ meant[Len(Earlier) + 1] = Input(ctRound.n)
    BY <1>2, <1>3
  <2> HIDE DEF meant, id
  <2>2. QED
    BY <1>8, <2>1, CtDistinct
<1>11. TakenFrom(base, Append(meant, Output(id)))
       /\ TakenFrom(Append(base, Output(id)), Append(meant, Output(id)))
  <2> HIDE DEF base, meant, id
  <2>1. QED
    BY <1>3, <1>4, <1>9, <1>10, TakenOnward
<1>12. Told(Append(meant, Output(id)), ctCount, id)
  <2> DEFINE whole == Append(meant, Output(id))
  <2>1. /\ DOMAIN whole = 1 .. Len(Earlier) + 2 /\ DOMAIN Earlier = 1 .. Len(Earlier)
        /\ Len(Earlier) \in Nat
        /\ \A j \in 1 .. Len(Earlier) : whole[j] = Earlier[j]
        /\ whole[Len(Earlier) + 1] = Input(ctRound.n) /\ whole[Len(Earlier) + 2] = Output(id)
    BY <1>2, <1>3, <1>4
  <2>2. ctCount - 1 \in Nat /\ ctCount \in Nat /\ id \in Nat /\ Len(ctConv) <= id
        /\ ctCount - 1 <= ctCount /\ ctRound.n \in 1 .. ctCount /\ id \in 1 .. id
    BY <1>1
  <2>3. Told(Earlier, ctCount, id)
    BY <1>1, <1>6, <2>2, ToldMore
  <2> HIDE DEF whole, id
  <2>4. ASSUME NEW j \in DOMAIN whole
        PROVE  (\E n \in 1 .. ctCount : whole[j] = Input(n)) \/ (\E o \in 1 .. id : whole[j] = Output(o))
    <3>1. j \in 1 .. Len(Earlier) \/ j = Len(Earlier) + 1 \/ j = Len(Earlier) + 2
      BY <2>1
    <3>2. CASE j \in 1 .. Len(Earlier)
      BY <2>1, <2>3, <3>2 DEF Told
    <3>3. CASE j = Len(Earlier) + 1
      BY <2>1, <2>2, <3>3
    <3>4. CASE j = Len(Earlier) + 2
      BY <2>1, <2>2, <3>4
    <3>5. QED
      BY <3>1, <3>2, <3>3, <3>4
  <2>5. Told(whole, ctCount, id)
    BY <2>4 DEF Told
  <2>6. QED
    BY <2>5 DEF whole, id
<1>13. QED
  BY <1>2, <1>4, <1>5, <1>7, <1>9, <1>11, <1>12

\* A replay under way is the conversation, or some of it.
LEMMA CtReplays ==
  ASSUME CtShape, CtItems, CtRunsWith, Running
  PROVE  CtReplaySound
<1> SUFFICES ASSUME ctRound.exec = "replay"
             PROVE  LET meant == Meant(ctRound.continued, ctRound.n) IN
                    /\ TakenFrom(ctRound.items, meant)
                    /\ Last(ctRound.items) = Input(ctRound.n)
                    /\ ctRound.continued \notin ctPartial => ctRound.items = meant
  BY DEF CtReplaySound
<1> DEFINE window == ctRound.state.window
           base == Append(window, Input(ctRound.n))
           meant == Append(Earlier, Input(ctRound.n))
<1>1. ctRound.items = base /\ ctRound.state.last = ctRound.continued
  BY DEF CtRunsWith, ReplayItems
<1>2. /\ window \in Seq(CtItem) /\ Meant(ctRound.continued, ctRound.n) = meant
      /\ TakenFrom(base, meant)
      /\ ctRound.state.last = ctRound.continued /\ ctRound.continued \notin ctPartial =>
           window = Earlier
  BY CtSends
<1>3. Last(base) = Input(ctRound.n)
  <2>1. Len(base) = Len(window) + 1 /\ base[Len(window) + 1] = Input(ctRound.n)
    <3> HIDE DEF window
    <3>1. QED
      BY <1>2
  <2> HIDE DEF base
  <2>2. QED
    BY <2>1 DEF Last
<1>4. QED
  BY <1>1, <1>2, <1>3

\* What was replayed stays what it was while later responses come.
LEMMA CtStaysReplayed ==
  ASSUME CtReplaySound, ctRound # CtIdle, ctConv \in Seq(CtResponse),
         ctRound.continued \in 0 .. Len(ctConv), NEW response \in CtResponse,
         ctRound'.exec = ctRound.exec, ctRound'.items = ctRound.items,
         ctRound'.continued = ctRound.continued, ctRound'.n = ctRound.n,
         ctConv' \in {ctConv, Append(ctConv, response)},
         ctPartial' \in {ctPartial, ctPartial \cup {Len(ctConv) + 1}}
  PROVE  CtReplaySound'
<1> DEFINE earlier(conv) == IF ctRound.continued = 0 THEN <<>> ELSE conv[ctRound.continued].items
           meant(conv) == earlier(conv) \o <<Input(ctRound.n)>>
<1>1. earlier(ctConv') = earlier(ctConv)
  <2>1. CASE ctRound.continued = 0
    BY <2>1
  <2>2. CASE ctRound.continued # 0
    <3>1. ctRound.continued \in 1 .. Len(ctConv)
      BY <2>2
    <3>2. ctConv'[ctRound.continued] = ctConv[ctRound.continued]
      BY <3>1
    <3>3. QED
      BY <3>2
  <2>3. QED
    BY <2>1, <2>2
<1> HIDE DEF earlier
<1>2. meant(ctConv') = meant(ctConv)
  BY <1>1
<1>3. Meant(ctRound.continued, ctRound.n) = meant(ctConv)
      /\ Meant(ctRound.continued, ctRound.n)' = meant(ctConv')
  BY DEF Meant, earlier
<1>4. (ctRound.continued \in ctPartial') = (ctRound.continued \in ctPartial)
  <2>1. ctRound.continued # Len(ctConv) + 1
    OBVIOUS
  <2>2. QED
    BY <2>1
<1> HIDE DEF meant
<1>5. Meant(ctRound.continued, ctRound.n)' = Meant(ctRound.continued, ctRound.n)
  BY <1>2, <1>3
<1>6. QED
  BY <1>4, <1>5 DEF CtReplaySound

\* The steps of a round that bring no response: it goes on as it was or as a replay of its
\* state, or ends; the socket keeps what it had, the round's state or none.
LEMMA CtRoundHeld ==
  ASSUME CtShape, CtHeld, Running, ctRound' # CtIdle,
         UNCHANGED <<ctVia, ctConv, ctKnown, ctHttp, ctCount, ctPartial>>,
         ctLocal' \in {ctLocal, ctRound.state, CtNone},
         \A m \in CtModels : ctStored'[m] \in {ctStored[m], CtNone},
         ctRound'.n = ctRound.n, ctRound'.continued = ctRound.continued,
         \/ ctRound'.exec = ctRound.exec /\ ctRound'.items = ctRound.items
         \/ /\ ctRound'.pc = "run" /\ ctRound'.exec = "replay" /\ ctRound.state # CtNone
            /\ ctRound'.items = ReplayItems(ctRound.state, ctRound.n),
         ctRound'.pc = "run" => ctRound'.state = ctRound.state /\ ctRound'.req = ctRound.req
  PROVE  CtHeld'
<1> USE DEF CtHeld
<1>1. CtItems'
  <2>1. ASSUME NEW id \in DOMAIN ctConv
        PROVE  Told(ctConv[id].items, IF Running' THEN ctCount - 1 ELSE ctCount, id)
    <3>1. Told(ctConv[id].items, ctCount - 1, id)
      BY DEF CtItems
    <3>2. ctCount - 1 \in Nat /\ ctCount \in Nat /\ ctCount - 1 <= ctCount /\ id \in Nat /\ id <= id
      BY CtValues DEF CtShape, CtTypeOK, CtCounts, Running
    <3>3. QED
      BY <3>1, <3>2, ToldMore
  <2>2. QED
    BY <2>1 DEF CtItems
<1>2. ctRound.state # CtNone =>
        /\ Recorded(ctRound.state, ctConv, ctPartial)
        /\ ctVia = "ws" => Latest(ctRound.state, ctConv)
  BY DEF CtRunsWith
<1>3. CtKept'
  BY <1>2 DEF CtKept
<1>4. CtRunsWith'
  <2>1. SUFFICES ASSUME ctRound'.pc = "run" PROVE CtRunsWith'
    BY DEF CtRunsWith, Running
  <2>2. CASE ctRound'.exec = ctRound.exec /\ ctRound'.items = ctRound.items
    BY <2>1, <2>2 DEF CtRunsWith
  <2>3. CASE /\ ctRound'.exec = "replay" /\ ctRound.state # CtNone
             /\ ctRound'.items = ReplayItems(ctRound.state, ctRound.n)
    <3>1. ReplayItems(ctRound.state, ctRound.n) = ReplayItems(ctRound.state, ctRound.n)'
      BY <2>1 DEF ReplayItems, Input
    <3>2. QED
      BY <2>1, <2>3, <3>1 DEF CtRunsWith, ReplayItems
  <2>4. QED
    BY <2>2, <2>3
<1>5. ~Running' => CtReplaySound'
  <2>1. SUFFICES ASSUME ~Running' PROVE CtReplaySound'
    OBVIOUS
  <2>2. ctRound'.exec = ctRound.exec /\ ctRound'.items = ctRound.items
    BY <2>1 DEF Running
  <2>3. CtReplaySound
    BY CtReplays
  <2>4. ctConv \in Seq(CtResponse) /\ ctRound.continued \in 0 .. Len(ctConv) /\ ctRound # CtIdle
    BY DEF CtShape, CtTypeOK, CtCounts, Running
  <2>5. \E response : response \in CtResponse
    <3>1. ctRound.req.model \in CtModels /\ <<>> \in Seq(CtItem)
      BY DEF CtShape, CtTypeOK, CtRunning, CtRequest, Running
    <3>2. [model |-> ctRound.req.model, items |-> <<>>] \in CtResponse
      BY <3>1 DEF CtResponse
    <3>3. QED
      BY <3>2
  <2>6. QED
    BY <2>2, <2>3, <2>4, <2>5, CtStaysReplayed
<1>6. QED
  BY <1>1, <1>3, <1>4, <1>5

LEMMA CtFailsHeld ==
  ASSUME CtShape, CtHeld, NEW channel \in CtChannels,
         NEW transport \in {"passthrough", "transform", "http"},
         FailNext(channel, transport) \/ FailCommitted(channel, transport)
  PROVE  CtHeld'
<1>1. ctRound \in CtRunning /\ ctRound.pc = "run" /\ Running /\ ctRound.tries < CtTries
      /\ UNCHANGED <<ctVia, ctConv, ctKnown, ctStored, ctHttp, ctCount, ctPartial>>
  BY CtValues DEF FailNext, FailCommitted, CtAttempt, CtShape, CtTypeOK, Running, CtIdle
<1>2. CASE FailNext(channel, transport)
  <2>1. ctRound' = [ctRound EXCEPT !.tries = @ + 1] /\ ctLocal' = ctLocal
    BY <1>2 DEF FailNext
  <2>2. ctRound'.pc = "run"
    BY <1>1, <2>1 DEF CtRunning
  <2>3. QED
    BY <1>1, <2>1, <2>2, CtRoundHeld, CtValues DEF CtRunning
<1>3. CASE FailCommitted(channel, transport)
  <2> DEFINE p == Paid("part", transport)
  <2>1. ctRound' = [p EXCEPT !.pc = "ended"]
        /\ ctLocal' \in {ctLocal, ctRound.state}
    BY <1>3 DEF FailCommitted
  <2>2. /\ p \in CtRunning /\ p.n = ctRound.n /\ p.continued = ctRound.continued
        /\ p.exec = ctRound.exec /\ p.items = ctRound.items
    BY <1>1, CtPays
  <2> HIDE DEF p
  <2>3. /\ ctRound'.pc = "ended" /\ ctRound'.n = ctRound.n /\ ctRound'.continued = ctRound.continued
        /\ ctRound'.exec = ctRound.exec /\ ctRound'.items = ctRound.items
    BY <2>1, <2>2 DEF CtRunning
  <2>4. ctRound' # CtIdle
    BY <2>3 DEF CtIdle
  <2>5. QED
    BY <1>1, <2>1, <2>3, <2>4, CtRoundHeld
<1>4. QED
  BY <1>2, <1>3

LEMMA CtGivesUpHeld == ASSUME CtShape, CtHeld, Exhaust \/ CtCancel PROVE CtHeld'
<1>1. PICK frames : GiveUp(frames)
  BY DEF Exhaust, CtCancel
<1>2. ctRound \in CtRunning /\ Running
      /\ UNCHANGED <<ctVia, ctConv, ctKnown, ctStored, ctHttp, ctCount, ctPartial>>
      /\ ctLocal' \in {ctLocal, ctRound.state}
  BY <1>1, CtValues DEF GiveUp, CtShape, CtTypeOK, Running, CtIdle
<1>3. /\ ctRound'.pc = "ended" /\ ctRound'.n = ctRound.n /\ ctRound'.continued = ctRound.continued
      /\ ctRound'.exec = ctRound.exec /\ ctRound'.items = ctRound.items
  BY <1>1, <1>2 DEF GiveUp, CtRunning
<1>4. ctRound' # CtIdle
  BY <1>3 DEF CtIdle
<1>5. QED
  BY <1>2, <1>3, <1>4, CtRoundHeld

LEMMA CtRestartsHeld ==
  ASSUME CtShape, CtHeld, NEW channel \in CtChannels,
         NEW transport \in {"passthrough", "transform", "http"}, NEW paid \in BOOLEAN,
         Restart(channel, transport, paid)
  PROVE  CtHeld'
<1> DEFINE failed == IF paid THEN Paid("part", transport) ELSE ctRound
<1>1. ctRound \in CtRunning /\ Running /\ ctRound.tries < CtTries
      /\ UNCHANGED <<ctVia, ctConv, ctKnown, ctHttp, ctCount, ctPartial>>
      /\ ctStored \in [CtModels -> CtState]
  BY CtValues DEF Restart, CtAttempt, CtShape, CtTypeOK, Running, CtIdle
<1>2. /\ failed \in CtRunning /\ failed.pc = "run" /\ failed.n = ctRound.n
      /\ failed.continued = ctRound.continued /\ failed.exec = ctRound.exec
      /\ failed.items = ctRound.items /\ failed.state = ctRound.state /\ failed.req = ctRound.req
  <2>1. CASE paid
    BY <1>1, <2>1, CtPays
  <2>2. CASE ~paid
    BY <1>1, <2>2 DEF Running
  <2>3. QED
    BY <2>1, <2>2
<1> HIDE DEF failed
<1>3. CASE AutoRestart(ctRound.state, ctRound.req, failed)
  <2>1. ctRound' = [failed EXCEPT !.run = 2, !.tries = 0, !.exec = "replay",
                                  !.items = ReplayItems(ctRound.state, ctRound.n)]
        /\ UNCHANGED <<ctLocal, ctStored>>
    BY <1>3 DEF Restart, failed
  <2>2. ctRound.state # CtNone
    BY <1>3 DEF AutoRestart
  <2>3. /\ ctRound'.pc = "run" /\ ctRound'.n = ctRound.n /\ ctRound'.continued = ctRound.continued
        /\ ctRound'.exec = "replay" /\ ctRound'.items = ReplayItems(ctRound.state, ctRound.n)
        /\ ctRound'.state = ctRound.state /\ ctRound'.req = ctRound.req
    BY <1>2, <2>1 DEF CtRunning
  <2>4. ctRound' # CtIdle
    BY <2>3 DEF CtIdle
  <2>5. QED
    BY <1>1, <2>1, <2>2, <2>3, <2>4, CtRoundHeld
<1>4. CASE ~AutoRestart(ctRound.state, ctRound.req, failed)
  <2>1. ctRound' = [failed EXCEPT !.frames = Append(@, Frame("error", "gateway")), !.pc = "ended"]
    BY <1>4 DEF Restart, failed
  <2>2. ctLocal' \in {ctLocal, CtNone}
        /\ \A m \in CtModels : ctStored'[m] \in {ctStored[m], CtNone}
    BY <1>1, <1>4 DEF Restart, failed
  <2>3. /\ ctRound'.pc = "ended" /\ ctRound'.n = ctRound.n /\ ctRound'.continued = ctRound.continued
        /\ ctRound'.exec = ctRound.exec /\ ctRound'.items = ctRound.items
    BY <1>2, <2>1 DEF CtRunning
  <2>4. ctRound' # CtIdle
    BY <2>3 DEF CtIdle
  <2>5. QED
    BY <1>1, <2>2, <2>3, <2>4, CtRoundHeld
<1>5. QED
  BY <1>3, <1>4

LEMMA CtBetweenHeld ==
  ASSUME CtShape, CtHeld, WsRefuse \/ CtEnd \/ Reconnect \/ Expire
  PROVE  CtHeld'
<1>1. /\ ctRound' = CtIdle /\ UNCHANGED <<ctVia, ctConv, ctKnown, ctPartial>>
      /\ ctCount' \in {ctCount, ctCount + 1} /\ ~Running
  BY CtValues DEF WsRefuse, CtEnd, Reconnect, Expire, Running
<1>2. ~Running'
  BY <1>1 DEF Running
<1>3. CtItems'
  <2>1. ASSUME NEW id \in DOMAIN ctConv
        PROVE  Told(ctConv[id].items, ctCount', id)
    <3>1. Told(ctConv[id].items, ctCount, id)
      BY <1>1 DEF CtItems, CtHeld
    <3>2. ctCount \in Nat /\ ctCount' \in Nat /\ ctCount <= ctCount' /\ id \in Nat /\ id <= id
      BY <1>1, CtValues DEF CtShape, CtTypeOK
    <3>3. QED
      BY <3>1, <3>2, ToldMore
  <2>2. QED
    BY <1>1, <1>2, <2>1 DEF CtItems
<1>4. CtKept'
  <2>1. ctStored \in [CtModels -> CtState] /\ ctHttp \in [1 .. CtRounds -> CtState]
    BY DEF CtShape, CtTypeOK
  <2>2. CtKept
    BY DEF CtHeld
  <2>3. ASSUME WsRefuse PROVE CtKept'
    <3>1. PICK req \in CtRequests :
            LET found == Resolved(req.model, req.prev # 0) IN
            \/ ctLocal' = found /\ UNCHANGED ctStored
            \/ /\ ctLocal' = IF Continues(req) THEN found ELSE CtNone
               /\ ctStored' = IF Continues(req) THEN ctStored
                              ELSE [ctStored EXCEPT ![req.model] = CtNone]
      BY <2>3 DEF WsRefuse
    <3>2. req.model \in CtModels
      BY DEF CtRequests
    <3>3. Resolved(req.model, req.prev # 0) \in {ctLocal, ctStored[req.model], CtNone}
      BY DEF Resolved
    <3>4. ctLocal' \in {ctLocal, CtNone} \cup {ctStored[m] : m \in CtModels}
      BY <3>1, <3>2, <3>3
    <3>5. \A m \in CtModels : ctStored'[m] \in {ctStored[m], CtNone}
      BY <2>1, <3>1
    <3>6. ctHttp' = ctHttp
      BY <2>3 DEF WsRefuse
    <3>7. QED
      BY <1>1, <2>2, <3>4, <3>5, <3>6 DEF CtKept
  <2>4. ASSUME CtEnd PROVE CtKept'
    BY <1>1, <2>2, <2>4 DEF CtEnd, CtKept
  <2>5. ASSUME Reconnect PROVE CtKept'
    BY <1>1, <2>2, <2>5 DEF Reconnect, CtKept
  <2>6. ASSUME Expire PROVE CtKept'
    <3>1. /\ \A m \in CtModels : ctStored'[m] \in {ctStored[m], CtNone}
          /\ \A id \in 1 .. CtRounds : ctHttp'[id] \in {ctHttp[id], CtNone}
          /\ ctLocal' = ctLocal
      BY <2>1, <2>6 DEF Expire
    <3>2. QED
      BY <1>1, <2>2, <3>1 DEF CtKept
  <2>7. QED
    BY <2>3, <2>4, <2>5, <2>6
<1>5. CtRunsWith'
  BY <1>2 DEF CtRunsWith
<1>6. CtReplaySound'
  BY <1>1 DEF CtReplaySound
<1>7. QED
  BY <1>3, <1>4, <1>5, <1>6 DEF CtHeld

LEMMA CtAnswersHeld ==
  ASSUME CtShape, CtHeld, NEW channel \in CtChannels,
         NEW transport \in {"passthrough", "transform", "http"}, Answer(channel, transport)
  PROVE  CtHeld'
<1> DEFINE id == Len(ctConv) + 1
           raw == ExactOutput(channel, transport)
           p == Paid("full", transport)
           base == Append(ctRound.state.window, Input(ctRound.n))
           meant == Append(Earlier, Input(ctRound.n))
           whole == Append(meant, Output(id))
           response == [model |-> ctRound.req.model, items |-> whole]
<1>1. /\ ctRound \in CtRunning /\ ctRound.pc = "run" /\ Running /\ ctRound.tries < CtTries
      /\ ctRound # CtIdle
      /\ ctRound.n = ctCount /\ Len(ctConv) < ctCount /\ ctRound.continued \in 0 .. Len(ctConv)
      /\ ctVia' = ctVia /\ ctCount' = ctCount /\ ctVia \in {"ws", "http"}
      /\ ctStored \in [CtModels -> CtState] /\ ctRound.state \in CtState
      /\ ctHttp \in [1 .. CtRounds -> CtState] /\ ctRound.req.model \in CtModels
      /\ ctConv \in Seq(CtResponse) /\ Len(ctConv) \in Nat /\ ctCount \in 0 .. CtRounds
      /\ ctPartial \subseteq 1 .. Len(ctConv)
  BY CtValues DEF Answer, CtAttempt, CtShape, CtTypeOK, CtCounts, Running, CtIdle, CtRunning, CtRequest
<1>2. /\ base \in Seq(CtItem) /\ meant \in Seq(CtItem)
      /\ Meant(ctRound.continued, ctRound.n) = meant
      /\ TakenFrom(base, whole) /\ TakenFrom(Append(base, Output(id)), whole)
      /\ ctRound.state.last = ctRound.continued /\ ctRound.continued \notin ctPartial =>
           ctRound.state.window = Earlier
      /\ Told(whole, ctCount, id)
  BY <1>1, CtSends DEF CtHeld
<1>3. /\ ctConv' = Append(ctConv, response)
      /\ ctPartial' = IF NeedNotBeWhole(raw) THEN ctPartial \cup {id} ELSE ctPartial
      /\ ctRound' = [p EXCEPT !.pc = "ended"]
      /\ IF ctVia = "ws" THEN WsRecord(id, raw) ELSE HttpRecord(id, raw)
  BY <1>2 DEF Answer
<1>4. id \in 1 .. CtRounds /\ id \in 1 .. ctCount /\ id \in Nat
  BY <1>1, CtValues
<1>5. response \in CtResponse
  <2>1. whole \in Seq(CtItem)
    <3>1. Output(id) \in CtItem
      BY <1>4, CtValues
    <3> HIDE DEF meant, id
    <3>2. QED
      BY <1>2, <3>1
  <2> HIDE DEF whole
  <2>2. QED
    BY <1>1, <2>1 DEF CtResponse
<1>6. /\ DOMAIN ctConv = 1 .. Len(ctConv) /\ DOMAIN ctConv' = 1 .. id /\ ctConv'[id] = response
      /\ \A i \in 1 .. Len(ctConv) : ctConv'[i] = ctConv[i]
  <2> HIDE DEF response
  <2>1. QED
    BY <1>1, <1>3, <1>5
<1>7. /\ ctRound'.pc = "ended" /\ ctRound'.n = ctRound.n /\ ctRound'.continued = ctRound.continued
      /\ ctRound'.exec = ctRound.exec /\ ctRound'.items = ctRound.items /\ ~Running'
  <2>1. /\ p \in CtRunning /\ p.n = ctRound.n /\ p.continued = ctRound.continued
        /\ p.exec = ctRound.exec /\ p.items = ctRound.items
    BY <1>1, CtPays
  <2> HIDE DEF p
  <2>2. QED
    BY <1>3, <2>1 DEF CtRunning, Running
<1>8. CtItems'
  <2>1. Told(whole, ctCount, id)
    BY <1>2
  <2>2. ASSUME NEW i \in 1 .. Len(ctConv) PROVE Told(ctConv[i].items, ctCount, i)
    <3>1. Told(ctConv[i].items, ctCount - 1, i)
      BY <1>1, <1>6 DEF CtHeld, CtItems
    <3>2. ctCount - 1 \in Nat /\ ctCount \in Nat /\ ctCount - 1 <= ctCount /\ i \in Nat /\ i <= i
      BY <1>1, <1>4, CtValues
    <3>3. QED
      BY <3>1, <3>2, ToldMore
  <2> HIDE DEF whole
  <2>3. ASSUME NEW i \in 1 .. id PROVE Told(ctConv'[i].items, ctCount', i)
    <3>1. CASE i = id
      BY <1>1, <1>6, <2>1, <3>1
    <3>2. CASE i # id
      <4>1. i \in 1 .. Len(ctConv)
        BY <1>1, <3>2
      <4>2. QED
        BY <1>1, <1>6, <2>2, <4>1
    <3>3. QED
      BY <3>1, <3>2
  <2>4. QED
    BY <1>6, <1>7, <2>3 DEF CtItems
<1>9. ctPartial' \in {ctPartial, ctPartial \cup {id}}
  BY <1>3
\* What is recorded of the answer.
<1>10. ASSUME NEW pending \in BOOLEAN
       PROVE  LET s == Applied(ctRound.state, ctRound.req.model, base, id, raw, pending) IN
              /\ s.last = id /\ s.model = ctRound.req.model
              /\ Recorded(s, ctConv', ctPartial') /\ Latest(s, ctConv')
  <2> DEFINE s == Applied(ctRound.state, ctRound.req.model, base, id, raw, pending)
  <2>1. /\ s.last = id /\ s.model = ctRound.req.model
        /\ s.window = IF raw THEN Append(base, Output(id)) ELSE base
    BY DEF Applied
  <2>2. TakenFrom(s.window, whole)
    BY <1>2, <2>1
  <2>3. ASSUME id \notin ctPartial' PROVE s.window = whole
    <3>1. ~NeedNotBeWhole(raw)
      BY <1>3, <2>3
    <3>2. raw
      BY <3>1 DEF NeedNotBeWhole
    <3>3. ctRound.state.last = ctRound.continued /\ ctRound.continued \notin ctPartial
      <4>1. CASE ctRound.continued = 0
        <5>1. ctRound.state = CtNone
          BY <1>1, <4>1 DEF CtHeld, CtRunsWith, Recorded
        <5>2. QED
          BY <1>1, <4>1, <5>1, CtValues
      <4>2. CASE ctRound.continued # 0
        BY <3>1, <4>2 DEF NeedNotBeWhole
      <4>3. QED
        BY <4>1, <4>2
    <3>4. QED
      BY <1>2, <2>1, <3>2, <3>3
  <2>4. response.model = ctRound.req.model /\ response.items = whole
    OBVIOUS
  <2>5. id \in 1 .. id /\ \A i \in 1 .. id : i <= id
    BY <1>4
  <2> HIDE DEF s, response, whole, raw, base, id
  <2>6. Recorded(s, ctConv', ctPartial')
    BY <1>6, <2>1, <2>2, <2>3, <2>4, <2>5 DEF Recorded
  <2>7. Latest(s, ctConv')
    BY <1>6, <2>1, <2>4, <2>5 DEF Latest
  <2>8. QED
    BY <2>1, <2>6, <2>7 DEF s
<1>11. ASSUME NEW state, Recorded(state, ctConv, ctPartial)
       PROVE  /\ Recorded(state, ctConv', ctPartial')
              /\ Latest(state, ctConv) /\ ctRound.req.model # state.model => Latest(state, ctConv')
  <2>1. response.model = ctRound.req.model
    OBVIOUS
  <2> HIDE DEF response
  <2>2. QED
    BY <1>1, <1>3, <1>5, <1>9, <1>11, <2>1, CtRecordsStay
<1>12. CtKept'
  <2> HIDE DEF response, whole, raw
  <2>1. CASE ctVia = "ws"
    <3> DEFINE pending == ctRound.run = 2 /\ ctRound.req.tools
               s == Applied(ctRound.state, ctRound.req.model, base, id, raw, pending)
    <3>1. ctLocal' = s /\ ctStored' = [ctStored EXCEPT ![ctRound.req.model] = s]
          /\ ctHttp' = ctHttp
      BY <1>3, <2>1 DEF WsRecord
    <3>2. pending \in BOOLEAN
      BY <1>1 DEF CtRunning, CtRequest
    <3> HIDE DEF pending
    <3>3. /\ s.model = ctRound.req.model /\ Recorded(s, ctConv', ctPartial') /\ Latest(s, ctConv')
      BY <1>10, <3>2
    <3> HIDE DEF s
    <3>4. ASSUME NEW m \in CtModels, ctStored'[m] # CtNone
          PROVE  /\ ctStored'[m].model = m
                 /\ Recorded(ctStored'[m], ctConv', ctPartial') /\ Latest(ctStored'[m], ctConv')
      <4>1. CASE m = ctRound.req.model
        BY <1>1, <3>1, <3>3, <4>1
      <4>2. CASE m # ctRound.req.model
        <5>1. ctStored'[m] = ctStored[m]
          BY <1>1, <3>1, <4>2
        <5>2. ctStored[m].model = m /\ Recorded(ctStored[m], ctConv, ctPartial)
              /\ Latest(ctStored[m], ctConv)
          BY <2>1, <3>4, <5>1 DEF CtHeld, CtKept
        <5>3. QED
          BY <1>11, <4>2, <5>1, <5>2
      <4>3. QED
        BY <4>1, <4>2
    <3>5. ASSUME NEW i \in 1 .. CtRounds, ctHttp'[i] # CtNone
          PROVE  ctHttp'[i].last = i /\ Recorded(ctHttp'[i], ctConv', ctPartial')
      BY <1>11, <3>1, <3>5 DEF CtHeld, CtKept
    <3>6. QED
      BY <3>1, <3>3, <3>4, <3>5 DEF CtKept
  <2>2. CASE ctVia = "http"
    <3> DEFINE s == Applied(ctRound.state, ctRound.req.model, base, id, raw, FALSE)
    <3>1. ctRound.items = base
      <4>1. CASE ctRound.exec = "replay"
        BY <1>1, <4>1 DEF CtHeld, CtRunsWith, ReplayItems
      <4>2. CASE ctRound.exec = "native"
        <5>1. ctRound.items = <<Input(ctRound.n)>> /\ ctRound.state = CtNone
          BY <1>1, <2>2, <4>2 DEF CtHeld, CtRunsWith
        <5>2. base = Append(<<>>, Input(ctRound.n))
          BY <5>1, CtValues
        <5>3. QED
          BY <5>1, <5>2
      <4>3. QED
        BY <1>1, <4>1, <4>2 DEF CtRunning
    <3>2. ctHttp' = [ctHttp EXCEPT ![id] = s]
      BY <1>3, <2>2, <3>1 DEF HttpRecord
    <3>3. s.last = id /\ Recorded(s, ctConv', ctPartial')
      BY <1>10
    <3> HIDE DEF s
    <3>4. ASSUME NEW i \in 1 .. CtRounds, ctHttp'[i] # CtNone
          PROVE  ctHttp'[i].last = i /\ Recorded(ctHttp'[i], ctConv', ctPartial')
      <4>1. CASE i = id
        BY <1>1, <1>4, <3>2, <3>3, <4>1
      <4>2. CASE i # id
        <5>1. ctHttp'[i] = ctHttp[i]
          BY <1>1, <3>2, <4>2
        <5>2. QED
          BY <1>11, <3>4, <5>1 DEF CtHeld, CtKept
      <4>3. QED
        BY <4>1, <4>2
    <3>5. ctVia' # "ws"
      BY <1>1, <2>2
    <3>6. QED
      BY <3>4, <3>5 DEF CtKept
  <2>3. QED
    BY <1>1, <2>1, <2>2
<1>13. CtRunsWith'
  BY <1>7 DEF CtRunsWith
<1>14. CtReplaySound'
  <2>1. CtReplaySound
    BY <1>1, CtReplays DEF CtHeld
  <2> HIDE DEF response
  <2>2. QED
    BY <1>1, <1>3, <1>5, <1>7, <1>9, <2>1, CtStaysReplayed
<1>15. QED
  BY <1>8, <1>12, <1>13, <1>14 DEF CtHeld

\* A legal request is for the latest response of its model, where clients do not fork: the
\* state it finds records the response it continues.
LEMMA CtFinds ==
  ASSUME CtShape, CtKept, ~CtForks, ctVia = "ws", NEW req \in CtRequests, CtLegal(req),
         Continues(req), Resolved(req.model, req.prev # 0) # CtNone
  PROVE  LET found == Resolved(req.model, req.prev # 0) IN
         /\ found.model = req.model /\ found.last = Continued(req)
         /\ Recorded(found, ctConv, ctPartial) /\ Latest(found, ctConv)
<1> DEFINE found == Resolved(req.model, req.prev # 0)
<1>1. req.model \in CtModels /\ req.prev \in 0 .. Len(ctConv) /\ req.tools \in BOOLEAN
  BY DEF CtRequests
<1>2. /\ found.model = req.model /\ Recorded(found, ctConv, ctPartial) /\ Latest(found, ctConv)
      /\ found = ctLocal \/ req.prev # 0
  BY <1>1 DEF Resolved, CtKept
<1>3. LatestOf(req.model) = found.last
  <2> DEFINE ids == {i \in DOMAIN ctConv : ctConv[i].model = req.model}
  <2>1. found.last \in ids /\ \A i \in ids : i <= found.last
    BY <1>2 DEF Recorded, Latest
  <2>2. ids \subseteq Nat
    BY DEF CtShape, CtTypeOK
  <2> HIDE DEF ids, found
  <2>3. \A y \in ids : found.last >= y
    BY <2>1, <2>2
  <2>4. Max(ids) \in ids /\ \A y \in ids : Max(ids) >= y
    BY <2>1, <2>3 DEF Max
  <2>5. Max(ids) = found.last
    <3>1. Max(ids) \in Nat /\ found.last \in Nat
      BY <2>1, <2>2, <2>4
    <3>2. Max(ids) >= found.last /\ Max(ids) <= found.last
      BY <2>1, <2>4
    <3>3. QED
      BY <3>1, <3>2
  <2>6. QED
    BY <2>1, <2>5 DEF LatestOf, ids
<1>4. found.last # 0
  <2>1. found.last \in DOMAIN ctConv /\ ctConv \in Seq(CtResponse)
    BY <1>2 DEF Recorded, CtShape, CtTypeOK
  <2>2. QED
    BY <2>1
<1>5. found.last = Continued(req)
  <2>1. CASE req.prev # 0
    <3>1. LatestOf(req.model) \in {0, req.prev}
      BY <2>1 DEF CtLegal
    <3>2. QED
      BY <1>3, <1>4, <2>1, <3>1 DEF Continued
  <2>2. CASE req.prev = 0
    <3>1. req.tools
      BY <2>2 DEF Continues
    <3>2. ctLocal.last = Len(ctConv) /\ found = ctLocal
      BY <1>2, <2>2, <3>1 DEF CtLegal
    <3> HIDE DEF found
    <3>3. QED
      BY <2>2, <3>1, <3>2 DEF Continued
  <2>3. QED
    BY <2>1, <2>2
<1>6. QED
  BY <1>2, <1>5

LEMMA CtReceivesHeld ==
  ASSUME CtShape, CtHeld, ~CtForks, Receive
  PROVE  CtHeld'
<1>1. ctRound = CtIdle /\ ctCount < CtRounds /\ ctCount' = ctCount + 1 /\ ~Running
      /\ UNCHANGED <<ctVia, ctConv, ctKnown, ctHttp, ctPartial>>
  BY CtValues DEF Receive, Running
<1>2. PICK req \in CtRequests : CtLegal(req) /\ (WsReceive(req) \/ HttpReceive(req))
  BY DEF Receive
<1>3. /\ ctLocal' = ctLocal /\ ctHttp' = ctHttp /\ ctStored \in [CtModels -> CtState]
      /\ ctCount \in Nat
  BY <1>1, <1>2, CtValues DEF WsReceive, HttpReceive, CtShape, CtTypeOK
<1> DEFINE Begins(state, exec, items) ==
             /\ exec \in {"native", "replay"}
             /\ ctRound' = NewRound(req, state, exec, items)
             /\ state # CtNone => /\ Continued(req) = state.last /\ Recorded(state, ctConv, ctPartial)
                                  /\ ctVia = "ws" => state.model = req.model /\ Latest(state, ctConv)
             /\ exec = "replay" => state # CtNone /\ items = ReplayItems(state, ctCount + 1)
             /\ exec = "native" =>
                  items = <<Input(ctCount + 1)>> /\ (ctVia = "http" => state = CtNone)
<1>4. PICK state, exec, items : Begins(state, exec, items)
  <2>1. CASE WsReceive(req)
    <3> DEFINE found == Resolved(req.model, req.prev # 0)
               state == IF Continues(req) THEN found ELSE CtNone
    <3>1. ctVia = "ws"
      BY <2>1 DEF WsReceive
    <3>2. \/ /\ state # CtNone
             /\ ctRound' = NewRound(req, state, "replay", ReplayItems(state, ctCount + 1))
          \/ ctRound' = NewRound(req, state, "native", <<Input(ctCount + 1)>>)
      BY <2>1 DEF WsReceive
    <3>3. state # CtNone => /\ Continued(req) = state.last /\ Recorded(state, ctConv, ctPartial)
                            /\ state.model = req.model /\ Latest(state, ctConv)
      <4>1. SUFFICES ASSUME state # CtNone
                     PROVE  /\ Continued(req) = state.last /\ Recorded(state, ctConv, ctPartial)
                            /\ state.model = req.model /\ Latest(state, ctConv)
        OBVIOUS
      <4>2. Continues(req) /\ state = found /\ found # CtNone
        BY <4>1
      <4>3. QED
        BY <1>2, <3>1, <4>2, CtFinds DEF CtHeld
    <3> HIDE DEF state
    <3>4. \/ Begins(state, "replay", ReplayItems(state, ctCount + 1))
          \/ Begins(state, "native", <<Input(ctCount + 1)>>)
      BY <3>1, <3>2, <3>3
    <3> HIDE DEF Begins
    <3>5. QED
      BY <3>4
  <2>2. CASE HttpReceive(req)
    <3> DEFINE state == IF req.prev = 0 THEN CtNone ELSE ctHttp[req.prev]
    <3>1. ctVia = "http"
      BY <2>2 DEF HttpReceive
    <3>2. \/ /\ state # CtNone
             /\ ctRound' = NewRound(req, state, "replay", ReplayItems(state, ctCount + 1))
          \/ ctRound' = NewRound(req, CtNone, "native", <<Input(ctCount + 1)>>)
      BY <2>2 DEF HttpReceive
    <3>3. state # CtNone => Continued(req) = state.last /\ Recorded(state, ctConv, ctPartial)
      <4>1. SUFFICES ASSUME state # CtNone
                     PROVE  Continued(req) = state.last /\ Recorded(state, ctConv, ctPartial)
        OBVIOUS
      <4>2. req.prev # 0 /\ state = ctHttp[req.prev] /\ req.prev \in 0 .. Len(ctConv)
        BY <4>1 DEF CtRequests
      <4>3. req.prev \in 1 .. CtRounds
        BY <1>3, <4>2, CtValues DEF CtShape, CtTypeOK
      <4>4. ctHttp[req.prev].last = req.prev /\ Recorded(ctHttp[req.prev], ctConv, ctPartial)
        BY <4>1, <4>2, <4>3 DEF CtHeld, CtKept
      <4> HIDE DEF state
      <4>5. QED
        BY <4>2, <4>4 DEF Continued
    <3> HIDE DEF state
    <3>4. \/ Begins(state, "replay", ReplayItems(state, ctCount + 1))
          \/ Begins(CtNone, "native", <<Input(ctCount + 1)>>)
      BY <3>1, <3>2, <3>3
    <3> HIDE DEF Begins
    <3>5. QED
      BY <3>4
  <2>3. QED
    BY <1>2, <2>1, <2>2
<1>5. /\ ctRound'.pc = "run" /\ ctRound'.req = req /\ ctRound'.n = ctCount + 1
      /\ ctRound'.continued = Continued(req) /\ ctRound'.state = state /\ ctRound'.exec = exec
      /\ ctRound'.items = items
  BY <1>4 DEF NewRound
<1>6. Running'
  BY <1>5 DEF Running, CtIdle
<1>7. CtItems'
  <2>1. \A id \in DOMAIN ctConv : Told(ctConv[id].items, ctCount, id)
    BY <1>1 DEF CtHeld, CtItems
  <2>2. ctCount' - 1 = ctCount
    BY <1>1, <1>3
  <2>3. QED
    BY <1>1, <1>6, <2>1, <2>2 DEF CtItems
<1>8. CtKept'
  <2>1. \A m \in CtModels : ctStored'[m] \in {ctStored[m], CtNone}
    BY <1>2, <1>3 DEF WsReceive, HttpReceive
  <2>2. QED
    BY <1>1, <1>3, <2>1 DEF CtHeld, CtKept
<1>9. CtRunsWith'
  <2>1. ReplayItems(ctRound.state, ctRound.n)' = ReplayItems(state, ctCount + 1)
        /\ <<Input(ctRound.n)>>' = <<Input(ctCount + 1)>>
    BY <1>5 DEF ReplayItems, Input
  <2>2. QED
    BY <1>1, <1>4, <1>5, <2>1 DEF CtRunsWith
<1>10. QED
  BY <1>6, <1>7, <1>8, <1>9 DEF CtHeld

\* Where clients do not fork conversations, what is replayed is the conversation that the
\* request continues, or what was recorded of it (BuildReplayRequest in ws_session.go).
THEOREM ReplayIsTheConversation == ~CtForks => (CtSpec => []CtReplaySound)
<1> SUFFICES ASSUME ~CtForks PROVE CtSpec => []CtReplaySound
  OBVIOUS
<1>1. CtInit => CtHeld
  BY DEF CtInit, CtHeld, CtItems, CtKept, CtRunsWith, CtReplaySound, Running
<1>2. ASSUME CtShape, CtHeld, [CtNext]_ctVars PROVE CtHeld'
  <2>1. CASE Receive
    BY <1>2, <2>1, CtReceivesHeld
  <2>2. CASE WsRefuse \/ CtEnd \/ Reconnect \/ Expire
    BY <1>2, <2>2, CtBetweenHeld
  <2>3. CASE Exhaust \/ CtCancel
    BY <1>2, <2>3, CtGivesUpHeld
  <2>4. ASSUME NEW channel \in CtChannels, NEW transport \in {"passthrough", "transform", "http"},
               \/ Answer(channel, transport) \/ FailNext(channel, transport)
               \/ FailCommitted(channel, transport)
               \/ \E paid \in BOOLEAN : Restart(channel, transport, paid)
        PROVE  CtHeld'
    BY <1>2, <2>4, CtAnswersHeld, CtFailsHeld, CtRestartsHeld
  <2>5. CASE UNCHANGED ctVars
    <3>1. Running' = Running
      BY <2>5 DEF ctVars, Running
    <3>2. CtItems' /\ CtKept' /\ CtRunsWith'
      BY <1>2, <2>5, <3>1 DEF ctVars, CtHeld, CtItems, CtKept, CtRunsWith, ReplayItems
    <3>3. ~Running' => CtReplaySound'
      BY <1>2, <2>5, <3>1 DEF ctVars, CtHeld, CtReplaySound, Meant
    <3>4. QED
      BY <3>2, <3>3 DEF CtHeld
  <2>6. QED
    BY <1>2, <2>1, <2>2, <2>3, <2>4, <2>5 DEF CtNext
<1>3. CtShape /\ CtHeld => CtReplaySound
  BY CtReplays DEF CtHeld
<1>4. QED
  BY <1>1, <1>2, <1>3, CtInvariance, PTL DEF CtSpec
=============================================================================
